--------------------------- MODULE RaftReplication ----------------------------
(***************************************************************************)
(* A client's request at the leader and the replication handlers keep      *)
(* RaftHistory's invariant: they give the history an entry of a leader's   *)
(* log, an acknowledgement, or nothing.                                    *)
(***************************************************************************)
EXTENDS RaftSteps

(* raft_recv_entry: the leader's log grows.                                *)
LEMMA RecvEntryStep ==
    ASSUME NEW h \in Hist, TypeInv, Explains(h), NEW s \in Servers, state[s] = "leader",
           recv_entry(s, accepted + 1),
           sav' = [sav EXCEPT ![s] = [req |-> accepted + 1,
                                      idx |-> Len(log'[s]), term |-> current_term[s]]],
           accepted' = accepted + 1,
           UNCHANGED <<raft, peers, commit_idx, applied, acked, elections>>
    PROVE  TypeInv' /\ \E h2 \in Hist : Explains(h2)'
<1>0. PICK T, lg, e, new, n : /\ T = current_term[s] /\ lg = log[s]
                              /\ e = [term |-> T, req |-> accepted + 1] /\ new = Append(lg, e)
                              /\ n = Len(lg) + 1
  BY Zenon
<1>1. /\ T \in Nat /\ T \in 0 .. elections /\ lg \in Seq(Entry) /\ commit_idx[s] \in Nat
      /\ current_term[s] = T /\ log[s] = lg /\ current_term \in [Servers -> Nat]
      /\ log \in [Servers -> Seq(Entry)] /\ accepted \in Nat
      /\ h.llog[T] = lg /\ h.lead[T] = s /\ Elected(h, T)
      /\ ChosenPrefix(h, lg, commit_idx[s], T)
      /\ \A d \in Peers(s) : next_idx[s][d] \in Nat \ {0} /\ next_idx[s][d] <= Len(lg) + 1
  <2>1. /\ current_term[s] \in Nat /\ current_term[s] \in 0 .. elections
        /\ log[s] \in Seq(Entry) /\ commit_idx[s] \in Nat
        /\ h.llog[current_term[s]] = log[s] /\ h.lead[current_term[s]] = s
        /\ ChosenPrefix(h, log[s], commit_idx[s], current_term[s])
        /\ \A d \in Peers(s) : next_idx[s][d] \in Nat \ {0} /\ next_idx[s][d] <= Len(log[s]) + 1
    BY Zenon, LeaderFacts
  <2>2. Elected(h, current_term[s])
    BY Zenon, <2>1, ServerAssumption DEF Elected
  <2>3. /\ current_term \in [Servers -> Nat] /\ log \in [Servers -> Seq(Entry)]
        /\ accepted \in Nat
    BY Zenon DEF TypeInv
  <2> QED
    BY Zenon, <1>0, <2>1, <2>2, <2>3
<1>1a. T \in Nat /\ accepted \in Nat /\ Len(lg) \in Nat
  <2>1. T \in Nat /\ accepted \in Nat /\ lg \in Seq(Entry)
    BY Zenon, <1>1
  <2> QED
    BY <2>1
<1>2. ElectInv(h) /\ LogInv(h) /\ AckInv(h) /\ KeepInv(h) /\ CommitInv(h) /\ RequestInv(h)
  BY Zenon DEF Explains
<1>3. e \in Entry /\ e.term = T /\ e.req = accepted + 1
  BY <1>0, <1>1 DEF Entry
<1>4. /\ new \in Seq(Entry) /\ Len(new) = n /\ n \in Nat \ {0} /\ n = Len(lg) + 1 /\ new[n] = e
      /\ \A i \in 1 .. Len(lg) : new[i] = lg[i]
      /\ Agree(new, lg, Len(lg))
  <2>1. /\ new \in Seq(Entry) /\ Len(new) = Len(lg) + 1 /\ new[Len(lg) + 1] = e
        /\ \A i \in 1 .. Len(lg) : new[i] = lg[i]
        /\ Agree(new, lg, Len(lg))
    <3>1. lg \in Seq(Entry) /\ e \in Entry /\ new = Append(lg, e)
      BY Zenon, <1>0, <1>1, <1>3
    <3>2. new \in Seq(Entry) /\ Len(new) = Len(lg) + 1
      BY <3>1
    <3>3. new[Len(lg) + 1] = e /\ \A i \in 1 .. Len(lg) : new[i] = lg[i]
      BY <3>1
    <3>4. Agree(new, lg, Len(lg))
      BY <3>1, <3>2, <3>3 DEF Agree
    <3> QED
      BY Zenon, <3>2, <3>3, <3>4
  <2>2. n \in Nat \ {0}
    BY <1>0, <1>1
  <2> QED
    BY Zenon, <1>0, <2>1, <2>2
<1>5. PICK h2 \in Hist : Extended(h, h2, s, T, new)
  <2>1. T \in Nat /\ new \in Seq(Entry)
    BY Zenon, <1>1, <1>4
  <2> QED
    BY Zenon, <2>1, HistExtend
<1>6. /\ h2.lead = h.lead /\ h2.vote = h.vote
      /\ h2.llog[T] = new /\ h2.acc[s][T] = n
      /\ \A U \in Nat \ {T} : h2.llog[U] = h.llog[U]
      /\ \A p \in Servers, U \in Nat : p # s \/ U # T => h2.acc[p][U] = h.acc[p][U]
  BY Zenon, <1>4, <1>5 DEF Extended
<1>7. /\ log' = [log EXCEPT ![s] = new]
      /\ \E ok \in SUBSET {AppendEntries(s, d, T, new, next_idx[s][d], commit_idx[s]) :
                              d \in {p \in Peers(s) : next_idx[s][p] = Len(new)}} :
            msgs' = msgs \cup ok
  BY Zenon, <1>0 DEF recv_entry, Sent
<1>8. PICK ok \in SUBSET {AppendEntries(s, d, T, new, next_idx[s][d], commit_idx[s]) :
                              d \in {p \in Peers(s) : next_idx[s][p] = Len(new)}} :
            msgs' = msgs \cup ok
  BY Zenon, <1>7
<1>9. /\ log'[s] = new /\ \A t \in Servers \ {s} : log'[t] = log[t]
      /\ log' \in [Servers -> Seq(Entry)]
      /\ current_term' = current_term /\ state' = state /\ voted_for' = voted_for
      /\ votes' = votes /\ current_leader' = current_leader
      /\ next_idx' = next_idx /\ match_idx' = match_idx
      /\ commit_idx' = commit_idx /\ applied' = applied /\ elections' = elections
  BY Zenon, <1>1, <1>4, <1>7 DEF raft, peers
<1>10. Forward(h, h2)
  <2>1. ASSUME NEW U \in Nat PROVE Agree(h2.llog[U], h.llog[U], Len(h.llog[U]))
    <3>1. h.llog[U] \in Seq(Entry)
      BY Zenon, HistTypes
    <3>2. CASE U = T
      BY Zenon, <1>1, <1>4, <1>6, <3>2
    <3>3. CASE U # T
      <4>1. h2.llog[U] = h.llog[U]
        BY Zenon, <1>6, <3>3
      <4>2. Len(h.llog[U]) \in Nat /\ Len(h.llog[U]) <= Len(h.llog[U])
        BY <3>1
      <4> QED
        BY Zenon, <3>1, <4>1, <4>2, AgreeSelf
    <3> QED
      BY Zenon, <3>2, <3>3
  <2>2. \A t \in Servers : current_term[t] <= current_term'[t]
    BY <1>1, <1>9
  <2>3. ASSUME NEW p \in Servers, NEW U \in Nat
        PROVE  /\ h.acc[p][U] <= h2.acc[p][U]
               /\ h2.acc[p][U] # h.acc[p][U] => U = current_term'[p]
    <3>1. h.acc[p][U] \in Nat
      BY Zenon, HistTypes
    <3>2. CASE p = s /\ U = T
      <4>1. h.acc[s][T] <= Len(h.llog[T])
        BY Zenon, <1>1, <1>2 DEF AckInv
      <4>2. h.acc[p][U] <= Len(lg) /\ Len(lg) \in Nat
        BY <1>1, <3>2, <4>1
      <4>3. h.acc[p][U] <= n
        BY <1>4, <3>1, <4>2
      <4> QED
        BY Zenon, <1>1, <1>6, <1>9, <3>2, <4>3
    <3>3. CASE p # s \/ U # T
      BY <1>6, <3>1, <3>3
    <3> QED
      BY Zenon, <3>2, <3>3
  <2> QED
    BY Zenon, <1>6, <2>1, <2>2, <2>3 DEF Forward
<1>11. ChosenPrefix(h2, new, commit_idx[s], T)
  <2>1. T <= T
    BY <1>1a
  <2>2. ChosenPrefix(h2, lg, commit_idx[s], T)
    BY Zenon, <1>1, <1>10, <2>1, ChosenPrefixStays
  <2> QED
    BY Zenon, <1>1, <1>4, <2>2, ChosenLonger
<1>12. ASSUME NEW x \in ok PROVE Message(x)' /\ MsgInv(h2, x)'
  <2>1. PICK d \in Peers(s) : x = AppendEntries(s, d, T, new, next_idx[s][d], commit_idx[s])
    BY Zenon, <1>8
  <2>2. PICK next : next = next_idx[s][d]
    BY Zenon
  <2>3. next \in Nat \ {0} /\ next <= Len(new) + 1 /\ T \in 0 .. elections'
    BY <1>1, <1>4, <1>9, <2>2
  <2>4. h2.llog[T] = new /\ h2.lead[T] = s
    BY Zenon, <1>1, <1>6
  <2> QED
    BY Zenon, <1>1, <1>4, <1>11, <2>1, <2>2, <2>3, <2>4, AppendEntriesInv
<1>13. sav' \in [Servers -> [req : Nat, idx : Nat, term : Nat]]
  <2>1. PICK r : r = [req |-> accepted + 1, idx |-> n, term |-> T]
    BY Zenon
  <2>2. r \in [req : Nat, idx : Nat, term : Nat]
    BY <1>1, <1>4, <2>1
  <2>3. sav' = [sav EXCEPT ![s] = r]
    BY Zenon, <1>1, <1>4, <1>9, <2>1
  <2> QED
    BY Zenon, <2>2, <2>3 DEF TypeInv
<1>14. TypeInv'
  <2>1. \A x \in msgs' : Message(x)'
    <3>1. elections \in Nat /\ elections' = elections
      BY Zenon, <1>9 DEF TypeInv
    <3>2. elections <= elections'
      BY <3>1
    <3>3. ASSUME NEW x \in msgs PROVE Message(x)'
      BY Zenon, <3>1, <3>2, MessageStays DEF TypeInv
    <3> QED
      BY Zenon, <1>8, <1>12, <3>3
  <2>2. accepted' \in Nat
    BY <1>1a
  <2> QED
    <3>1. /\ state' \in [Servers -> {"follower", "candidate", "leader"}]
          /\ current_term' \in [Servers -> Nat]
          /\ voted_for' \in [Servers -> Servers \cup {None}]
          /\ current_leader' \in [Servers -> Servers \cup {None}]
          /\ votes' \in [Servers -> SUBSET Servers]
      BY Zenon, <1>9 DEF TypeInv
    <3>2. /\ next_idx' \in [Servers -> [Servers -> Nat \ {0}]]
          /\ match_idx' \in [Servers -> [Servers -> Nat]]
          /\ commit_idx' \in [Servers -> Nat] /\ applied' \in [Servers -> Nat]
          /\ log' \in [Servers -> Seq(Entry)] /\ elections' \in Nat
      BY Zenon, <1>9 DEF TypeInv
    <3>3. \A t \in Servers : current_term'[t] <= elections'
      <4>1. \A t \in Servers : current_term[t] <= elections
        BY Zenon DEF TypeInv
      <4>2. current_term' = current_term /\ elections' = elections
        BY Zenon, <1>9
      <4> QED
        BY Zenon, <4>1, <4>2
    <3> QED
      BY Zenon, <1>13, <2>1, <2>2, <3>1, <3>2, <3>3 DEF TypeInv
<1>15. Candidates
  BY Zenon, <1>9 DEF Candidates, TypeInv
<1>16. \A x \in msgs' : MsgInv(h2, x)'
  <2>1. \A x \in msgs : MsgInv(h, x)
    BY Zenon, MessageFacts
  <2> QED
    BY Zenon, <1>8, <1>10, <1>12, <1>14, <1>15, <2>1, MsgsStep
<1>17. ElectInv(h2)'
  <2>1. \A x \in msgs' : VoteMsg(h2, x)'
    BY Zenon, <1>16 DEF MsgInv
  <2> QED
    <3>1. /\ ElectInv(h) /\ h2.vote = h.vote /\ h2.lead = h.lead
          /\ current_term' = current_term /\ voted_for' = voted_for /\ state' = state
          /\ votes' = votes /\ current_leader' = current_leader
      BY Zenon, <1>2, <1>6, <1>9
    <3>2. ASSUME NEW p \in Servers, NEW U \in Nat, h2.vote[p][U] # None
          PROVE  U <= current_term'[p] /\ U <= current_term'[h2.vote[p][U]]
      <4>1. U <= current_term[p] /\ U <= current_term[h.vote[p][U]]
        BY Zenon, <3>1, <3>2 DEF ElectInv
      <4> QED
        BY Zenon, <3>1, <4>1
    <3>3. ASSUME NEW t \in Servers
          PROVE  /\ voted_for'[t] = h2.vote[t][current_term'[t]]
                 /\ state'[t] = "leader" <=> h2.lead[current_term'[t]] = t
                 /\ state'[t] = "leader" <=> current_leader'[t] = t
      <4>1. /\ voted_for[t] = h.vote[t][current_term[t]]
            /\ state[t] = "leader" <=> h.lead[current_term[t]] = t
            /\ state[t] = "leader" <=> current_leader[t] = t
        BY Zenon, <3>1 DEF ElectInv
      <4> QED
        BY Zenon, <3>1, <4>1
    <3>4. ASSUME NEW t \in Servers, state'[t] # "follower"
          PROVE  /\ voted_for'[t] = t /\ t \notin votes'[t]
                 /\ \A p \in votes'[t] : h2.vote[p][current_term'[t]] = t
      <4>1. /\ voted_for[t] = t /\ t \notin votes[t]
            /\ \A p \in votes[t] : h.vote[p][current_term[t]] = t
        BY Zenon, <3>1, <3>4 DEF ElectInv
      <4> QED
        BY Zenon, <3>1, <4>1
    <3>5. ASSUME NEW U \in Nat, Elected(h2, U)
          PROVE  /\ U <= current_term'[h2.lead[U]]
                 /\ \E Q \in Quorums : \A p \in Q : h2.vote[p][U] = h2.lead[U]
      <4>1. Elected(h, U)
        BY Zenon, <3>1, <3>5 DEF Elected
      <4>2. /\ U <= current_term[h.lead[U]]
            /\ \E Q \in Quorums : \A p \in Q : h.vote[p][U] = h.lead[U]
        BY Zenon, <3>1, <4>1 DEF ElectInv
      <4> QED
        BY Zenon, <3>1, <4>2
    <3> QED
      BY Zenon, <2>1, <3>2, <3>3, <3>4, <3>5 DEF ElectInv, Elected
<1>18. Took(h, h2, s, T, lg, e, new, n)
  BY Zenon, <1>1, <1>1a, <1>3, <1>4, <1>6, <1>9, <1>10, <1>11 DEF Took
<1>19. LogInv(h2)' /\ AckInv(h2)' /\ KeepInv(h2)' /\ CommitInv(h2)'
  BY Zenon, <1>16, <1>18, TookLog, TookAck, TookKeep, TookCommit
<1>20. RequestInv(h2)'
  BY Zenon, <1>16, <1>18, TookRequest
<1> QED
  BY Zenon, <1>5, <1>14, <1>17, <1>19, <1>20 DEF Explains

(* Log replication: a follower.                                            *)

LEMMA AppendResponseInv ==
    ASSUME NEW h \in Hist, NEW s \in Servers, NEW d \in Peers(s), NEW T \in Nat, T \in 0 .. elections',
           NEW g \in BOOLEAN, NEW i \in Nat, g => i <= h.acc[s][T],
           NEW m, m = AppendResponse(s, d, T, g, i)
    PROVE  Message(m)' /\ MsgInv(h, m)'
<1>1. m.type = "aer" /\ m.from = s /\ m.to = d /\ m.term = T /\ m.success = g /\ m.idx = i
  BY Zenon DEF AppendResponse
<1>2. Message(m)'
  BY Zenon, <1>1 DEF Message, Peers
<1>3. VoteMsg(h, m)' /\ AppendMsg(h, m)' /\ RequestMsg(m)' /\ AckMsg(h, m)' /\ CommitMsg(h, m)'
  BY Zenon, <1>1 DEF VoteMsg, AppendMsg, RequestMsg, AckMsg, CommitMsg
<1> QED
  BY Zenon, <1>2, <1>3 DEF MsgInv

(* What a server knows that obeys the leader of its term.                  *)
LEMMA ObeyFacts ==
    ASSUME NEW h \in Hist, TypeInv, Explains(h), NEW m \in msgs, NEW s \in Servers,
           m.type = "ae", m.to = s, m.term >= current_term[s], Obey(s, m)
    PROVE  /\ m.term \in Nat /\ m.term \in 0 .. elections /\ m.from \in Peers(s)
           /\ current_term[s] \in Nat /\ current_term[s] <= m.term
           /\ log[s] \in Seq(Entry) /\ h.llog[m.term] \in Seq(Entry)
           /\ Follows(h, log[s]) /\ Follows(h, h.llog[m.term]) /\ Elected(h, m.term)
           /\ \A i \in 1 .. Len(h.llog[m.term]) : h.llog[m.term][i].term <= m.term
           /\ \A i \in 1 .. Len(log[s]) : log[s][i].term <= m.term
           /\ current_term' = [current_term EXCEPT ![s] = m.term]
           /\ current_term' \in [Servers -> Nat]
           /\ voted_for' \in [Servers -> Servers \cup {None}]
           /\ current_leader' \in [Servers -> Servers \cup {None}]
           /\ state' \in [Servers -> {"follower", "candidate", "leader"}]
           /\ \A t \in Servers \ {s} :
                 /\ state'[t] = state[t] /\ current_term'[t] = current_term[t]
                 /\ voted_for'[t] = voted_for[t] /\ current_leader'[t] = current_leader[t]
           /\ state'[s] = "follower" /\ current_term'[s] = m.term
           /\ voted_for'[s] = h.vote[s][m.term] /\ current_leader'[s] # s
           /\ ~ (state[s] = "leader" /\ current_term'[s] = current_term[s])
           /\ votes' = votes
<1>1. PICK T : T = m.term
  BY Zenon
<1>2. /\ Message(m) /\ AppendMsg(h, m) /\ T \in Nat /\ T \in 0 .. elections /\ m.from \in Peers(s)
      /\ m.from \in Servers /\ m.from # s
  BY Zenon, <1>1, MessageFacts, MessageTypes DEF Message, MsgInv, Peers
<1>3. /\ current_term[s] \in Nat /\ current_term[s] <= T /\ log[s] \in Seq(Entry)
      /\ h.llog[T] \in Seq(Entry)
  BY Zenon, <1>1, <1>2, HistTypes DEF TypeInv
<1>4. h.lead[T] = m.from /\ Elected(h, T)
  BY Zenon, <1>1, <1>2, ServerAssumption DEF AppendMsg, Elected
<1>5. LeaderLog(h, T) /\ Follows(h, log[s])
  BY Zenon, <1>2, <1>4 DEF Explains, LogInv
<1>6. \A i \in 1 .. Len(log[s]) : log[s][i].term <= T
  <2> SUFFICES ASSUME NEW i \in 1 .. Len(log[s]) PROVE log[s][i].term <= T
    BY Zenon
  <2>1. log[s][i] \in Entry
    BY <1>3
  <2>2. log[s][i].term \in Nat
    BY Zenon, <2>1 DEF Entry
  <2>3. log[s][i].term <= current_term[s]
    BY Zenon DEF Explains, LogInv
  <2> QED
    BY <1>2, <1>3, <2>2, <2>3
<1>7. /\ current_term' = [current_term EXCEPT ![s] = T]
      /\ voted_for' = IF current_term[s] < T THEN [voted_for EXCEPT ![s] = None] ELSE voted_for
      /\ state' = IF current_term[s] < T \/ state[s] = "candidate"
                  THEN [state EXCEPT ![s] = "follower"] ELSE state
      /\ current_leader' = [current_leader EXCEPT ![s] = m.from]
      /\ votes' = votes
  BY Zenon, <1>1 DEF Obey
<1>8. /\ current_term' \in [Servers -> Nat]
      /\ voted_for' \in [Servers -> Servers \cup {None}]
      /\ current_leader' \in [Servers -> Servers \cup {None}]
      /\ state' \in [Servers -> {"follower", "candidate", "leader"}]
  BY Zenon, <1>2, <1>7 DEF TypeInv
<1>9. \A t \in Servers \ {s} :
         /\ state'[t] = state[t] /\ current_term'[t] = current_term[t]
         /\ voted_for'[t] = voted_for[t] /\ current_leader'[t] = current_leader[t]
  BY Zenon, <1>7 DEF TypeInv
<1>10. current_term'[s] = T /\ current_leader'[s] # s
  BY Zenon, <1>2, <1>7 DEF TypeInv
<1>11. ~ (state[s] = "leader" /\ T = current_term[s])
  BY <1>2, <1>4 DEF Explains, ElectInv
<1>12. state'[s] = "follower"
  <2>1. CASE current_term[s] < T \/ state[s] = "candidate"
    BY Zenon, <1>7, <2>1 DEF TypeInv
  <2>2. CASE ~ (current_term[s] < T \/ state[s] = "candidate")
    <3>1. T = current_term[s]
      BY <1>2, <1>3, <2>2
    <3> QED
      BY Zenon, <1>7, <1>11, <2>2, <3>1 DEF TypeInv
  <2> QED
    BY Zenon, <2>1, <2>2
<1>13. voted_for'[s] = h.vote[s][T]
  <2>1. CASE current_term[s] < T
    <3>1. h.vote[s][T] = None
      BY Zenon, <1>2, <2>1, NoVoteYet DEF Explains
    <3> QED
      BY Zenon, <1>7, <2>1, <3>1 DEF TypeInv
  <2>2. CASE ~ (current_term[s] < T)
    <3>1. T = current_term[s]
      BY <1>2, <1>3, <2>2
    <3> QED
      BY Zenon, <1>7, <2>2, <3>1 DEF Explains, ElectInv
  <2> QED
    BY Zenon, <2>1, <2>2
<1>14. \A i \in 1 .. Len(h.llog[T]) : h.llog[T][i].term <= T
  BY Zenon, <1>5 DEF LeaderLog
<1>15. Follows(h, h.llog[T])
  BY Zenon, <1>5 DEF LeaderLog
<1> QED
  BY Zenon, <1>1, <1>2, <1>3, <1>4, <1>5, <1>6, <1>7, <1>8, <1>9, <1>10, <1>11, <1>12, <1>13, <1>14, <1>15

LEMMA ObeyStep ==
    ASSUME NEW h \in Hist, NEW h2 \in Hist, TypeInv, Explains(h), NEW m \in msgs, NEW s \in Servers,
           m.type = "ae", m.to = s, m.term >= current_term[s], Obey(s, m),
           h2.lead = h.lead, h2.llog = h.llog, h2.vote = h.vote, AcksMove(h, h2),
           log' \in [Servers -> Seq(Entry)], commit_idx' \in [Servers -> Nat],
           \A t \in Servers \ {s} : log'[t] = log[t] /\ commit_idx'[t] = commit_idx[t],
           log'[s] = log[s] \/ Adopts(h, s),
           commit_idx'[s] = commit_idx[s] \/ ChosenPrefix(h2, log'[s], commit_idx'[s], m.term),
           applied[s] <= commit_idx'[s],
           NEW r, Message(r)', MsgInv(h2, r)', Replied(m, r),
           UNCHANGED <<peers, applied, sav, clientvars, elections>>
    PROVE  TypeInv' /\ Explains(h2)'
<1>1. msgs' = (msgs \ {m}) \cup {r}
  BY Zenon DEF Replied
<1>2. /\ current_term' \in [Servers -> Nat]
      /\ voted_for' \in [Servers -> Servers \cup {None}]
      /\ current_leader' \in [Servers -> Servers \cup {None}]
      /\ state' \in [Servers -> {"follower", "candidate", "leader"}]
      /\ \A t \in Servers \ {s} :
            /\ state'[t] = state[t] /\ current_term'[t] = current_term[t]
            /\ voted_for'[t] = voted_for[t] /\ current_leader'[t] = current_leader[t]
      /\ state'[s] = "follower" /\ current_term'[s] = m.term
      /\ voted_for'[s] = h.vote[s][m.term] /\ current_leader'[s] # s
      /\ ~ (state[s] = "leader" /\ current_term'[s] = current_term[s])
      /\ votes' = votes
  BY ObeyFacts
<1>3. current_term[s] \in Nat /\ m.term \in Nat /\ m.term \in 0 .. elections /\ current_term[s] <= m.term
  BY Zenon, ObeyFacts
<1>4. TypeInv'
  <2>1. \A x \in msgs' : Message(x)'
    BY <1>1, MessageStays DEF TypeInv
  <2>2. ASSUME NEW t \in Servers PROVE current_term'[t] <= elections'
    <3>1. CASE t = s
      BY <1>2, <1>3, <3>1
    <3>2. CASE t # s
      BY Zenon, <1>2, <3>2 DEF TypeInv
    <3> QED
      BY Zenon, <3>1, <3>2
  <2> QED
    BY Zenon, <1>2, <2>1, <2>2 DEF TypeInv, peers, clientvars
<1>5. \A t \in Servers \ {s} : Same(t) /\ h2.vote[t] = h.vote[t]
  BY Zenon, <1>2 DEF Same, peers
<1>6. VotesMove(h, h2)
  BY Zenon DEF VotesMove
<1>7. Fine(h, h2, s)
  <2>1. Elects(h2, s)
    BY Zenon, <1>2 DEF Elects
  <2>2. Leads(h2, s)
    BY Zenon, <1>2 DEF Leads
  <2>3. Commits(h2, s)
    BY Zenon, <1>2 DEF Commits
  <2> QED
    BY Zenon, <1>2, <1>3, <2>1, <2>2, <2>3 DEF Fine, Role
<1>8. accepted <= accepted'
  BY DEF TypeInv, clientvars
<1>9. \A x \in msgs' : x \in msgs \/ MsgInv(h2, x)'
  BY Zenon, <1>1
<1> QED
  BY Zenon, <1>4, <1>5, <1>6, <1>7, <1>8, <1>9, OneServerStep

LEMMA StaleAppendStep ==
    ASSUME NEW h \in Hist, TypeInv, Explains(h), NEW m \in msgs, NEW s \in Servers,
           m.type = "ae", m.to = s,
           Replied(m, AppendResponse(s, m.from, current_term[s], FALSE, Len(log[s]))),
           UNCHANGED <<raft, peers, logs, sav, clientvars, elections>>
    PROVE  TypeInv' /\ Explains(h)'
<1>1. PICK r : r = AppendResponse(s, m.from, current_term[s], FALSE, Len(log[s]))
  BY Zenon
<1>2. msgs' = (msgs \ {m}) \cup {r}
  BY Zenon, <1>1 DEF Replied
<1>3. /\ m.from \in Peers(s) /\ current_term[s] \in Nat /\ current_term[s] \in 0 .. elections'
      /\ Len(log[s]) \in Nat
  BY MessageFacts, MessageTypes DEF TypeInv, Peers
<1>4. Message(r)' /\ MsgInv(h, r)'
  BY Zenon, <1>1, <1>3, AppendResponseInv
<1>5. TypeInv'
  <2>1. \A x \in msgs' : Message(x)'
    BY <1>2, <1>4, MessageStays DEF TypeInv
  <2> QED
    BY Zenon, <2>1 DEF TypeInv, raft, peers, logs, clientvars
<1>6. \A t \in Servers : Same(t)
  BY Zenon DEF Same, raft, peers, logs
<1>7. Fine(h, h, s)
  BY Zenon, <1>6, Still, SameFine
<1>8. accepted <= accepted'
  BY DEF TypeInv, clientvars
<1>9. \A x \in msgs' : x \in msgs \/ MsgInv(h, x)'
  BY Zenon, <1>2, <1>4
<1> QED
  BY Zenon, <1>5, <1>6, <1>7, <1>8, <1>9, QuietStep

(* The leader's log is longer than ours.                                   *)
LEMMA RejectStep ==
    ASSUME NEW h \in Hist, TypeInv, Explains(h), NEW m \in msgs, NEW s \in Servers,
           m.type = "ae", m.to = s, m.term >= current_term[s], Obey(s, m),
           Replied(m, AppendResponse(s, m.from, m.term, FALSE, Len(log[s]))),
           UNCHANGED <<peers, logs, sav, clientvars, elections>>
    PROVE  TypeInv' /\ Explains(h)'
<1>1. PICK r : r = AppendResponse(s, m.from, m.term, FALSE, Len(log[s]))
  BY Zenon
<1>2. m.term \in Nat /\ m.term \in 0 .. elections' /\ m.from \in Peers(s) /\ log[s] \in Seq(Entry)
  BY Zenon, ObeyFacts
<1>3. Len(log[s]) \in Nat
  BY <1>2
<1>4. Message(r)' /\ MsgInv(h, r)' /\ Replied(m, r)
  BY Zenon, <1>1, <1>2, <1>3, AppendResponseInv
<1>5. log' \in [Servers -> Seq(Entry)] /\ commit_idx' \in [Servers -> Nat]
  BY Zenon DEF TypeInv, logs
<1>6. applied[s] <= commit_idx'[s] /\ log' = log /\ commit_idx' = commit_idx
  BY Zenon DEF logs, Explains, CommitInv
<1> QED
  BY Zenon, <1>4, <1>5, <1>6, Still, ObeyStep DEF logs

(* The entry before the new ones is not the leader's: it is deleted, with  *)
(* all that follow it.                                                     *)
LEMMA DeleteStep ==
    ASSUME NEW h \in Hist, TypeInv, Explains(h), NEW m \in msgs, NEW s \in Servers,
           m.type = "ae", m.to = s, m.term >= current_term[s], Obey(s, m),
           m.prev_idx <= Len(log[s]), ~ PrevMatches(log[s], m),
           log' = [log EXCEPT ![s] = SubSeq(@, 1, m.prev_idx - 1)],
           Replied(m, AppendResponse(s, m.from, m.term, FALSE, m.prev_idx - 1)),
           UNCHANGED <<peers, commit_idx, applied, sav, clientvars, elections>>
    PROVE  TypeInv' /\ Explains(h)'
<1>1. PICK T, L, lg, k : T = m.term /\ L = h.llog[T] /\ lg = log[s] /\ k = m.prev_idx - 1
  BY Zenon
<1>2. /\ T \in Nat /\ T \in 0 .. elections' /\ m.from \in Peers(s)
      /\ lg \in Seq(Entry) /\ L \in Seq(Entry) /\ Follows(h, lg) /\ Elected(h, T)
      /\ state'[s] = "follower" /\ current_term'[s] = T
      /\ \A i \in 1 .. Len(lg) : lg[i].term <= T
  BY <1>1, ObeyFacts
<1>3. /\ m.prev_idx \in Nat /\ m.prev_idx <= Len(L) /\ m.prev_term = TermAt(L, m.prev_idx)
  <2>1. Message(m) /\ AppendMsg(h, m)
    BY Zenon, MessageFacts DEF MsgInv
  <2>2. m.prev_idx \in Nat /\ m.entries \in Seq(Entry)
    BY Zenon, <2>1 DEF Message
  <2>3. m.prev_idx + Len(m.entries) <= Len(L) /\ m.prev_term = TermAt(L, m.prev_idx)
    BY Zenon, <1>1, <2>1 DEF AppendMsg
  <2> QED
    BY <1>2, <2>2, <2>3
<1>4. TermAt(lg, m.prev_idx) # TermAt(L, m.prev_idx)
  BY Zenon, <1>1, <1>3 DEF PrevMatches
<1>5. m.prev_idx # 0
  BY <1>4 DEF TermAt, HasEntry
<1>6. k \in Nat /\ k <= Len(lg) /\ m.prev_idx = k + 1 /\ k + 1 <= Len(lg) /\ k + 1 <= Len(L)
  BY <1>1, <1>3, <1>5
<1>7. lg[k + 1] # L[k + 1]
  BY <1>2, <1>4, <1>6 DEF TermAt, HasEntry
<1>8. PICK b \in Seq(Entry) : b = SubSeq(lg, 1, k) /\ Len(b) = k /\ \A x \in 1 .. k : b[x] = lg[x]
  BY Zenon, <1>2, <1>6, PrefixSeq
<1>9. log' = [log EXCEPT ![s] = b]
  BY Zenon, <1>1, <1>8
<1>10. /\ log'[s] = b /\ \A t \in Servers \ {s} : log'[t] = log[t]
       /\ log' \in [Servers -> Seq(Entry)]
  <2>1. log \in [Servers -> Seq(Entry)]
    BY Zenon DEF TypeInv
  <2>2. \A t \in Servers : log'[t] = IF t = s THEN b ELSE log[t]
    BY Zenon, <1>9, <2>1
  <2>3. log' \in [Servers -> Seq(Entry)]
    BY Zenon, <1>9, <2>1
  <2> QED
    BY Zenon, <2>2, <2>3
<1>11. Adopts(h, s)
  <2>1. Agree(b, lg, Len(b))
    BY <1>2, <1>6, <1>8 DEF Agree
  <2>2. Follows(h, b)
    BY Zenon, <1>2, <2>1, PrefixFollows
  <2>3. \A i \in 1 .. Len(b) : b[i].term <= T
    BY <1>2, <1>6, <1>8
  <2>4. ASSUME NEW n \in Nat, Agree(lg, L, n) PROVE Agree(b, L, n)
    <3>1. n <= k
      <4> SUFFICES ASSUME ~ (n <= k) PROVE FALSE
        BY Zenon
      <4>1. k + 1 \in 1 .. n
        BY <1>6
      <4> QED
        BY Zenon, <1>7, <2>4, <4>1 DEF Agree
    <3> QED
      BY <1>2, <1>6, <1>8, <2>4, <3>1 DEF Agree
  <2>5. /\ log'[s] = b /\ log[s] = lg /\ h.llog[current_term'[s]] = L
        /\ state'[s] = "follower" /\ Elected(h, current_term'[s])
    BY Zenon, <1>1, <1>2, <1>10
  <2>6. \A i \in 1 .. Len(log'[s]) : log'[s][i].term <= current_term'[s]
    BY Zenon, <1>2, <2>3, <2>5
  <2>7. \A n \in Nat : Agree(log[s], h.llog[current_term'[s]], n) =>
                      Agree(log'[s], h.llog[current_term'[s]], n)
    BY Zenon, <2>4, <2>5
  <2> QED
    BY Zenon, <2>2, <2>5, <2>6, <2>7 DEF Adopts
<1>12. PICK r : r = AppendResponse(s, m.from, T, FALSE, k)
  BY Zenon
<1>13. Message(r)' /\ MsgInv(h, r)'
  BY Zenon, <1>2, <1>6, <1>12, AppendResponseInv
<1>14. Replied(m, r)
  BY Zenon, <1>1, <1>12
<1>15. commit_idx' \in [Servers -> Nat] /\ applied[s] <= commit_idx'[s] /\ commit_idx' = commit_idx
  BY Zenon DEF TypeInv, Explains, CommitInv
<1> QED
  BY Zenon, <1>10, <1>11, <1>13, <1>14, <1>15, Still, ObeyStep

(* The new entries are stored, in place of any that contradict them, and   *)
(* what the leader has committed of them is committed.                     *)
LEMMA MergeStep ==
    ASSUME NEW h \in Hist, TypeInv, Explains(h), NEW m \in msgs, NEW s \in Servers,
           m.type = "ae", m.to = s, m.term >= current_term[s], Obey(s, m),
           m.prev_idx <= Len(log[s]), PrevMatches(log[s], m),
           log' = [log EXCEPT ![s] = Merged(@, m)],
           commit_idx' = [commit_idx EXCEPT ![s] = FollowerCommit(@, log'[s], m)],
           Replied(m, AppendResponse(s, m.from, m.term, TRUE, m.prev_idx + Len(m.entries))),
           UNCHANGED <<peers, applied, sav, clientvars, elections>>
    PROVE  TypeInv' /\ \E h2 \in Hist : Explains(h2)'
<1>1. PICK T, L, lg, n : T = m.term /\ L = h.llog[T] /\ lg = log[s] /\ n = m.prev_idx + Len(m.entries)
  BY Zenon
<1>2. /\ T \in Nat /\ T \in 0 .. elections' /\ m.from \in Peers(s)
      /\ lg \in Seq(Entry) /\ L \in Seq(Entry) /\ Follows(h, lg) /\ Follows(h, L) /\ Elected(h, T)
      /\ state'[s] = "follower" /\ current_term'[s] = T
      /\ current_term[s] \in Nat /\ current_term[s] <= T
      /\ \A i \in 1 .. Len(lg) : lg[i].term <= T
      /\ \A i \in 1 .. Len(L) : L[i].term <= T
  BY <1>1, ObeyFacts
<1>3. /\ m.prev_idx \in Nat /\ m.entries \in Seq(Entry) /\ m.commit \in Nat /\ n \in Nat
      /\ m.prev_idx + Len(m.entries) <= Len(L) /\ m.prev_term = TermAt(L, m.prev_idx)
      /\ \A i \in 1 .. Len(m.entries) : m.entries[i] = L[m.prev_idx + i]
      /\ m.commit <= n /\ ChosenPrefix(h, L, m.commit, T)
  <2>1. Message(m) /\ AppendMsg(h, m) /\ CommitMsg(h, m)
    BY Zenon, MessageFacts DEF MsgInv
  <2>2. m.prev_idx \in Nat /\ m.entries \in Seq(Entry) /\ m.commit \in Nat
    BY Zenon, <2>1 DEF Message
  <2>3. n \in Nat
    BY <1>1, <2>2
  <2> QED
    BY Zenon, <1>1, <2>1, <2>2, <2>3 DEF AppendMsg, CommitMsg
<1>4. PICK b : b = Merged(lg, m)
  BY Zenon
<1>5. /\ b \in Seq(Entry) /\ Agree(b, L, n)
      /\ \/ b = lg
         \/ Len(b) = n /\ \A i \in Nat : Agree(lg, L, i) => i <= n
  <2>1. m.prev_idx <= Len(lg) /\ PrevMatches(lg, m)
    BY Zenon, <1>1
  <2> QED
    BY ZenonT(30), <1>1, <1>2, <1>3, <1>4, <2>1, MergedLog
<1>6. log' = [log EXCEPT ![s] = b]
  BY Zenon, <1>1, <1>4
<1>7. /\ log'[s] = b
      /\ \A t \in Servers \ {s} : log'[t] = log[t]
      /\ log' \in [Servers -> Seq(Entry)]
  <2>1. log \in [Servers -> Seq(Entry)]
    BY Zenon DEF TypeInv
  <2>2. \A t \in Servers : log'[t] = IF t = s THEN b ELSE log[t]
    BY Zenon, <1>6, <2>1
  <2>3. log' \in [Servers -> Seq(Entry)]
    BY Zenon, <1>5, <1>6, <2>1
  <2> QED
    BY Zenon, <2>2, <2>3
<1>8. \A i \in Nat : Agree(lg, L, i) => Agree(b, L, i)
  <2> SUFFICES ASSUME NEW i \in Nat, Agree(lg, L, i) PROVE Agree(b, L, i)
    BY Zenon
  <2>1. CASE b = lg
    BY Zenon, <2>1
  <2>2. CASE b # lg
    <3>1. i <= n
      BY Zenon, <1>5, <2>2
    <3> QED
      BY Zenon, <1>2, <1>3, <1>5, <3>1, AgreeLess
  <2> QED
    BY Zenon, <2>1, <2>2
<1>9. Adopts(h, s) \/ log'[s] = log[s]
  <2>1. CASE b = lg
    BY Zenon, <1>1, <1>7, <2>1
  <2>2. CASE b # lg
    <3>1. Len(b) = n /\ Agree(b, L, Len(b))
      BY Zenon, <1>5, <2>2
    <3>2. Follows(h, b)
      BY Zenon, <1>2, <1>5, <3>1, PrefixFollows
    <3>3. \A i \in 1 .. Len(b) : i \in 1 .. Len(L) /\ b[i] = L[i]
      BY <1>2, <1>5, <3>1 DEF Agree
    <3>4. \A i \in 1 .. Len(b) : b[i].term <= T
      BY Zenon, <1>2, <3>3
    <3> QED
      BY <1>1, <1>2, <1>7, <1>8, <3>2, <3>4 DEF Adopts
  <2> QED
    BY Zenon, <2>1, <2>2
<1>10. PICK old, k : old = h.acc[s][T] /\ k = Greater(old, n)
  BY Zenon
<1>11. old \in Nat /\ k \in Nat /\ old <= k /\ n <= k /\ (k = old \/ k = n)
  <2>1. old \in Nat
    BY Zenon, <1>2, <1>10, HistTypes
  <2> QED
    BY <1>3, <1>10, <2>1 DEF Greater
<1>12a. \E g \in Hist : Acknowledged(h, g, s, T, k)
  <2>1. T \in Nat /\ k \in Nat
    BY Zenon, <1>2, <1>11
  <2> QED
    BY Zenon, <2>1, HistAck
<1>12b. PICK h2 \in Hist : Acknowledged(h, h2, s, T, k)
  BY Zenon, <1>12a
<1>12. /\ h2.lead = h.lead /\ h2.llog = h.llog /\ h2.vote = h.vote
       /\ \A p \in Servers \ {s} : h2.acc[p] = h.acc[p]
       /\ h2.acc[s][T] = k
       /\ \A U \in Nat \ {T} : h2.acc[s][U] = h.acc[s][U]
  BY Zenon, <1>12b DEF Acknowledged
<1>13. Agree(b, L, k)
  <2>1. CASE k = n
    BY Zenon, <1>5, <2>1
  <2>2. CASE k = old
    <3>1. CASE current_term[s] = T
      <4>1. Agree(lg, L, old)
        BY Zenon, <1>1, <1>10, <3>1 DEF Explains, AckInv
      <4> QED
        BY Zenon, <1>8, <1>11, <2>2, <4>1
    <3>2. CASE current_term[s] # T
      <4>1. ~ (T <= current_term[s])
        BY <1>2, <3>2
      <4>2. old = 0
        BY SMTT(30), <1>2, <1>10, <1>11, <4>1 DEF Explains, AckInv
      <4> QED
        BY Zenon, <1>2, <1>5, <2>2, <4>2, AgreeZero
    <3> QED
      BY Zenon, <3>1, <3>2
  <2> QED
    BY Zenon, <1>11, <2>1, <2>2
<1>14. AcksMove(h, h2)
  <2>1. h2.acc[s][T] = k
    BY Zenon, <1>2, <1>12
  <2>2. ASSUME NEW p \in Servers, NEW U \in Nat, h2.acc[p][U] # h.acc[p][U] PROVE p = s /\ U = T
    BY Zenon, <1>12, <2>2
  <2> QED
    BY <1>1, <1>2, <1>7, <1>10, <1>11, <1>13, <2>1, <2>2 DEF AcksMove
<1>15. PICK r : r = AppendResponse(s, m.from, T, TRUE, n)
  BY Zenon
<1>16. n <= h2.acc[s][T]
  BY Zenon, <1>2, <1>11, <1>12
<1>17. Message(r)' /\ MsgInv(h2, r)'
  BY Zenon, <1>2, <1>3, <1>15, <1>16, AppendResponseInv
<1>18. Replied(m, r)
  BY Zenon, <1>1, <1>15
<1>19. PICK c, c2 : c = commit_idx[s] /\ c2 = FollowerCommit(c, b, m)
  BY Zenon
<1>20. c \in Nat /\ commit_idx \in [Servers -> Nat] /\ applied[s] <= c /\ applied[s] \in Nat
  BY Zenon, <1>19 DEF TypeInv, Explains, CommitInv
<1>21. c2 = c \/ (c < m.commit /\ c2 = m.commit)
  <2>1. n <= Len(b)
    BY Zenon, <1>5 DEF Agree
  <2> QED
    BY <1>3, <1>5, <1>19, <1>20, <2>1 DEF FollowerCommit, Lesser, Greater
<1>22. c2 \in Nat /\ applied[s] <= c2
  BY <1>3, <1>20, <1>21
<1>23. commit_idx' = [commit_idx EXCEPT ![s] = c2]
  BY Zenon, <1>7, <1>19
<1>24. /\ commit_idx'[s] = c2
       /\ \A t \in Servers \ {s} : commit_idx'[t] = commit_idx[t]
       /\ commit_idx' \in [Servers -> Nat]
  BY <1>20, <1>22, <1>23
<1>25. commit_idx'[s] = commit_idx[s] \/ ChosenPrefix(h2, log'[s], commit_idx'[s], T)
  <2>1. CASE c2 = c
    BY Zenon, <1>19, <1>24, <2>1
  <2>2. CASE c < m.commit /\ c2 = m.commit
    <3>1. PICK U, i \in Nat : U <= T /\ c2 <= i /\ Chosen(h, U, i) /\ Agree(L, h.llog[U], c2)
      BY <1>3, <1>20, <2>2 DEF ChosenPrefix
    <3>2. Agree(b, L, c2)
      BY Zenon, <1>2, <1>3, <1>5, <2>2, AgreeLess
    <3>3. Agree(b, h.llog[U], c2)
      BY Zenon, <3>1, <3>2, AgreeTrans
    <3>4. ChosenPrefix(h, b, c2, T)
      BY Zenon, <3>1, <3>3 DEF ChosenPrefix
    <3>5. T <= T
      BY <1>2
    <3>6. Forward(h, h2)
      <4>1. ASSUME NEW V \in Nat
            PROVE  /\ Elected(h, V) => h2.lead[V] = h.lead[V]
                   /\ Agree(h2.llog[V], h.llog[V], Len(h.llog[V]))
        <5>1. h.llog[V] \in Seq(Entry)
          BY Zenon, HistTypes
        <5> QED
          BY <1>12, <5>1, AgreeSelf
      <4>2. \A p \in Servers, V \in Nat :
               /\ h.acc[p][V] <= h2.acc[p][V]
               /\ h2.acc[p][V] # h.acc[p][V] => V = current_term'[p]
        BY <1>14, HistTypes DEF AcksMove
      <4>3. ASSUME NEW t \in Servers PROVE current_term[t] <= current_term'[t]
        <5>1. CASE t = s
          BY Zenon, <1>2, <5>1
        <5>2. CASE t # s
          <6>1. current_term'[t] = current_term[t]
            BY <5>2, ObeyFacts
          <6> QED
            BY <6>1 DEF TypeInv
        <5> QED
          BY Zenon, <5>1, <5>2
      <4> QED
        BY Zenon, <1>12, <4>1, <4>2, <4>3 DEF Forward
    <3> QED
      BY <1>2, <1>5, <1>7, <1>22, <1>24, <3>4, <3>5, <3>6, ChosenPrefixStays
  <2> QED
    BY Zenon, <1>21, <2>1, <2>2
<1>26. TypeInv' /\ Explains(h2)'
  BY Zenon, <1>1, <1>7, <1>9, <1>12, <1>14, <1>17, <1>18, <1>22, <1>24, <1>25, ObeyStep
<1> QED
  BY Zenon, <1>26

LEMMA AppendEntriesStep ==
    ASSUME NEW h \in Hist, TypeInv, Explains(h), NEW m \in msgs, NEW s \in Servers,
           recv_appendentries(s, m)
    PROVE  TypeInv' /\ \E h2 \in Hist : Explains(h2)'
<1>0. m.type = "ae" /\ m.to = s /\ UNCHANGED <<peers, applied, sav, clientvars, elections>>
  BY Zenon DEF recv_appendentries
<1>1. CASE /\ Replied(m, AppendResponse(s, m.from, current_term[s], FALSE, Len(log[s])))
           /\ UNCHANGED <<raft, log, commit_idx>>
  <2>1. UNCHANGED <<raft, peers, logs, sav, clientvars, elections>>
    BY Zenon, <1>0, <1>1 DEF logs
  <2> QED
    BY Zenon, <1>0, <1>1, <2>1, StaleAppendStep
<1>2. CASE /\ m.term >= current_term[s] /\ Obey(s, m)
           /\ Replied(m, AppendResponse(s, m.from, m.term, FALSE, Len(log[s])))
           /\ UNCHANGED <<log, commit_idx>>
  <2>1. UNCHANGED <<peers, logs, sav, clientvars, elections>>
    BY Zenon, <1>0, <1>2 DEF logs
  <2> QED
    BY Zenon, <1>0, <1>2, <2>1, RejectStep
<1>3. CASE /\ m.term >= current_term[s] /\ Obey(s, m)
           /\ m.prev_idx <= Len(log[s]) /\ ~PrevMatches(log[s], m)
           /\ log' = [log EXCEPT ![s] = SubSeq(@, 1, m.prev_idx - 1)]
           /\ Replied(m, AppendResponse(s, m.from, m.term, FALSE, m.prev_idx - 1))
           /\ UNCHANGED commit_idx
  <2>1. UNCHANGED <<peers, commit_idx, applied, sav, clientvars, elections>>
    BY Zenon, <1>0, <1>3
  <2> QED
    BY Zenon, <1>0, <1>3, <2>1, DeleteStep
<1>4. CASE /\ m.term >= current_term[s] /\ Obey(s, m)
           /\ m.prev_idx <= Len(log[s]) /\ PrevMatches(log[s], m)
           /\ log' = [log EXCEPT ![s] = Merged(@, m)]
           /\ commit_idx' = [commit_idx EXCEPT ![s] = FollowerCommit(@, log'[s], m)]
           /\ Replied(m, AppendResponse(s, m.from, m.term, TRUE, m.prev_idx + Len(m.entries)))
  BY Zenon, <1>0, <1>4, MergeStep
<1> QED
  BY Zenon, <1>1, <1>2, <1>3, <1>4 DEF recv_appendentries

-------------------------------------------------------------------------------
(* Log replication: the leader.                                            *)

(* A leader whose beliefs about one peer change, and perhaps its           *)
(* commit_idx.                                                             *)
LEMMA LeaderStep ==
    ASSUME NEW h \in Hist, TypeInv, Explains(h), NEW m \in msgs, NEW s \in Servers,
           state[s] = "leader", NEW d \in Peers(s), NEW next \in Nat \ {0}, NEW match \in Nat,
           next <= Len(log[s]) + 1, match <= h.acc[d][current_term[s]],
           NEW commit \in Nat, ChosenPrefix(h, log[s], commit, current_term[s]),
           commit_idx[s] <= commit,
           next_idx' = [next_idx EXCEPT ![s][d] = next],
           match_idx' = [match_idx EXCEPT ![s][d] = match],
           commit_idx' = [commit_idx EXCEPT ![s] = commit],
           NEW ok, ok \subseteq {AppendEntries(s, d, current_term[s], log[s], next, commit)},
           msgs' = (msgs \ {m}) \cup ok,
           UNCHANGED <<raft, log, applied, sav, clientvars, elections>>
    PROVE  TypeInv' /\ Explains(h)'
<1>1. d \in Servers /\ d # s
  BY Zenon DEF Peers
<1>2. /\ next_idx' \in [Servers -> [Servers -> Nat \ {0}]]
      /\ \A t \in Servers \ {s} : next_idx'[t] = next_idx[t]
      /\ \A p \in Servers : next_idx'[s][p] = IF p = d THEN next ELSE next_idx[s][p]
  BY Zenon, <1>1 DEF TypeInv
<1>3. /\ match_idx' \in [Servers -> [Servers -> Nat]]
      /\ \A t \in Servers \ {s} : match_idx'[t] = match_idx[t]
      /\ \A p \in Servers : match_idx'[s][p] = IF p = d THEN match ELSE match_idx[s][p]
  BY Zenon, <1>1 DEF TypeInv
<1>4. /\ commit_idx' \in [Servers -> Nat] /\ commit_idx'[s] = commit
      /\ \A t \in Servers \ {s} : commit_idx'[t] = commit_idx[t]
  BY Zenon DEF TypeInv
<1>5. ASSUME NEW x \in ok PROVE Message(x)' /\ MsgInv(h, x)'
  <2>1. x = AppendEntries(s, d, current_term[s], log[s], next, commit)
    BY Zenon
  <2>2. /\ current_term[s] \in Nat /\ current_term[s] \in 0 .. elections' /\ log[s] \in Seq(Entry)
        /\ h.llog[current_term[s]] = log[s] /\ h.lead[current_term[s]] = s
    BY Zenon, LeaderFacts
  <2> QED
    BY Zenon, <2>1, <2>2, AppendEntriesInv
<1>6. TypeInv'
  <2>1. \A x \in msgs' : Message(x)'
    BY <1>5, MessageStays DEF TypeInv
  <2> QED
    BY Zenon, <1>2, <1>3, <1>4, <2>1 DEF TypeInv, raft, clientvars
<1>7. \A t \in Servers \ {s} : Same(t)
  BY Zenon, <1>2, <1>3, <1>4 DEF Same, raft
<1>8. Fine(h, h, s)
  <2>1. ElectInv(h) /\ LogInv(h) /\ AckInv(h) /\ CommitInv(h)
    BY Zenon DEF Explains
  <2>2. Elects(h, s)
    BY Zenon, <2>1, Still, ElectsSame DEF raft
  <2>3. Leads(h, s)
    <3>1. \A p \in Peers(s) : /\ next_idx[s][p] <= Len(log[s]) + 1
                              /\ match_idx[s][p] <= h.acc[p][current_term[s]]
      BY Zenon, <2>1 DEF LogInv, AckInv
    <3> QED
      BY ZenonT(30), <1>2, <1>3, <3>1 DEF Leads, Peers
  <2>4. Commits(h, s)
    <3>1. applied'[s] = applied[s] /\ applied[s] \in Nat /\ commit_idx[s] \in Nat
      BY Zenon DEF TypeInv
    <3>2. applied[s] <= commit_idx[s]
      BY Zenon, <2>1 DEF CommitInv
    <3>3. applied'[s] <= commit_idx'[s]
      BY <1>4, <3>1, <3>2
    <3>4. ChosenPrefix(h, log'[s], commit_idx'[s], current_term'[s])
      BY Zenon, <1>4 DEF raft
    <3> QED
      BY Zenon, <3>3, <3>4 DEF Commits
  <2> QED
    BY <2>2, <2>3, <2>4 DEF Fine, Role, raft, TypeInv
<1>9. accepted <= accepted'
  BY DEF clientvars, TypeInv
<1> QED
  BY Zenon, <1>5, <1>6, <1>7, <1>8, <1>9, QuietStep

(* raft_recv_appendentries_response of a leader, after a success: entries  *)
(* of its own term that a majority has stored are chosen.                  *)
LEMMA LeaderCommits ==
    ASSUME NEW h \in Hist, TypeInv, Explains(h), NEW s \in Servers, state[s] = "leader",
           NEW d \in Peers(s), NEW idx \in Nat, idx <= h.acc[d][current_term[s]], idx > 0,
           match_idx' = [match_idx EXCEPT ![s][d] = idx]
    PROVE  /\ idx <= Len(log[s]) /\ LeaderCommit(s, idx) \in Nat
           /\ commit_idx[s] <= LeaderCommit(s, idx)
           /\ ChosenPrefix(h, log[s], LeaderCommit(s, idx), current_term[s])
<1>1. PICK T, lg : T = current_term[s] /\ lg = log[s]
  BY Zenon
<1>2. /\ T \in Nat /\ lg \in Seq(Entry) /\ h.llog[T] = lg /\ commit_idx[s] \in Nat
      /\ ChosenPrefix(h, lg, commit_idx[s], T) /\ d \in Servers
  BY Zenon, <1>1, LeaderFacts DEF Peers
<1>3. idx <= Len(lg)
  <2>1. h.acc[d][T] <= Len(h.llog[T])
    BY Zenon, <1>2 DEF Explains, AckInv
  <2>2. h.acc[d][T] \in Nat /\ Len(lg) \in Nat
    BY <1>2, HistTypes
  <2> QED
    BY <1>1, <1>2, <2>1, <2>2
<1>4. CASE LeaderCommit(s, idx) = commit_idx[s]
  BY <1>1, <1>2, <1>3, <1>4
<1>5. CASE /\ LeaderCommit(s, idx) = idx /\ commit_idx[s] < idx /\ lg[idx].term = T
           /\ Cardinality({p \in Peers(s) : idx <= match_idx'[s][p]}) + 1 > Cardinality(Servers) \div 2
  <2>1. PICK V : V = {p \in Peers(s) : idx <= match_idx'[s][p]}
    BY Zenon
  <2>2. V \subseteq Servers /\ s \notin V /\ Cardinality(V) + 1 > Cardinality(Servers) \div 2
    BY Zenon, <1>5, <2>1 DEF Peers
  <2>3. V \cup {s} \in Quorums
    BY Zenon, <2>2, VotersQuorum
  <2>4. ASSUME NEW p \in V PROVE idx <= h.acc[p][T]
    <3>1. p \in Peers(s) /\ p \in Servers /\ idx <= match_idx'[s][p]
      BY Zenon, <2>1 DEF Peers
    <3>2. match_idx'[s][p] = IF p = d THEN idx ELSE match_idx[s][p]
      BY Zenon, <1>2, <3>1 DEF TypeInv
    <3>3. match_idx[s][p] <= h.acc[p][T]
      BY Zenon, <1>1, <3>1 DEF Explains, AckInv
    <3>4. h.acc[p][T] \in Nat /\ match_idx[s][p] \in Nat
      BY ZenonT(30), <1>2, <3>1, HistTypes DEF TypeInv
    <3> QED
      BY <1>1, <3>1, <3>2, <3>3, <3>4
  <2>5. idx \in 1 .. Len(lg)
    BY <1>2, <1>3
  <2>6. idx <= h.acc[s][T]
    BY Zenon, <1>1, <1>5, <2>5 DEF Explains, AckInv
  <2>7. Own(h, T, idx)
    BY Zenon, <1>2, <1>5, <2>5 DEF Own
  <2>8. \A p \in V \cup {s} : idx <= h.acc[p][T]
    BY Zenon, <2>4, <2>6
  <2>9. Chosen(h, T, idx)
    BY Zenon, <2>3, <2>7, <2>8 DEF Chosen
  <2>10. Agree(lg, h.llog[T], idx)
    BY Zenon, <1>2, <1>3 DEF Agree
  <2>11. T <= T /\ idx <= idx
    BY <1>2
  <2>12. ChosenPrefix(h, lg, idx, T)
    BY Zenon, <1>2, <2>9, <2>10, <2>11 DEF ChosenPrefix
  <2> QED
    BY <1>1, <1>2, <1>3, <1>5, <2>12
<1> QED
  BY Zenon, <1>1, <1>4, <1>5 DEF LeaderCommit

LEMMA AppendResponseStep ==
    ASSUME NEW h \in Hist, TypeInv, Explains(h), NEW m \in msgs, NEW s \in Servers,
           recv_appendentries_response(s, m)
    PROVE  TypeInv' /\ \E h2 \in Hist : Explains(h2)'
<1>0. m.type = "aer" /\ m.to = s /\ UNCHANGED <<log, applied, sav, clientvars, elections>>
  BY Zenon DEF recv_appendentries_response
<1>1. /\ m.from \in Servers /\ m.from \in Peers(s) /\ m.idx \in Nat /\ m.success \in BOOLEAN
      /\ AckMsg(h, m)
  BY Zenon, <1>0, MessageFacts, MessageTypes DEF MsgInv, Message, Peers
<1>2. CASE Received(m) /\ UNCHANGED <<raft, peers, commit_idx>>
  <2>1. UNCHANGED <<raft, peers, logs, sav, clientvars, elections>>
    BY Zenon, <1>0, <1>2 DEF logs
  <2> QED
    BY Zenon, <1>2, <2>1, IgnoreStep
<1>3. CASE /\ state[s] = "leader" /\ current_term[s] < m.term
           /\ StepDown(s, m.term) /\ Received(m) /\ UNCHANGED <<peers, commit_idx>>
  <2>1. UNCHANGED <<peers, logs, sav, clientvars, elections>>
    BY Zenon, <1>0, <1>3 DEF logs
  <2> QED
    BY Zenon, <1>3, <2>1, StepDownStep
<1>4. CASE /\ state[s] = "leader" /\ m.term = current_term[s]
           /\ ~m.success /\ m.idx >= match_idx[s][m.from]
           /\ LET next == Backoff(next_idx[s][m.from], m.idx, log[s])
              IN  /\ next_idx' = [next_idx EXCEPT ![s][m.from] = next]
                  /\ Exchanged(m, {AppendEntries(s, m.from, current_term[s], log[s], next,
                                                 commit_idx[s])})
           /\ UNCHANGED <<raft, match_idx, commit_idx>>
  <2>1. PICK d, next, match, commit :
           /\ d = m.from /\ next = Backoff(next_idx[s][d], m.idx, log[s])
           /\ match = match_idx[s][d] /\ commit = commit_idx[s]
    BY Zenon
  <2>2. /\ d \in Peers(s) /\ d \in Servers /\ next_idx[s][d] \in Nat \ {0}
        /\ next_idx[s][d] <= Len(log[s]) + 1
        /\ log[s] \in Seq(Entry) /\ commit \in Nat /\ ChosenPrefix(h, log[s], commit, current_term[s])
    BY Zenon, <1>1, <1>4, <2>1, LeaderFacts
  <2>3. next \in Nat \ {0} /\ next <= Len(log[s]) + 1
    <3>1. Len(log[s]) \in Nat
      BY <2>2
    <3> QED
      BY <1>1, <2>1, <2>2, <3>1 DEF Backoff, Greater, Lesser
  <2>4. match \in Nat /\ match <= h.acc[d][current_term[s]]
    <3>1. match \in Nat
      BY Zenon, <2>1, <2>2 DEF TypeInv
    <3>2. match_idx[s][d] <= h.acc[d][current_term[s]]
      BY Zenon, <1>4, <2>2 DEF Explains, AckInv
    <3> QED
      BY Zenon, <2>1, <3>1, <3>2
  <2>5. next_idx' = [next_idx EXCEPT ![s][d] = next]
    BY Zenon, <1>4, <2>1
  <2>6. match_idx' = [match_idx EXCEPT ![s][d] = match]
    BY Zenon, <1>4, <2>1, <2>2 DEF TypeInv
  <2>7. commit_idx' = [commit_idx EXCEPT ![s] = commit]
    BY Zenon, <1>4, <2>1, <2>2 DEF TypeInv
  <2>8. PICK ok \in SUBSET {AppendEntries(s, d, current_term[s], log[s], next, commit)} :
           msgs' = (msgs \ {m}) \cup ok
    BY Zenon, <1>4, <2>1 DEF Exchanged
  <2>9. commit_idx[s] <= commit /\ UNCHANGED <<raft, log, applied, sav, clientvars, elections>>
    BY <1>0, <1>4, <2>1, <2>2
  <2> QED
    BY Zenon, <1>4, <2>2, <2>3, <2>4, <2>5, <2>6, <2>7, <2>8, <2>9, LeaderStep
<1>5. CASE /\ state[s] = "leader" /\ m.term = current_term[s]
           /\ m.success /\ m.idx > match_idx[s][m.from]
           /\ next_idx' = [next_idx EXCEPT ![s][m.from] = m.idx + 1]
           /\ match_idx' = [match_idx EXCEPT ![s][m.from] = m.idx]
           /\ commit_idx' = [commit_idx EXCEPT ![s] = LeaderCommit(s, m.idx)]
           /\ Exchanged(m, IF HasEntry(log[s], m.idx + 1)
                           THEN {AppendEntries(s, m.from, current_term[s], log[s], m.idx + 1,
                                               commit_idx'[s])}
                           ELSE {})
           /\ UNCHANGED raft
  <2>1. PICK d, next, match, commit :
           /\ d = m.from /\ next = m.idx + 1 /\ match = m.idx /\ commit = LeaderCommit(s, match)
    BY Zenon
  <2>2. /\ d \in Peers(s) /\ d \in Servers /\ match \in Nat /\ log[s] \in Seq(Entry)
        /\ match <= h.acc[d][current_term[s]] /\ match > 0
    <3>1. match <= h.acc[d][current_term[s]]
      BY Zenon, <1>0, <1>1, <1>5, <2>1 DEF AckMsg
    <3>2. match_idx[s][d] \in Nat /\ match > match_idx[s][d]
      BY Zenon, <1>1, <1>5, <2>1 DEF TypeInv
    <3>3. d \in Peers(s) /\ d \in Servers /\ match \in Nat
      BY Zenon, <1>1, <2>1
    <3>4. match > 0
      BY <3>2, <3>3
    <3> QED
      BY Zenon, <1>5, <3>1, <3>3, <3>4, LeaderFacts
  <2>3. match_idx' = [match_idx EXCEPT ![s][d] = match]
    BY Zenon, <1>5, <2>1
  <2>4. /\ match <= Len(log[s]) /\ commit \in Nat /\ commit_idx[s] <= commit
        /\ ChosenPrefix(h, log[s], commit, current_term[s])
    BY Zenon, <1>5, <2>1, <2>2, <2>3, LeaderCommits
  <2>5. next \in Nat \ {0} /\ next <= Len(log[s]) + 1
    BY <2>1, <2>2, <2>4
  <2>6. next_idx' = [next_idx EXCEPT ![s][d] = next]
    BY Zenon, <1>5, <2>1
  <2>7. commit_idx' = [commit_idx EXCEPT ![s] = commit]
    BY Zenon, <1>5, <2>1
  <2>8. commit_idx'[s] = commit
    BY Zenon, <2>7 DEF TypeInv
  <2>9. PICK ok \in SUBSET {AppendEntries(s, d, current_term[s], log[s], next, commit)} :
           msgs' = (msgs \ {m}) \cup ok
    BY Zenon, <1>5, <2>1, <2>8 DEF Exchanged
  <2>10. UNCHANGED <<raft, log, applied, sav, clientvars, elections>>
    BY Zenon, <1>0, <1>5
  <2> QED
    BY Zenon, <1>5, <2>2, <2>3, <2>4, <2>5, <2>6, <2>7, <2>9, <2>10, LeaderStep
<1> QED
  BY Zenon, <1>2, <1>3, <1>4, <1>5 DEF recv_appendentries_response

-------------------------------------------------------------------------------
(* What the invariant says of the logs.                                    *)

LEMMA AgreeSubSeq ==
    ASSUME NEW a \in Seq(Entry), NEW b \in Seq(Entry), NEW n \in Nat, Agree(a, b, n)
    PROVE  n <= Len(a) /\ n <= Len(b) /\ SubSeq(a, 1, n) = SubSeq(b, 1, n)
<1>1. n <= Len(a) /\ n <= Len(b) /\ \A j \in 1 .. n : a[j] = b[j]
  BY Zenon DEF Agree
<1>2. PICK x, y : x = SubSeq(a, 1, n) /\ y = SubSeq(b, 1, n)
  BY Zenon
<1>3. x = [j \in 1 .. n |-> a[j]] /\ y = [j \in 1 .. n |-> b[j]]
  BY <1>1, <1>2
<1>4. x = y
  BY Zenon, <1>1, <1>3
<1> QED
  BY Zenon, <1>1, <1>2, <1>4

(* What is committed by term T, every leader elected from then on has.     *)
LEMMA CommittedKept ==
    ASSUME NEW h \in Hist, Explains(h), NEW a \in Seq(Entry), NEW c \in Nat,
           NEW T \in Nat, NEW W \in Nat, T <= W, Elected(h, W), ChosenPrefix(h, a, c, T)
    PROVE  Agree(a, h.llog[W], c)
<1>0. h.llog[W] \in Seq(Entry)
  BY Zenon, HistTypes
<1>1. CASE c = 0
  BY Zenon, <1>0, <1>1, AgreeZero
<1>2. CASE c # 0
  <2>1. PICK U, i \in Nat : U <= T /\ c <= i /\ Chosen(h, U, i) /\ Agree(a, h.llog[U], c)
    BY Zenon, <1>2 DEF ChosenPrefix
  <2>2. h.llog[U] \in Seq(Entry)
    BY Zenon, <2>1, HistTypes
  <2>3. CASE U = W
    BY Zenon, <2>1, <2>3
  <2>4. CASE U # W
    <3>1. U < W
      BY <2>1, <2>4
    <3>2. Own(h, U, i) /\ ~ Blocked(h, U, i)
      BY Zenon, <2>1, ChosenNotBlocked DEF Chosen
    <3>3. Kept(h, U, i)
      BY Zenon, <2>1, <3>2 DEF Explains, KeepInv
    <3>4. Agree(h.llog[W], h.llog[U], i)
      BY Zenon, <3>1, <3>3 DEF Kept
    <3>5. Agree(h.llog[W], h.llog[U], c)
      BY Zenon, <1>0, <2>1, <2>2, <3>4, AgreeLess
    <3> QED
      BY <2>1, <3>5, AgreeSym, AgreeTrans
  <2> QED
    BY Zenon, <2>3, <2>4
<1> QED
  BY Zenon, <1>1, <1>2

LEMMA ServerTypes ==
    ASSUME TypeInv, NEW s \in Servers
    PROVE  /\ log[s] \in Seq(Entry) /\ commit_idx[s] \in Nat /\ applied[s] \in Nat
           /\ current_term[s] \in Nat
           /\ \A p \in Servers : match_idx[s][p] \in Nat
BY Zenon DEF TypeInv

LEMMA SafeElections == IInv => ElectionSafety
<1> SUFFICES ASSUME IInv, NEW s \in Servers, NEW t \in Servers, state[s] = "leader",
                    state[t] = "leader", current_term[s] = current_term[t]
             PROVE  s = t
  BY Zenon DEF ElectionSafety
<1>1. PICK h \in Hist : Explains(h)
  BY Zenon DEF IInv
<1>2. h.lead[current_term[s]] = s /\ h.lead[current_term[t]] = t
  BY Zenon, <1>1 DEF Explains, ElectInv
<1> QED
  BY Zenon, <1>2

LEMMA SafeCommits == IInv => LeaderCompleteness
<1> SUFFICES ASSUME IInv, NEW s \in Servers, NEW t \in Servers, state[s] = "leader",
                    current_term[t] <= current_term[s]
             PROVE  /\ commit_idx[t] <= Len(log[s])
                    /\ SubSeq(log[t], 1, commit_idx[t]) = SubSeq(log[s], 1, commit_idx[t])
  BY Zenon DEF LeaderCompleteness
<1>1. PICK h \in Hist : Explains(h)
  BY Zenon DEF IInv
<1>2. TypeInv
  BY Zenon DEF IInv
<1>3. h.llog[current_term[s]] = log[s] /\ Elected(h, current_term[s])
  BY <1>1, <1>2, LeaderFacts, ServerAssumption DEF Elected
<1>4. ChosenPrefix(h, log[t], commit_idx[t], current_term[t])
  BY Zenon, <1>1 DEF Explains, CommitInv
<1>5. Agree(log[t], h.llog[current_term[s]], commit_idx[t])
  BY Zenon, <1>1, <1>2, <1>3, <1>4, ServerTypes, CommittedKept
<1>6. Agree(log[t], log[s], commit_idx[t])
  BY Zenon, <1>3, <1>5
<1> QED
  BY Zenon, <1>2, <1>6, ServerTypes, AgreeSubSeq

LEMMA TrueMatches == IInv => MatchIsReplicated
<1> SUFFICES ASSUME IInv, NEW s \in Servers, NEW p \in Peers(s), state[s] = "leader",
                    current_term[p] = current_term[s]
             PROVE  /\ match_idx[s][p] <= Len(log[p])
                    /\ SubSeq(log[p], 1, match_idx[s][p]) = SubSeq(log[s], 1, match_idx[s][p])
  BY Zenon DEF MatchIsReplicated
<1>0. p \in Servers
  BY Zenon DEF Peers
<1>1. PICK h \in Hist : Explains(h)
  BY Zenon DEF IInv
<1>2. TypeInv
  BY Zenon DEF IInv
<1>3. PICK T, n, k : T = current_term[s] /\ n = h.acc[p][T] /\ k = match_idx[s][p]
  BY Zenon
<1>4. /\ T \in Nat /\ n \in Nat /\ k \in Nat /\ log[p] \in Seq(Entry) /\ log[s] \in Seq(Entry)
  BY Zenon, <1>0, <1>2, <1>3, ServerTypes, HistTypes
<1>5. h.llog[T] = log[s]
  BY <1>1, <1>2, <1>3, LeaderFacts
<1>6. Agree(log[p], h.llog[T], n)
  BY Zenon, <1>0, <1>1, <1>3 DEF Explains, AckInv
<1>7. k <= n
  BY Zenon, <1>1, <1>3 DEF Explains, AckInv
<1>8. Agree(log[p], log[s], k)
  BY Zenon, <1>4, <1>5, <1>6, <1>7, AgreeLess
<1> QED
  BY Zenon, <1>3, <1>4, <1>8, AgreeSubSeq

LEMMA NoConflict ==
    ASSUME IInv, NEW m \in msgs, m.type = "ae", m.term >= current_term[m.to]
    PROVE  ~ ConflictsWithCommitted(m.to, m)
<1>1. PICK h \in Hist : Explains(h)
  BY Zenon DEF IInv
<1>2. TypeInv
  BY Zenon DEF IInv
<1>3. PICK s, T, c, lg, L : /\ s = m.to /\ T = m.term /\ c = commit_idx[s] /\ lg = log[s]
                            /\ L = h.llog[T]
  BY Zenon
<1>4. Message(m) /\ MsgInv(h, m)
  BY Zenon, <1>1, <1>2, MessageFacts
<1>5. /\ s \in Servers /\ T \in Nat /\ m.from \in Servers /\ m.prev_idx \in Nat
      /\ m.entries \in Seq(Entry)
  BY Zenon, <1>3, <1>4, MessageTypes DEF Message
<1>6. /\ Elected(h, T) /\ m.prev_term = TermAt(L, m.prev_idx)
      /\ \A i \in 1 .. Len(m.entries) : m.entries[i] = L[m.prev_idx + i]
  BY Zenon, <1>3, <1>4, <1>5, ServerAssumption DEF MsgInv, AppendMsg, Elected
<1>7. lg \in Seq(Entry) /\ L \in Seq(Entry) /\ c \in Nat /\ current_term[s] \in Nat
  BY Zenon, <1>2, <1>3, <1>5, ServerTypes, HistTypes
<1>8. Agree(lg, L, c)
  <2>1. ChosenPrefix(h, lg, c, current_term[s]) /\ current_term[s] <= T
    BY Zenon, <1>1, <1>3, <1>5, <1>7 DEF Explains, CommitInv
  <2> QED
    BY Zenon, <1>1, <1>3, <1>5, <1>6, <1>7, <2>1, CommittedKept
<1>9. c <= Len(lg) /\ c <= Len(L) /\ \A j \in 1 .. c : lg[j] = L[j]
  BY Zenon, <1>8 DEF Agree
<1>10. ASSUME m.prev_idx <= c PROVE PrevMatches(lg, m)
  <2>1. CASE m.prev_idx = 0
    BY <1>6, <2>1 DEF PrevMatches, TermAt, HasEntry
  <2>2. CASE m.prev_idx # 0
    <3>1. m.prev_idx \in 1 .. c /\ m.prev_idx \in 1 .. Len(lg) /\ m.prev_idx \in 1 .. Len(L)
      BY <1>5, <1>7, <1>9, <1>10, <2>2
    <3> QED
      BY Zenon, <1>6, <1>9, <3>1 DEF PrevMatches, TermAt, HasEntry
  <2> QED
    BY Zenon, <2>1, <2>2
<1>11. ASSUME NEW i \in Conflicts(lg, m), m.prev_idx + i <= c PROVE FALSE
  <2>1. i \in 1 .. Len(m.entries) /\ lg[m.prev_idx + i].term # m.entries[i].term
    BY Zenon DEF Conflicts
  <2>2. m.prev_idx + i \in 1 .. c
    BY <1>5, <1>7, <1>11, <2>1
  <2> QED
    BY Zenon, <1>6, <1>9, <2>1, <2>2
<1> QED
  BY Zenon, <1>3, <1>10, <1>11 DEF ConflictsWithCommitted

LEMMA NeverShutDown == IInv => NoShutdown
<1> SUFFICES ASSUME IInv PROVE NoShutdown
  BY Zenon
<1>1. \A m \in msgs :
         m.type = "ae" /\ m.term >= current_term[m.to] => ~ConflictsWithCommitted(m.to, m)
  BY Zenon, NoConflict
<1>2. PICK h \in Hist : Explains(h)
  BY Zenon DEF IInv
<1>3. \A s \in Servers : current_leader[s] = s <=> state[s] = "leader"
  BY Zenon, <1>2 DEF Explains, ElectInv
<1> QED
  BY Zenon, <1>1, <1>3 DEF NoShutdown

(* What two servers have committed is the same as far as both have.        *)
CommitsAgree ==
    /\ \A s \in Servers : applied[s] <= commit_idx[s] /\ commit_idx[s] <= Len(log[s])
    /\ \A s, t \in Servers : commit_idx[s] <= commit_idx[t] => Agree(log[s], log[t], commit_idx[s])
    /\ \A s \in Servers : \A i, j \in 1 .. Len(log[s]) : log[s][i].req = log[s][j].req => i = j

(* Two prefixes that were chosen are prefixes of one another.              *)
LEMMA ChosenAgree ==
    ASSUME NEW h \in Hist, Explains(h), NEW a \in Seq(Entry), NEW b \in Seq(Entry),
           NEW c \in Nat, NEW d \in Nat, c <= d, NEW T \in Nat, NEW W \in Nat,
           ChosenPrefix(h, a, c, T), ChosenPrefix(h, b, d, W)
    PROVE  Agree(a, b, c)
<1>1. CASE c = 0
  BY Zenon, <1>1, AgreeZero
<1>2. CASE c # 0
  <2>1. PICK U, i \in Nat : U <= T /\ c <= i /\ Chosen(h, U, i) /\ Agree(a, h.llog[U], c)
    BY Zenon, <1>2 DEF ChosenPrefix
  <2>2. d # 0
    BY <1>2
  <2>3. PICK V, j \in Nat : V <= W /\ d <= j /\ Chosen(h, V, j) /\ Agree(b, h.llog[V], d)
    BY Zenon, <2>2 DEF ChosenPrefix
  <2>4. h.llog[U] \in Seq(Entry) /\ h.llog[V] \in Seq(Entry)
    BY Zenon, HistTypes
  <2>5. \A X, k \in Nat : Own(h, X, k) => Elected(h, X)
    <3> SUFFICES ASSUME NEW X \in Nat, NEW k \in Nat, Own(h, X, k), ~ Elected(h, X) PROVE FALSE
      BY Zenon
    <3>1. h.llog[X] = <<>>
      BY Zenon DEF Explains, LogInv
    <3> QED
      BY <3>1 DEF Own
  <2>6. Elected(h, U) /\ Elected(h, V)
    BY Zenon, <2>1, <2>3, <2>5 DEF Chosen
  <2>7. CASE U <= V
    <3>1. ChosenPrefix(h, a, c, U)
      BY <2>1 DEF ChosenPrefix
    <3>2. Agree(a, h.llog[V], c)
      BY Zenon, <2>6, <2>7, <3>1, CommittedKept
    <3>3. Agree(b, h.llog[V], c)
      BY Zenon, <2>3, <2>4, AgreeLess
    <3> QED
      BY Zenon, <2>4, <3>2, <3>3, AgreeSym, AgreeTrans
  <2>8. CASE V <= U
    <3>1. ChosenPrefix(h, b, d, V)
      BY <2>3 DEF ChosenPrefix
    <3>2. Agree(b, h.llog[U], d)
      BY Zenon, <2>6, <2>8, <3>1, CommittedKept
    <3>3. Agree(b, h.llog[U], c)
      BY Zenon, <2>4, <3>2, AgreeLess
    <3> QED
      BY Zenon, <2>1, <2>4, <3>3, AgreeSym, AgreeTrans
  <2> QED
    BY <2>7, <2>8
<1> QED
  BY Zenon, <1>1, <1>2

LEMMA SafePrefixes == IInv => CommitsAgree
<1> SUFFICES ASSUME IInv PROVE CommitsAgree
  BY Zenon
<1>1. PICK h \in Hist : Explains(h)
  BY Zenon DEF IInv
<1>2. TypeInv
  BY Zenon DEF IInv
<1>3. \A s \in Servers : ChosenPrefix(h, log[s], commit_idx[s], current_term[s])
  BY Zenon, <1>1 DEF Explains, CommitInv
<1>4. ASSUME NEW s \in Servers, NEW t \in Servers, commit_idx[s] <= commit_idx[t]
      PROVE  Agree(log[s], log[t], commit_idx[s])
  BY <1>1, <1>2, <1>3, <1>4, ServerTypes, ChosenAgree
<1>5. ASSUME NEW s \in Servers PROVE applied[s] <= commit_idx[s] /\ commit_idx[s] <= Len(log[s])
  <2>1. commit_idx[s] <= commit_idx[s]
    BY <1>2, ServerTypes
  <2>2. Agree(log[s], log[s], commit_idx[s])
    BY Zenon, <1>4, <2>1
  <2>3. commit_idx[s] <= Len(log[s])
    BY Zenon, <2>2 DEF Agree
  <2> QED
    BY Zenon, <1>1, <2>3 DEF Explains, CommitInv
<1>6. ASSUME NEW s \in Servers
      PROVE  \A i, j \in 1 .. Len(log[s]) : log[s][i].req = log[s][j].req => i = j
  <2>1. RequestInv(h) /\ Follows(h, log[s]) /\ accepted \in Nat
    BY SMTT(30), <1>1, <1>2 DEF Explains, LogInv, TypeInv
  <2> QED
    BY SMTT(30), <1>2, <2>1, ServerTypes, LogRequests
<1> QED
  BY Zenon, <1>4, <1>5, <1>6 DEF CommitsAgree

(* The leader that has sent an AppendEntries has what the receiver has     *)
(* committed.                                                              *)
LEMMA SenderHasCommitted ==
    ASSUME NEW h \in Hist, TypeInv, Explains(h), NEW m \in msgs, m.type = "ae", NEW s \in Servers,
           m.to = s, m.term >= current_term[s]
    PROVE  Agree(log[s], h.llog[m.term], commit_idx[s])
<1>1. Message(m) /\ MsgInv(h, m)
  BY Zenon, MessageFacts
<1>2. m.term \in Nat /\ m.from \in Servers
  BY Zenon, <1>1, MessageTypes DEF Message
<1>3. Elected(h, m.term)
  BY Zenon, <1>1, <1>2, ServerAssumption DEF MsgInv, AppendMsg, Elected
<1>4. ChosenPrefix(h, log[s], commit_idx[s], current_term[s])
  BY Zenon DEF Explains, CommitInv
<1>5. /\ log[s] \in Seq(Entry) /\ commit_idx[s] \in Nat /\ current_term[s] \in Nat
      /\ current_term[s] <= m.term
  BY Zenon, <1>2, ServerTypes
<1> QED
  BY <1>2, <1>3, <1>4, <1>5, CommittedKept

LEMMA MergeKeeps ==
    ASSUME IInv, NEW m \in msgs, NEW s \in Servers,
           m.type = "ae", m.to = s, m.term >= current_term[s],
           m.prev_idx <= Len(log[s]), PrevMatches(log[s], m)
    PROVE  Agree(log[s], Merged(log[s], m), commit_idx[s])
<1>0. PICK h \in Hist : Explains(h)
  BY Zenon DEF IInv
<1>00. TypeInv
  BY Zenon DEF IInv
<1>1. PICK L, lg, n, c : /\ L = h.llog[m.term] /\ lg = log[s] /\ n = m.prev_idx + Len(m.entries)
                         /\ c = commit_idx[s]
  BY Zenon
<1>2. Message(m) /\ AppendMsg(h, m)
  BY Zenon, <1>0, <1>00, MessageFacts DEF MsgInv
<1>3. m.prev_idx \in Nat /\ m.entries \in Seq(Entry) /\ m.term \in Nat /\ m.from \in Servers
  BY Zenon, <1>2, MessageTypes DEF Message
<1>4. L \in Seq(Entry) /\ lg \in Seq(Entry) /\ n \in Nat /\ c \in Nat
  BY SMTT(30), <1>00, <1>1, <1>3, HistTypes, ServerTypes
<1>5. /\ m.prev_idx + Len(m.entries) <= Len(L) /\ m.prev_term = TermAt(L, m.prev_idx)
      /\ \A i \in 1 .. Len(m.entries) : m.entries[i] = L[m.prev_idx + i]
  BY <1>1, <1>2 DEF AppendMsg
<1>6. Follows(h, lg)
  BY SMTT(30), <1>0, <1>1 DEF Explains, LogInv
<1>7. Follows(h, L)
  <2>1. Elected(h, m.term)
    BY <1>2, <1>3, ServerAssumption DEF AppendMsg, Elected
  <2> QED
    BY SMTT(30), <1>0, <1>1, <1>3, <2>1 DEF Explains, LogInv, LeaderLog
<1>8. Agree(lg, L, c)
  BY <1>0, <1>00, <1>1, SenderHasCommitted
<1>9. PICK b : b = Merged(lg, m)
  BY Zenon
<1>10. m.prev_idx <= Len(lg) /\ PrevMatches(lg, m)
  BY Zenon, <1>1
<1>11. /\ b \in Seq(Entry) /\ Agree(b, L, n)
       /\ \/ b = lg
          \/ \A k \in Nat : Agree(lg, L, k) => k <= n
  BY Zenon, <1>1, <1>3, <1>4, <1>5, <1>6, <1>7, <1>9, <1>10, MergedLog
<1>12. Agree(lg, b, c)
  <2>1. CASE b = lg
    BY <1>4, <1>8, <2>1 DEF Agree
  <2>2. CASE \A k \in Nat : Agree(lg, L, k) => k <= n
    <3>1. c <= n
      BY <1>4, <1>8, <2>2
    <3>2. Agree(b, L, c)
      BY <1>4, <1>11, <3>1, AgreeLess
    <3> QED
      BY SMTT(30), <1>4, <1>8, <1>11, <3>2, AgreeSym, AgreeTrans
  <2> QED
    BY <1>11, <2>1, <2>2
<1> QED
  BY Zenon, <1>1, <1>9, <1>12
===============================================================================
