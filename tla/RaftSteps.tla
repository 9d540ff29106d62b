------------------------------- MODULE RaftSteps -------------------------------
(***************************************************************************)
(* A candidate becomes a leader: this keeps RaftHistory's invariant, with  *)
(* a history that has one leader more.  Then what each part of the         *)
(* invariant needs when a leader takes a client's request, with a history  *)
(* that has one entry more in that leader's log.                           *)
(***************************************************************************)
EXTENDS RaftLemmas

(* A majority of votes: nobody else can have been elected.                 *)
LEMMA FirstLeader ==
    ASSUME NEW h \in Hist, TypeInv, Explains(h), NEW s \in Servers, state[s] = "candidate",
           NEW Q \in Quorums, \A p \in Q : h.vote[p][current_term[s]] = s
    PROVE  /\ ~ Elected(h, current_term[s]) /\ h.llog[current_term[s]] = <<>>
           /\ \A p \in Servers : h.acc[p][current_term[s]] = 0
<1>0. PICK T : T = current_term[s]
  BY Zenon
<1>1. T \in Nat
  BY Zenon, <1>0 DEF TypeInv
<1>2. ~ Elected(h, T)
  <2> SUFFICES ASSUME Elected(h, T) PROVE FALSE
    BY Zenon
  <2>1. PICK R \in Quorums : \A p \in R : h.vote[p][T] = h.lead[T]
    BY Zenon, <1>1 DEF Explains, ElectInv
  <2>2. PICK p \in Servers : p \in Q /\ p \in R
    BY Zenon, QuorumsMeet
  <2>3. h.lead[T] = s
    BY Zenon, <1>0, <2>1, <2>2
  <2> QED
    BY Zenon, <1>0, <2>3 DEF Explains, ElectInv
<1>3. h.llog[T] = <<>>
  BY Zenon, <1>1, <1>2 DEF Explains, LogInv
<1>4. ASSUME NEW p \in Servers PROVE h.acc[p][T] = 0
  <2>1. h.acc[p][T] \in Nat
    BY Zenon, <1>1, HistTypes
  <2>2. ~ (h.acc[p][T] > 0)
    BY Zenon, <1>1, <1>2 DEF Explains, AckInv
  <2> QED
    BY <2>1, <2>2
<1> QED
  BY Zenon, <1>0, <1>2, <1>3, <1>4

(* The requests in a log that follows the leaders'.                        *)
LEMMA LogRequests ==
    ASSUME NEW h \in Hist, RequestInv(h), NEW lg \in Seq(Entry), Follows(h, lg), accepted \in Nat
    PROVE  /\ Len(lg) <= accepted
           /\ \A i \in 1 .. Len(lg) : lg[i].req \in 1 .. accepted
           /\ \A i, j \in 1 .. Len(lg) : lg[i].req = lg[j].req => i = j
<1>1. CASE Len(lg) = 0
  BY <1>1
<1>2. CASE Len(lg) # 0
  <2>1. PICK n : n = Len(lg)
    BY Zenon
  <2>2. n \in 1 .. Len(lg) /\ lg[n] \in Entry
    BY <1>2, <2>1
  <2>3. PICK V : V = lg[n].term
    BY Zenon
  <2>4. V \in Nat
    BY Zenon, <2>2, <2>3 DEF Entry
  <2>5. Agree(lg, h.llog[V], n) /\ h.llog[V] \in Seq(Entry)
    BY Zenon, <2>2, <2>3, <2>4, HistTypes DEF Follows
  <2>6. n <= Len(h.llog[V]) /\ \A i \in 1 .. n : i \in 1 .. Len(h.llog[V]) /\ lg[i] = h.llog[V][i]
    BY <2>2, <2>5 DEF Agree
  <2>7. /\ Len(h.llog[V]) <= accepted
        /\ \A i \in 1 .. Len(h.llog[V]) : h.llog[V][i].req \in 1 .. accepted
        /\ \A i, j \in 1 .. Len(h.llog[V]) : h.llog[V][i].req = h.llog[V][j].req => i = j
    BY Zenon, <2>4 DEF RequestInv
  <2>8. n <= accepted
    BY <2>2, <2>5, <2>6, <2>7
  <2> QED
    BY Zenon, <2>1, <2>6, <2>7, <2>8
<1> QED
  BY Zenon, <1>1, <1>2

LEMMA VotersQuorum ==
    ASSUME NEW V, V \subseteq Servers, NEW s \in Servers, s \notin V,
           Cardinality(V) + 1 > Cardinality(Servers) \div 2
    PROVE  V \cup {s} \in Quorums
<1>1. IsFiniteSet(Servers) /\ IsFiniteSet(V)
  BY Zenon, ServerAssumption, FS_Subset
<1>2. Cardinality(Servers) \in Nat /\ Cardinality(V) \in Nat
  BY Zenon, <1>1, FS_CardinalityType
<1>3. Cardinality(V \cup {s}) = Cardinality(V) + 1
  BY Zenon, <1>1, FS_AddElement
<1>4. 2 * (Cardinality(V) + 1) > Cardinality(Servers)
  BY <1>2
<1> QED
  BY Zenon, <1>3, <1>4 DEF Quorums

(* raft_become_leader: the new leader's log begins.                        *)
LEMMA BecomeLeaderStep ==
    ASSUME NEW h \in Hist, TypeInv, Explains(h), NEW m \in msgs, NEW s \in Servers,
           m.type = "rvr", m.to = s, m.granted, m.term = current_term[s],
           state[s] = "candidate", votes' = [votes EXCEPT ![s] = @ \cup {m.from}],
           IsMajority(VotesForMe(s, votes'[s])), BecomeLeader(s, m),
           UNCHANGED <<logs, sav, clientvars, elections>>
    PROVE  TypeInv' /\ \E h2 \in Hist : Explains(h2)'
<1>0. PICK T, V, lg : T = current_term[s] /\ V = votes[s] \cup {m.from} /\ lg = log[s]
  BY Zenon
<1>1. /\ T \in Nat /\ T \in 0 .. elections /\ lg \in Seq(Entry) /\ V \subseteq Servers
      /\ current_term[s] = T /\ log[s] = lg /\ votes'[s] = V
      /\ m.from \in Servers /\ m.from # s /\ h.vote[m.from][T] = s
      /\ commit_idx[s] \in Nat /\ current_term \in [Servers -> Nat]
      /\ log \in [Servers -> Seq(Entry)] /\ accepted \in Nat
  <2>1. m.from \in Servers /\ m.from # s /\ h.vote[m.from][T] = s
    BY Zenon, <1>0, MessageFacts, MessageTypes DEF MsgInv, VoteMsg
  <2>2. T \in Nat /\ T \in 0 .. elections /\ lg \in Seq(Entry) /\ V \subseteq Servers
    BY <1>0, <2>1 DEF TypeInv
  <2>3. votes'[s] = V
    BY Zenon, <1>0 DEF TypeInv
  <2> QED
    BY Zenon, <1>0, <2>1, <2>2, <2>3 DEF TypeInv
<1>2. ElectInv(h) /\ LogInv(h) /\ AckInv(h) /\ KeepInv(h) /\ CommitInv(h) /\ RequestInv(h)
  BY Zenon DEF Explains
<1>3. voted_for[s] = s /\ s \notin V /\ h.vote[s][T] = s /\ \A p \in V : h.vote[p][T] = s
  BY <1>0, <1>1, <1>2 DEF ElectInv
<1>4. PICK Q \in Quorums : s \in Q /\ \A p \in Q : h.vote[p][T] = s
  <2>1. Cardinality(V) + 1 > Cardinality(Servers) \div 2
    <3>1. IsMajority(Cardinality(V) + 1)
      BY Zenon, <1>1, <1>3 DEF VotesForMe
    <3>2. IsFiniteSet(Servers) /\ IsFiniteSet(V)
      BY Zenon, <1>1, ServerAssumption, FS_Subset
    <3>3. Cardinality(Servers) \in Nat /\ Cardinality(V) \in Nat
      BY Zenon, <3>2, FS_CardinalityType
    <3> QED
      BY <3>1, <3>3 DEF IsMajority
  <2>2. V \cup {s} \in Quorums
    BY Zenon, <1>1, <1>3, <2>1, VotersQuorum
  <2> QED
    BY Zenon, <1>3, <2>2
<1>5. /\ ~ Elected(h, T) /\ h.llog[T] = <<>> /\ \A p \in Servers : h.acc[p][T] = 0
  <2>1. \A p \in Q : h.vote[p][current_term[s]] = s
    BY Zenon, <1>1, <1>4
  <2>2. /\ ~ Elected(h, current_term[s]) /\ h.llog[current_term[s]] = <<>>
        /\ \A p \in Servers : h.acc[p][current_term[s]] = 0
    BY Zenon, <2>1, FirstLeader
  <2> QED
    BY Zenon, <1>1, <2>2
<1>6. PICK h2 \in Hist :
         /\ h2.acc = h.acc /\ h2.vote = h.vote
         /\ h2.lead[T] = s /\ h2.llog[T] = lg
         /\ \A U \in Nat \ {T} : h2.lead[U] = h.lead[U] /\ h2.llog[U] = h.llog[U]
  <2>1. T \in Nat /\ lg \in Seq(Entry)
    BY Zenon, <1>1
  <2>2. \E g \in Hist : Leading(h, g, s, T, lg)
    BY Zenon, <2>1, HistLead
  <2> QED
    BY Zenon, <2>2 DEF Leading
<1>7. /\ h2.lead[T] = s /\ h2.llog[T] = lg /\ Elected(h2, T)
      /\ \A U \in Nat \ {T} : h2.lead[U] = h.lead[U] /\ h2.llog[U] = h.llog[U]
  BY <1>1, <1>6, ServerAssumption DEF Elected
<1>8. /\ state' = [state EXCEPT ![s] = "leader"]
      /\ current_leader' = [current_leader EXCEPT ![s] = s]
      /\ next_idx' = [next_idx EXCEPT ![s] =
            [p \in Servers |-> IF p = s THEN next_idx[s][p] ELSE Len(lg) + 1]]
      /\ match_idx' = [match_idx EXCEPT ![s] =
            [p \in Servers |-> IF p = s THEN match_idx[s][p] ELSE 0]]
      /\ UNCHANGED <<current_term, voted_for, logs, sav, clientvars, elections>>
  BY Zenon, <1>0 DEF BecomeLeader
<1>9. PICK ok \in SUBSET {AppendEntries(s, d, current_term[s], log[s], Len(log[s]) + 1, commit_idx[s]) :
                           d \in Peers(s)} : msgs' = (msgs \ {m}) \cup ok
  BY Zenon DEF BecomeLeader, Exchanged
<1>10. Forward(h, h2)
  <2>1. ASSUME NEW U \in Nat
        PROVE  /\ Elected(h, U) => h2.lead[U] = h.lead[U]
               /\ Agree(h2.llog[U], h.llog[U], Len(h.llog[U]))
    <3>1. h.llog[U] \in Seq(Entry)
      BY Zenon, HistTypes
    <3>2. CASE U = T
      <4>1. Agree(lg, <<>>, 0)
        BY <1>1 DEF Agree
      <4> QED
        BY Zenon, <1>5, <1>7, <3>2, <4>1
    <3>3. CASE U # T
      BY <1>7, <3>1, <3>3, AgreeSelf
    <3> QED
      BY Zenon, <3>2, <3>3
  <2>2. \A t \in Servers : current_term[t] <= current_term'[t]
    BY <1>1, <1>8
  <2>3. \A p \in Servers, U \in Nat : h.acc[p][U] <= h2.acc[p][U]
    BY <1>6, HistTypes
  <2> QED
    BY Zenon, <1>6, <2>1, <2>2, <2>3 DEF Forward
<1>11. ASSUME NEW x \in ok PROVE Message(x)' /\ MsgInv(h2, x)'
  <2>1. PICK d \in Peers(s) : x = AppendEntries(s, d, T, lg, Len(lg) + 1, commit_idx[s])
    BY Zenon, <1>1, <1>9
  <2>2. ChosenPrefix(h2, lg, commit_idx[s], T)
    <3>1. ChosenPrefix(h, lg, commit_idx[s], T) /\ T <= T
      BY <1>1, <1>2 DEF CommitInv
    <3> QED
      BY Zenon, <1>1, <1>10, <3>1, ChosenPrefixStays
  <2>3. PICK next : next = Len(lg) + 1
    BY Zenon
  <2>4. next \in Nat \ {0} /\ next <= Len(lg) + 1 /\ T \in 0 .. elections'
    BY SMTT(30), <1>1, <1>8, <2>3
  <2> QED
    BY Zenon, <1>1, <1>7, <2>1, <2>2, <2>3, <2>4, AppendEntriesInv
<1>12. TypeInv'
  <2>1. \A x \in msgs' : Message(x)'
    BY <1>8, <1>9, <1>11, MessageStays DEF TypeInv
  <2>2. /\ votes' \in [Servers -> SUBSET Servers]
        /\ current_leader' \in [Servers -> Servers \cup {None}]
        /\ state' \in [Servers -> {"follower", "candidate", "leader"}]
    BY Zenon, <1>1, <1>8 DEF TypeInv
  <2>3. Len(lg) + 1 \in Nat \ {0}
    BY <1>1
  <2>4. next_idx' \in [Servers -> [Servers -> Nat \ {0}]]
    <3>1. next_idx \in [Servers -> [Servers -> Nat \ {0}]]
      BY Zenon DEF TypeInv
    <3> QED
      BY Zenon, <1>8, <2>3, <3>1
  <2>5. match_idx' \in [Servers -> [Servers -> Nat]]
    <3>1. match_idx \in [Servers -> [Servers -> Nat]]
      BY Zenon DEF TypeInv
    <3> QED
      BY Zenon, <1>8, <3>1
  <2> QED
    BY SMTT(30), <1>8, <2>1, <2>2, <2>4, <2>5 DEF TypeInv, logs, clientvars
<1>13. Candidates
  BY Zenon, <1>8 DEF Candidates, logs, TypeInv
<1>14. \A x \in msgs' : MsgInv(h2, x)'
  <2>1. \A x \in msgs : MsgInv(h, x)
    BY Zenon, MessageFacts
  <2> QED
    BY Zenon, <1>9, <1>10, <1>11, <1>12, <1>13, <2>1, MsgsStep
<1>15. /\ state'[s] = "leader" /\ current_leader'[s] = s /\ votes'[s] = V
       /\ \A p \in Peers(s) : next_idx'[s][p] = Len(lg) + 1 /\ match_idx'[s][p] = 0
       /\ current_term' = current_term /\ log' = log /\ voted_for' = voted_for
       /\ commit_idx' = commit_idx /\ applied' = applied /\ sav' = sav /\ accepted' = accepted
       /\ \A t \in Servers \ {s} :
             /\ state'[t] = state[t] /\ current_leader'[t] = current_leader[t]
             /\ votes'[t] = votes[t] /\ next_idx'[t] = next_idx[t] /\ match_idx'[t] = match_idx[t]
  <2>1. next_idx \in [Servers -> [Servers -> Nat \ {0}]] /\ match_idx \in [Servers -> [Servers -> Nat]]
    BY Zenon DEF TypeInv
  <2>2. \A p \in Peers(s) : next_idx'[s][p] = Len(lg) + 1 /\ match_idx'[s][p] = 0
    BY Zenon, <1>8, <2>1 DEF Peers
  <2>3. \A t \in Servers \ {s} : next_idx'[t] = next_idx[t] /\ match_idx'[t] = match_idx[t]
    BY Zenon, <1>8, <2>1
  <2>4. /\ current_term' = current_term /\ log' = log /\ voted_for' = voted_for
        /\ commit_idx' = commit_idx /\ applied' = applied /\ sav' = sav /\ accepted' = accepted
    BY Zenon, <1>8 DEF logs, clientvars
  <2>5. state'[s] = "leader" /\ \A t \in Servers \ {s} : state'[t] = state[t]
    BY Zenon, <1>8 DEF TypeInv
  <2>6. current_leader'[s] = s /\ \A t \in Servers \ {s} : current_leader'[t] = current_leader[t]
    BY Zenon, <1>8 DEF TypeInv
  <2>7. votes'[s] = V /\ \A t \in Servers \ {s} : votes'[t] = votes[t]
    BY Zenon, <1>1 DEF TypeInv
  <2> QED
    BY Zenon, <2>2, <2>3, <2>4, <2>5, <2>6, <2>7
<1>16. ElectInv(h2)'
  <2>1. ASSUME NEW U \in Nat, Elected(h2, U)
        PROVE  /\ U <= current_term'[h2.lead[U]]
               /\ \E R \in Quorums : \A p \in R : h2.vote[p][U] = h2.lead[U]
    <3>1. CASE U = T
      <4>1. h2.lead[U] = s /\ U = current_term[s] /\ current_term[s] <= current_term'[s]
        BY SMTT(30), <1>1, <1>7, <1>15, <3>1
      <4> QED
        BY SMTT(30), <1>4, <1>6, <3>1, <4>1
    <3>2. CASE U # T
      BY <1>2, <1>6, <1>7, <1>15, <2>1, <3>2 DEF ElectInv, Elected
    <3> QED
      BY Zenon, <3>1, <3>2
  <2>2. ASSUME NEW t \in Servers PROVE state'[t] = "leader" <=> h2.lead[current_term'[t]] = t
    <3>0. state[t] = "leader" <=> h.lead[current_term[t]] = t
      BY Zenon, <1>2 DEF ElectInv
    <3>1. CASE t = s
      BY Zenon, <1>1, <1>7, <1>15, <3>1
    <3>2. CASE t # s /\ current_term[t] = T
      BY <1>5, <1>7, <1>15, <3>0, <3>2, ServerAssumption DEF Elected
    <3>3. CASE t # s /\ current_term[t] # T
      BY Zenon, <1>1, <1>7, <1>15, <3>0, <3>3
    <3> QED
      BY Zenon, <3>1, <3>2, <3>3
  <2>3. ASSUME NEW t \in Servers, state'[t] # "follower"
        PROVE  /\ voted_for'[t] = t /\ t \notin votes'[t]
               /\ \A p \in votes'[t] : h2.vote[p][current_term'[t]] = t
    BY SMTT(30), <1>1, <1>2, <1>3, <1>6, <1>15, <2>3 DEF ElectInv
  <2>4. \A t \in Servers : state'[t] = "leader" <=> current_leader'[t] = t
    BY SMTT(30), <1>2, <1>15 DEF ElectInv
  <2>5. \A p \in Servers : voted_for'[p] = h2.vote[p][current_term'[p]]
    BY SMTT(30), <1>2, <1>6, <1>15 DEF ElectInv
  <2>6. \A p \in Servers, U \in Nat : h2.vote[p][U] # None =>
          U <= current_term'[p] /\ U <= current_term'[h2.vote[p][U]]
    BY <1>2, <1>6, <1>15 DEF ElectInv
  <2>7. \A x \in msgs' : VoteMsg(h2, x)'
    BY Zenon, <1>14 DEF MsgInv
  <2> QED
    BY Zenon, <2>1, <2>2, <2>3, <2>4, <2>5, <2>6, <2>7 DEF ElectInv, Elected
<1>17. /\ \A U \in Nat : Elected(h, U) => LeaderLog(h, U)
       /\ \A i \in 1 .. Len(lg) : lg[i] \in Entry /\ lg[i].term \in Nat /\ lg[i].term < T
       /\ Follows(h, lg) /\ Follows(h2, lg)
  <2>1. \A i \in 1 .. Len(lg) : lg[i] \in Entry
    BY <1>1
  <2>2. \A i \in 1 .. Len(lg) : lg[i].term \in Nat
    BY Zenon, <2>1 DEF Entry
  <2>3. \A i \in 1 .. Len(lg) : lg[i].term < T
    BY Zenon, <1>1, <1>2 DEF LogInv
  <2>4. Follows(h, lg)
    BY Zenon, <1>1, <1>2 DEF LogInv
  <2> QED
    BY Zenon, <1>1, <1>2, <1>10, <2>1, <2>2, <2>3, <2>4, FollowsStays DEF LogInv
<1>18. LogInv(h2)'
  <2>1. LeaderLog(h2, T)
    <3>1. \A i \in 1 .. Len(lg) : lg[i].term <= T
      BY <1>1, <1>17
    <3>2. ASSUME NEW i \in 1 .. Len(lg), NEW j \in 1 .. Len(lg), i <= j
          PROVE  lg[i].term <= lg[j].term
      <4>1. i \in 1 .. j
        BY <3>2
      <4> QED
        BY Zenon, <1>1, <1>17, <4>1, SortedLog
    <3> QED
      BY Zenon, <1>7, <1>17, <3>1, <3>2 DEF LeaderLog
  <2>2. ASSUME NEW U \in Nat PROVE IF Elected(h2, U) THEN LeaderLog(h2, U) ELSE h2.llog[U] = <<>>
    <3>1. CASE U = T
      BY Zenon, <1>7, <2>1, <3>1
    <3>2. CASE U # T
      <4>1. h2.lead[U] = h.lead[U] /\ h2.llog[U] = h.llog[U] /\ h.llog[U] \in Seq(Entry)
        BY Zenon, <1>7, <3>2, HistTypes
      <4>2. CASE Elected(h, U)
        <5>1. LeaderLog(h, U)
          BY Zenon, <1>17, <4>2
        <5>2. Follows(h2, h.llog[U])
          BY Zenon, <1>10, <4>1, <5>1, FollowsStays DEF LeaderLog
        <5> QED
          BY Zenon, <4>1, <4>2, <5>1, <5>2 DEF LeaderLog, Elected
      <4>3. CASE ~ Elected(h, U)
        BY Zenon, <1>2, <4>1, <4>3 DEF LogInv, Elected
      <4> QED
        BY Zenon, <4>2, <4>3
    <3> QED
      BY Zenon, <3>1, <3>2
  <2>3. ASSUME NEW t \in Servers PROVE Follows(h2, log[t])
    BY Zenon, <1>1, <1>2, <1>10, FollowsStays DEF LogInv
  <2>4. ASSUME NEW t \in Servers, state'[t] = "leader"
        PROVE  /\ log[t] = h2.llog[current_term[t]]
               /\ \A p \in Peers(t) : next_idx'[t][p] <= Len(log[t]) + 1
    <3>1. CASE t = s
      BY <1>1, <1>7, <1>15, <3>1
    <3>2. CASE t # s
      <4>1. state[t] = "leader" /\ next_idx'[t] = next_idx[t]
        BY Zenon, <1>15, <2>4, <3>2
      <4>2. current_term[t] # T
        BY <1>2, <1>5, <4>1, ServerAssumption DEF ElectInv, Elected
      <4> QED
        BY Zenon, <1>1, <1>2, <1>7, <4>1, <4>2 DEF LogInv
    <3> QED
      BY Zenon, <3>1, <3>2
  <2>5. ASSUME NEW t \in Servers, NEW i \in 1 .. Len(log[t])
        PROVE  /\ log[t][i].term <= current_term[t]
               /\ state'[t] = "candidate" => log[t][i].term < current_term[t]
    BY Zenon, <1>2, <1>15 DEF LogInv
  <2>6. \A x \in msgs' : AppendMsg(h2, x)' /\ RequestMsg(x)'
    BY Zenon, <1>14 DEF MsgInv
  <2> QED
    BY Zenon, <1>15, <2>2, <2>3, <2>4, <2>5, <2>6 DEF LogInv, LeaderLog, Follows
<1>19. AckInv(h2)'
  <2>1. ASSUME NEW p \in Servers, NEW U \in Nat
        PROVE  /\ h2.acc[p][U] > 0 => Elected(h2, U) /\ U <= current_term[p]
               /\ h2.acc[p][U] <= Len(h2.llog[U])
    <3>1. /\ h.acc[p][U] > 0 => Elected(h, U) /\ U <= current_term[p]
          /\ h.acc[p][U] <= Len(h.llog[U])
      BY Zenon, <1>2 DEF AckInv
    <3>2. CASE U = T
      BY <1>1, <1>5, <1>6, <1>7, <3>2
    <3>3. CASE U # T
      BY Zenon, <1>6, <1>7, <3>1, <3>3 DEF Elected
    <3> QED
      BY Zenon, <3>2, <3>3
  <2>2. ASSUME NEW p \in Servers
        PROVE  Agree(log[p], h2.llog[current_term[p]], h2.acc[p][current_term[p]])
    <3>1. PICK U, n : U = current_term[p] /\ n = h.acc[p][U]
      BY Zenon
    <3>2. U \in Nat /\ n \in Nat /\ log[p] \in Seq(Entry)
      BY Zenon, <1>1, <3>1, HistTypes
    <3>3. Agree(log[p], h.llog[U], n)
      BY Zenon, <1>2, <3>1 DEF AckInv
    <3>4. Agree(log[p], h2.llog[U], n)
      BY Zenon, <1>10, <3>2, <3>3, LogsGrow
    <3> QED
      BY Zenon, <1>6, <3>1, <3>4
  <2>3. ASSUME NEW t \in Servers, state'[t] = "leader"
        PROVE  /\ \A p \in Peers(t) : match_idx'[t][p] <= h2.acc[p][current_term[t]]
               /\ \A i \in 1 .. Len(log[t]) : log[t][i].term = current_term[t] =>
                     i <= h2.acc[t][current_term[t]]
    <3>1. CASE t = s
      <4>1. \A p \in Peers(t) : match_idx'[t][p] <= h2.acc[p][current_term[t]]
        BY SMTT(30), <1>1, <1>5, <1>6, <1>15, <3>1 DEF Peers
      <4>2. \A i \in 1 .. Len(log[t]) : log[t][i].term # current_term[t]
        BY <1>1, <1>17, <3>1
      <4> QED
        BY Zenon, <4>1, <4>2
    <3>2. CASE t # s
      BY Zenon, <1>2, <1>6, <1>15, <2>3, <3>2 DEF AckInv
    <3> QED
      BY Zenon, <3>1, <3>2
  <2>4. \A x \in msgs' : AckMsg(h2, x)'
    BY Zenon, <1>14 DEF MsgInv
  <2> QED
    BY Zenon, <1>15, <2>1, <2>2, <2>3, <2>4 DEF AckInv, Elected
<1>20. KeepInv(h2)'
  <2> SUFFICES ASSUME NEW U \in Nat, NEW i \in Nat, Own(h2, U, i)
               PROVE  Blocked(h2, U, i)' \/ Kept(h2, U, i)'
    BY Zenon DEF KeepInv, Own
  <2>1. U # T
    BY <1>7, <1>17 DEF Own
  <2>2. h2.llog[U] = h.llog[U] /\ Own(h, U, i) /\ h.llog[U] \in Seq(Entry)
    BY Zenon, <1>7, <2>1, HistTypes DEF Own
  <2>3. CASE Blocked(h, U, i)
    <3>1. TermsInv /\ TermsInv'
      BY Zenon, <1>1, <1>15 DEF TermsInv
    <3> QED
      BY Zenon, <1>10, <2>3, <3>1, BlockedStays
  <2>4. CASE Kept(h, U, i)
    <3>1. CASE U < T /\ \A p \in Q : h.acc[p][U] < i
      <4>1. ASSUME NEW p \in Q PROVE current_term'[p] > U /\ h2.acc[p][U] < i
        <5>1. p \in Servers /\ h.vote[p][T] # None
          BY Zenon, <1>4, ServerAssumption DEF Quorums
        <5>2. T <= current_term[p] /\ current_term[p] \in Nat
          BY Zenon, <1>1, <1>2, <5>1 DEF ElectInv
        <5> QED
          BY <1>1, <1>6, <1>15, <3>1, <5>2
      <4> QED
        BY Zenon, <4>1 DEF Blocked
    <3>2. CASE ~ (U < T /\ \A p \in Q : h.acc[p][U] < i)
      <4>1. ASSUME NEW W \in Nat, U < W, Elected(h2, W) PROVE Agree(h2.llog[W], h2.llog[U], i)
        <5>1. CASE W # T
          BY Zenon, <1>7, <2>2, <2>4, <4>1, <5>1 DEF Kept, Elected
        <5>2. CASE W = T
          <6>1. PICK p \in Q : ~ (h.acc[p][U] < i)
            BY Zenon, <3>2, <4>1, <5>2
          <6>2. p \in Servers /\ h.vote[p][T] = s
            BY Zenon, <1>4 DEF Quorums
          <6>3. i <= h.acc[p][U]
            BY <6>1, <6>2, HistTypes
          <6>4. Agree(lg, h.llog[U], i)
            BY Zenon, <1>1, <2>4, <4>1, <5>2, <6>2, <6>3 DEF Kept
          <6> QED
            BY Zenon, <1>7, <2>2, <5>2, <6>4
        <5> QED
          BY Zenon, <5>1, <5>2
      <4>2. ASSUME NEW p \in Servers, i <= h2.acc[p][U] PROVE Agree(log[p], h2.llog[U], i)
        BY Zenon, <1>6, <2>2, <2>4, <4>2 DEF Kept
      <4>3. ASSUME NEW t \in Servers, NEW p \in Servers, state'[t] = "candidate",
                   U < current_term[t], h2.vote[p][current_term[t]] = t, i <= h2.acc[p][U]
            PROVE  Agree(log[t], h2.llog[U], i)
        <5>1. state[t] = "candidate"
          BY Zenon, <1>15, <4>3
        <5> QED
          BY Zenon, <1>6, <2>2, <2>4, <4>3, <5>1 DEF Kept
      <4> QED
        BY Zenon, <1>15, <4>1, <4>2, <4>3 DEF Kept
    <3> QED
      BY Zenon, <3>1, <3>2
  <2> QED
    BY Zenon, <1>2, <2>2, <2>3, <2>4 DEF KeepInv
<1>21. CommitInv(h2)'
  <2>1. ASSUME NEW t \in Servers PROVE ChosenPrefix(h2, log[t], commit_idx[t], current_term[t])
    <3>1. /\ ChosenPrefix(h, log[t], commit_idx[t], current_term[t]) /\ log[t] \in Seq(Entry)
          /\ commit_idx[t] \in Nat /\ current_term[t] \in Nat /\ current_term[t] <= current_term[t]
      BY SMTT(30), <1>1, <1>2 DEF CommitInv, TypeInv
    <3> QED
      BY Zenon, <1>10, <3>1, ChosenPrefixStays
  <2>2. \A x \in msgs' : CommitMsg(h2, x)'
    BY Zenon, <1>14 DEF MsgInv
  <2>3. \A t \in Servers : applied[t] <= commit_idx[t]
    BY Zenon, <1>2 DEF CommitInv
  <2> QED
    BY Zenon, <1>15, <2>1, <2>2, <2>3 DEF CommitInv, ChosenPrefix, Chosen, Own
<1>22. RequestInv(h2)'
  <2>1. /\ Len(lg) <= accepted
        /\ \A i \in 1 .. Len(lg) : lg[i].req \in 1 .. accepted
        /\ \A i, j \in 1 .. Len(lg) : lg[i].req = lg[j].req => i = j
    BY <1>1, <1>2, <1>17, LogRequests
  <2>2. ASSUME NEW U \in Nat
        PROVE  /\ Len(h2.llog[U]) <= accepted
               /\ \A i \in 1 .. Len(h2.llog[U]) : h2.llog[U][i].req \in 1 .. accepted
               /\ \A i, j \in 1 .. Len(h2.llog[U]) :
                     h2.llog[U][i].req = h2.llog[U][j].req => i = j
    <3>1. CASE U = T
      BY Zenon, <1>7, <2>1, <3>1
    <3>2. CASE U # T
      BY SMTT(30), <1>2, <1>7, <3>2 DEF RequestInv
    <3> QED
      BY Zenon, <3>1, <3>2
  <2>3. ASSUME NEW t \in Servers, sav[t] # NoReq
        PROVE  /\ sav[t].idx \in 1 .. Len(h2.llog[sav[t].term])
               /\ h2.llog[sav[t].term][sav[t].idx].req = sav[t].req
    <3>1. /\ sav[t].idx \in 1 .. Len(h.llog[sav[t].term])
          /\ h.llog[sav[t].term][sav[t].idx].req = sav[t].req
      BY Zenon, <1>2, <2>3 DEF RequestInv
    <3>2. sav[t].term \in Nat
      BY Zenon DEF TypeInv
    <3>3. sav[t].term # T
      BY <1>5, <3>1
    <3> QED
      BY Zenon, <1>7, <3>1, <3>2, <3>3
  <2>4. accepted' = accepted /\ sav' = sav
    BY Zenon, <1>15
  <2> QED
    BY Zenon, <2>2, <2>3, <2>4 DEF RequestInv
<1> QED
  BY Zenon, <1>6, <1>12, <1>16, <1>18, <1>19, <1>20, <1>21, <1>22 DEF Explains

LEMMA VoteResponseStep ==
    ASSUME NEW h \in Hist, TypeInv, Explains(h), NEW m \in msgs, NEW s \in Servers,
           recv_requestvote_response(s, m)
    PROVE  TypeInv' /\ \E h2 \in Hist : Explains(h2)'
<1>0. m.type = "rvr" /\ m.to = s /\ UNCHANGED <<logs, sav, clientvars, elections>>
  BY Zenon DEF recv_requestvote_response
<1>1. CASE Received(m) /\ UNCHANGED <<raft, peers>>
  BY Zenon, <1>0, <1>1, IgnoreStep
<1>2. CASE /\ state[s] = "candidate" /\ current_term[s] < m.term
           /\ StepDown(s, m.term) /\ Received(m) /\ UNCHANGED peers
  BY Zenon, <1>0, <1>2, StepDownStep
<1>3. CASE /\ state[s] = "candidate" /\ m.term = current_term[s] /\ m.granted
           /\ votes' = [votes EXCEPT ![s] = @ \cup {m.from}]
           /\ IsMajority(VotesForMe(s, votes'[s])) /\ BecomeLeader(s, m)
  BY Zenon, <1>0, <1>3, BecomeLeaderStep
<1>4. CASE /\ state[s] = "candidate" /\ m.term = current_term[s] /\ m.granted
           /\ votes' = [votes EXCEPT ![s] = @ \cup {m.from}] /\ Received(m)
           /\ UNCHANGED <<state, current_term, voted_for, current_leader, peers>>
  BY Zenon, <1>0, <1>4, CountStep
<1> QED
  BY Zenon, <1>1, <1>2, <1>3, <1>4 DEF recv_requestvote_response

-------------------------------------------------------------------------------
(* Clients.                                                                *)

(* h2 is h after the leader s of term T has added an entry to its log,     *)
(* which is now lg.                                                        *)
Extended(h, h2, s, T, lg) ==
    /\ h2.lead = h.lead /\ h2.vote = h.vote
    /\ h2.llog[T] = lg /\ h2.acc[s][T] = Len(lg)
    /\ \A U \in Nat \ {T} : h2.llog[U] = h.llog[U]
    /\ \A p \in Servers, U \in Nat : p # s \/ U # T => h2.acc[p][U] = h.acc[p][U]

LEMMA HistExtend ==
    ASSUME NEW h \in Hist, NEW s \in Servers, NEW lg \in Seq(Entry), NEW T \in Nat
    PROVE  \E h2 \in Hist : Extended(h, h2, s, T, lg)
<1>1. /\ h.vote \in [Servers -> [Nat -> Servers \cup {None}]]
      /\ h.lead \in [Nat -> Servers \cup {None}] /\ h.llog \in [Nat -> Seq(Entry)]
      /\ h.acc \in [Servers -> [Nat -> Nat]]
  BY Zenon DEF Hist
<1>2. PICK n \in Nat : n = Len(lg)
  OBVIOUS
<1>3. PICK v : v = [p \in Servers |-> [U \in Nat |-> IF p = s /\ U = T THEN n ELSE h.acc[p][U]]]
  BY Zenon
<1>4. PICK w : w = [U \in Nat |-> IF U = T THEN lg ELSE h.llog[U]]
  BY Zenon
<1>5. v \in [Servers -> [Nat -> Nat]] /\ w \in [Nat -> Seq(Entry)]
  BY Zenon, <1>1, <1>2, <1>3, <1>4
<1>6. PICK h2 : h2 = [vote |-> h.vote, lead |-> h.lead, llog |-> w, acc |-> v]
  BY Zenon
<1>7. h2 \in Hist
  BY Zenon, <1>1, <1>5, <1>6 DEF Hist
<1>8. h2.acc = v /\ h2.lead = h.lead /\ h2.llog = w /\ h2.vote = h.vote
  BY Zenon, <1>6
<1>9. v[s][T] = n /\ \A p \in Servers, U \in Nat : p # s \/ U # T => v[p][U] = h.acc[p][U]
  BY Zenon, <1>3
<1>10. w[T] = lg /\ \A U \in Nat \ {T} : w[U] = h.llog[U]
  BY Zenon, <1>4
<1> QED
  BY Zenon, <1>2, <1>7, <1>8, <1>9, <1>10 DEF Extended

(* A longer log has the same beginning.                                    *)
LEMMA AgreeLonger ==
    ASSUME NEW a \in Seq(Entry), NEW b \in Seq(Entry), NEW c \in Seq(Entry), NEW n \in Nat,
           Agree(b, a, Len(a)), Agree(a, c, n)
    PROVE  Agree(b, c, n)
<1>1. n <= Len(a) /\ Len(a) \in Nat
  BY DEF Agree
<1>2. Agree(b, a, n)
  BY Zenon, <1>1, AgreeLess
<1> QED
  BY Zenon, <1>2, AgreeTrans

LEMMA ChosenLonger ==
    ASSUME NEW h \in Hist, NEW a \in Seq(Entry), NEW b \in Seq(Entry), NEW c \in Nat, NEW T \in Nat,
           Agree(b, a, Len(a)), ChosenPrefix(h, a, c, T)
    PROVE  ChosenPrefix(h, b, c, T)
<1>1. CASE c = 0
  BY Zenon, <1>1 DEF ChosenPrefix
<1>2. CASE c # 0
  <2>1. PICK U, i \in Nat : U <= T /\ c <= i /\ Chosen(h, U, i) /\ Agree(a, h.llog[U], c)
    BY Zenon, <1>2 DEF ChosenPrefix
  <2>2. h.llog[U] \in Seq(Entry)
    BY Zenon, <2>1, HistTypes
  <2>3. Agree(b, h.llog[U], c)
    BY Zenon, <2>1, <2>2, AgreeLonger
  <2> QED
    BY Zenon, <2>1, <2>3 DEF ChosenPrefix
<1> QED
  BY Zenon, <1>1, <1>2

LEMMA AppendSeq ==
    ASSUME NEW a \in Seq(Entry), NEW e \in Entry, NEW b, b = Append(a, e)
    PROVE  /\ b \in Seq(Entry) /\ Len(b) = Len(a) + 1 /\ b[Len(a) + 1] = e
           /\ \A i \in 1 .. Len(a) : b[i] = a[i]
           /\ Agree(b, a, Len(a))
<1>1. b \in Seq(Entry) /\ Len(b) = Len(a) + 1
  OBVIOUS
<1>2. b[Len(a) + 1] = e /\ \A i \in 1 .. Len(a) : b[i] = a[i]
  OBVIOUS
<1> QED
  BY <1>1, <1>2 DEF Agree

(* The leader s of term T has added entry e to its log, which was lg and   *)
(* is now new, of n entries, and h2 is the history that tells of it.       *)
Took(h, h2, s, T, lg, e, new, n) ==
    /\ T \in Nat /\ T \in 0 .. elections /\ lg \in Seq(Entry) /\ commit_idx[s] \in Nat
    /\ current_term[s] = T /\ log[s] = lg /\ current_term \in [Servers -> Nat]
    /\ log \in [Servers -> Seq(Entry)] /\ accepted \in Nat
    /\ h.llog[T] = lg /\ h.lead[T] = s /\ Elected(h, T)
    /\ ChosenPrefix(h, lg, commit_idx[s], T)
    /\ \A d \in Peers(s) : next_idx[s][d] \in Nat \ {0} /\ next_idx[s][d] <= Len(lg) + 1
    /\ Len(lg) \in Nat
    /\ e \in Entry /\ e.term = T /\ e.req = accepted + 1
    /\ new \in Seq(Entry) /\ Len(new) = n /\ n \in Nat \ {0} /\ n = Len(lg) + 1 /\ new[n] = e
    /\ \A i \in 1 .. Len(lg) : new[i] = lg[i]
    /\ Agree(new, lg, Len(lg))
    /\ h2.lead = h.lead /\ h2.vote = h.vote
    /\ h2.llog[T] = new /\ h2.acc[s][T] = n
    /\ \A U \in Nat \ {T} : h2.llog[U] = h.llog[U]
    /\ \A p \in Servers, U \in Nat : p # s \/ U # T => h2.acc[p][U] = h.acc[p][U]
    /\ log'[s] = new /\ \A t \in Servers \ {s} : log'[t] = log[t]
    /\ log' \in [Servers -> Seq(Entry)]
    /\ current_term' = current_term /\ state' = state /\ voted_for' = voted_for
    /\ votes' = votes /\ current_leader' = current_leader
    /\ next_idx' = next_idx /\ match_idx' = match_idx
    /\ commit_idx' = commit_idx /\ applied' = applied /\ elections' = elections
    /\ Forward(h, h2) /\ ChosenPrefix(h2, new, commit_idx[s], T)

(* The new log still matches the others.                                    *)
LEMMA TookLog ==
    ASSUME NEW h \in Hist, NEW h2 \in Hist, TypeInv, Explains(h),
           NEW s \in Servers, state[s] = "leader",
           NEW T, NEW lg, NEW e, NEW new, NEW n, Took(h, h2, s, T, lg, e, new, n),
           \A x \in msgs' : MsgInv(h2, x)'
    PROVE  LogInv(h2)'
<1>1. /\ T \in Nat /\ T \in 0 .. elections /\ lg \in Seq(Entry) /\ commit_idx[s] \in Nat
      /\ current_term[s] = T /\ log[s] = lg /\ current_term \in [Servers -> Nat]
      /\ log \in [Servers -> Seq(Entry)] /\ accepted \in Nat
      /\ h.llog[T] = lg /\ h.lead[T] = s /\ Elected(h, T)
      /\ ChosenPrefix(h, lg, commit_idx[s], T)
      /\ \A d \in Peers(s) : next_idx[s][d] \in Nat \ {0} /\ next_idx[s][d] <= Len(lg) + 1
  BY Zenon DEF Took
<1>1a. T \in Nat /\ accepted \in Nat /\ Len(lg) \in Nat
  BY Zenon DEF Took
<1>2. ElectInv(h) /\ LogInv(h) /\ AckInv(h) /\ KeepInv(h) /\ CommitInv(h) /\ RequestInv(h)
  BY Zenon DEF Explains
<1>3. e \in Entry /\ e.term = T /\ e.req = accepted + 1
  BY Zenon DEF Took
<1>4. /\ new \in Seq(Entry) /\ Len(new) = n /\ n \in Nat \ {0} /\ n = Len(lg) + 1 /\ new[n] = e
      /\ \A i \in 1 .. Len(lg) : new[i] = lg[i]
      /\ Agree(new, lg, Len(lg))
  BY Zenon DEF Took
<1>6. /\ h2.lead = h.lead /\ h2.vote = h.vote
      /\ h2.llog[T] = new /\ h2.acc[s][T] = n
      /\ \A U \in Nat \ {T} : h2.llog[U] = h.llog[U]
      /\ \A p \in Servers, U \in Nat : p # s \/ U # T => h2.acc[p][U] = h.acc[p][U]
  BY Zenon DEF Took
<1>9. /\ log'[s] = new /\ \A t \in Servers \ {s} : log'[t] = log[t]
      /\ log' \in [Servers -> Seq(Entry)]
      /\ current_term' = current_term /\ state' = state /\ voted_for' = voted_for
      /\ votes' = votes /\ current_leader' = current_leader
      /\ next_idx' = next_idx /\ match_idx' = match_idx
      /\ commit_idx' = commit_idx /\ applied' = applied /\ elections' = elections
  BY Zenon DEF Took
<1>10. Forward(h, h2)
  BY Zenon DEF Took
<1>16. \A x \in msgs' : MsgInv(h2, x)'
  BY Zenon
<1>18. /\ \A U \in Nat : Elected(h, U) => LeaderLog(h, U)
       /\ Follows(h, lg) /\ Follows(h2, lg)
       /\ \A i \in 1 .. Len(lg) : lg[i] \in Entry /\ lg[i].term \in Nat /\ lg[i].term <= T
       /\ \A i, j \in 1 .. Len(lg) : i <= j => lg[i].term <= lg[j].term
  <2>1. \A U \in Nat : Elected(h, U) => LeaderLog(h, U)
    BY Zenon, <1>2 DEF LogInv
  <2>2. LeaderLog(h, T)
    BY Zenon, <1>1, <2>1
  <2>3. /\ Follows(h, lg) /\ \A i \in 1 .. Len(lg) : lg[i].term <= T
        /\ \A i, j \in 1 .. Len(lg) : i <= j => lg[i].term <= lg[j].term
    BY Zenon, <1>1, <2>2 DEF LeaderLog
  <2>4. \A i \in 1 .. Len(lg) : lg[i] \in Entry
    <3>1. lg \in Seq(Entry)
      BY Zenon, <1>1
    <3> QED
      BY <3>1
  <2>5. \A i \in 1 .. Len(lg) : lg[i].term \in Nat
    BY Zenon, <2>4 DEF Entry
  <2> QED
    BY Zenon, <1>1, <1>10, <2>1, <2>3, <2>4, <2>5, FollowsStays
<1>19. \A i \in 1 .. Len(new) : \/ i \in 1 .. Len(lg) /\ new[i] = lg[i]
                                \/ i = n /\ new[i].term = T
  BY <1>1, <1>3, <1>4
<1>20. LeaderLog(h2, T) /\ Follows(h2, new)
  <2>1. ASSUME NEW i \in 1 .. Len(new)
        PROVE  Elected(h2, new[i].term) /\ Agree(new, h2.llog[new[i].term], i) /\ new[i].term <= T
    <3>1. CASE i = n /\ new[i].term = T
      <4>1. Agree(new, new, n)
        BY <1>4, AgreeSelf
      <4> QED
        BY <1>1, <1>6, <3>1, <4>1 DEF Elected
    <3>2. CASE i \in 1 .. Len(lg) /\ new[i] = lg[i]
      <4>1. Elected(h2, lg[i].term) /\ Agree(lg, h2.llog[lg[i].term], i)
        BY Zenon, <1>18, <3>2 DEF Follows
      <4>2. h2.llog[lg[i].term] \in Seq(Entry) /\ i \in Nat
        BY <1>18, <3>2, HistTypes
      <4>3. Agree(new, h2.llog[lg[i].term], i)
        BY Zenon, <1>1, <1>4, <4>1, <4>2, AgreeLonger
      <4> QED
        BY Zenon, <1>18, <3>2, <4>1, <4>3
    <3> QED
      BY Zenon, <1>19, <3>1, <3>2
  <2>2. ASSUME NEW i \in 1 .. Len(new), NEW j \in 1 .. Len(new), i <= j
        PROVE  new[i].term <= new[j].term
    <3>1. CASE j = n /\ new[j].term = T
      BY Zenon, <2>1, <3>1
    <3>2. CASE j \in 1 .. Len(lg) /\ new[j] = lg[j]
      <4>1. i \in 1 .. Len(lg)
        BY <1>1a, <2>2, <3>2
      <4> QED
        BY Zenon, <1>4, <1>18, <2>2, <3>2, <4>1
    <3> QED
      BY Zenon, <1>19, <3>1, <3>2
  <2> QED
    BY Zenon, <1>6, <2>1, <2>2 DEF LeaderLog, Follows
<1> QED
  <2>1. ASSUME NEW U \in Nat PROVE IF Elected(h2, U) THEN LeaderLog(h2, U) ELSE h2.llog[U] = <<>>
    <3>1. CASE U = T
      BY Zenon, <1>1, <1>6, <1>20, <3>1 DEF Elected
    <3>2. CASE U # T
      <4>1. h2.lead[U] = h.lead[U] /\ h2.llog[U] = h.llog[U] /\ h.llog[U] \in Seq(Entry)
        BY Zenon, <1>6, <3>2, HistTypes
      <4>2. CASE Elected(h, U)
        <5>1. LeaderLog(h, U)
          BY Zenon, <1>18, <4>2
        <5>2. Follows(h2, h.llog[U])
          BY Zenon, <1>10, <4>1, <5>1, FollowsStays DEF LeaderLog
        <5> QED
          BY Zenon, <4>1, <4>2, <5>1, <5>2 DEF LeaderLog, Elected
      <4>3. CASE ~ Elected(h, U)
        BY Zenon, <1>2, <4>1, <4>3 DEF LogInv, Elected
      <4> QED
        BY Zenon, <4>2, <4>3
    <3> QED
      BY Zenon, <3>1, <3>2
  <2>2. ASSUME NEW t \in Servers PROVE Follows(h2, log'[t])
    <3>1. CASE t = s
      BY Zenon, <1>9, <1>20, <3>1
    <3>2. CASE t # s
      BY Zenon, <1>1, <1>2, <1>9, <1>10, <3>2, FollowsStays DEF LogInv
    <3> QED
      BY Zenon, <3>1, <3>2
  <2>3. ASSUME NEW t \in Servers, state[t] = "leader"
        PROVE  /\ log'[t] = h2.llog[current_term[t]]
               /\ \A p \in Peers(t) : next_idx[t][p] <= Len(log'[t]) + 1
    <3>1. CASE t = s
      <4>1. ASSUME NEW p \in Peers(s) PROVE next_idx[s][p] <= n + 1
        <5>1. next_idx[s][p] \in Nat /\ next_idx[s][p] <= n
          BY Zenon, <1>1, <1>4
        <5> QED
          BY <1>4, <5>1
      <4> QED
        BY Zenon, <1>1, <1>4, <1>6, <1>9, <3>1, <4>1
    <3>2. CASE t # s
      <4>1. current_term[t] # T
        BY Zenon, <1>1, <1>2, <2>3, <3>2 DEF ElectInv
      <4> QED
        BY Zenon, <1>1, <1>2, <1>6, <1>9, <2>3, <3>2, <4>1 DEF LogInv
    <3> QED
      BY Zenon, <3>1, <3>2
  <2>4. ASSUME NEW t \in Servers, NEW i \in 1 .. Len(log'[t])
        PROVE  /\ log'[t][i].term <= current_term[t]
               /\ state[t] = "candidate" => log'[t][i].term < current_term[t]
    <3>1. CASE t = s
      <4>1. new[i].term <= T
        BY Zenon, <1>6, <1>9, <1>20, <3>1 DEF LeaderLog
      <4> QED
        BY Zenon, <1>1, <1>9, <3>1, <4>1
    <3>2. CASE t # s
      BY Zenon, <1>2, <1>9, <3>2 DEF LogInv
    <3> QED
      BY Zenon, <3>1, <3>2
  <2>5. \A x \in msgs' : AppendMsg(h2, x)' /\ RequestMsg(x)'
    BY Zenon, <1>16 DEF MsgInv
  <2> QED
    BY Zenon, <1>9, <2>1, <2>2, <2>3, <2>4, <2>5 DEF LogInv, LeaderLog, Follows

(* The leader is the first to have the entry.                               *)
LEMMA TookAck ==
    ASSUME NEW h \in Hist, NEW h2 \in Hist, TypeInv, Explains(h),
           NEW s \in Servers, state[s] = "leader",
           NEW T, NEW lg, NEW e, NEW new, NEW n, Took(h, h2, s, T, lg, e, new, n),
           \A x \in msgs' : MsgInv(h2, x)'
    PROVE  AckInv(h2)'
<1>1. /\ T \in Nat /\ T \in 0 .. elections /\ lg \in Seq(Entry) /\ commit_idx[s] \in Nat
      /\ current_term[s] = T /\ log[s] = lg /\ current_term \in [Servers -> Nat]
      /\ log \in [Servers -> Seq(Entry)] /\ accepted \in Nat
      /\ h.llog[T] = lg /\ h.lead[T] = s /\ Elected(h, T)
      /\ ChosenPrefix(h, lg, commit_idx[s], T)
      /\ \A d \in Peers(s) : next_idx[s][d] \in Nat \ {0} /\ next_idx[s][d] <= Len(lg) + 1
  BY Zenon DEF Took
<1>1a. T \in Nat /\ accepted \in Nat /\ Len(lg) \in Nat
  BY Zenon DEF Took
<1>2. ElectInv(h) /\ LogInv(h) /\ AckInv(h) /\ KeepInv(h) /\ CommitInv(h) /\ RequestInv(h)
  BY Zenon DEF Explains
<1>4. /\ new \in Seq(Entry) /\ Len(new) = n /\ n \in Nat \ {0} /\ n = Len(lg) + 1 /\ new[n] = e
      /\ \A i \in 1 .. Len(lg) : new[i] = lg[i]
      /\ Agree(new, lg, Len(lg))
  BY Zenon DEF Took
<1>6. /\ h2.lead = h.lead /\ h2.vote = h.vote
      /\ h2.llog[T] = new /\ h2.acc[s][T] = n
      /\ \A U \in Nat \ {T} : h2.llog[U] = h.llog[U]
      /\ \A p \in Servers, U \in Nat : p # s \/ U # T => h2.acc[p][U] = h.acc[p][U]
  BY Zenon DEF Took
<1>9. /\ log'[s] = new /\ \A t \in Servers \ {s} : log'[t] = log[t]
      /\ log' \in [Servers -> Seq(Entry)]
      /\ current_term' = current_term /\ state' = state /\ voted_for' = voted_for
      /\ votes' = votes /\ current_leader' = current_leader
      /\ next_idx' = next_idx /\ match_idx' = match_idx
      /\ commit_idx' = commit_idx /\ applied' = applied /\ elections' = elections
  BY Zenon DEF Took
<1>10. Forward(h, h2)
  BY Zenon DEF Took
<1>16. \A x \in msgs' : MsgInv(h2, x)'
  BY Zenon
<1> QED
  <2>1. ASSUME NEW p \in Servers, NEW U \in Nat
        PROVE  /\ h2.acc[p][U] > 0 => Elected(h2, U) /\ U <= current_term[p]
               /\ h2.acc[p][U] <= Len(h2.llog[U])
    <3>1. /\ h.acc[p][U] > 0 => Elected(h, U) /\ U <= current_term[p]
          /\ h.acc[p][U] <= Len(h.llog[U]) /\ h.acc[p][U] \in Nat
      BY Zenon, <1>2, HistTypes DEF AckInv
    <3>2. CASE p = s /\ U = T
      BY <1>1, <1>4, <1>6, <3>2 DEF Elected
    <3>3. CASE p # s /\ U = T
      <4>1. h.acc[p][U] <= Len(lg) /\ h.acc[p][U] \in Nat
        BY Zenon, <1>1, <3>1, <3>3
      <4>2. Len(new) = Len(lg) + 1
        BY Zenon, <1>4
      <4>3. h.acc[p][U] <= Len(new)
        BY <1>1a, <4>1, <4>2
      <4> QED
        BY Zenon, <1>1, <1>6, <3>1, <3>3, <4>3 DEF Elected
    <3>4. CASE U # T
      BY Zenon, <1>6, <3>1, <3>4 DEF Elected
    <3> QED
      BY Zenon, <3>2, <3>3, <3>4
  <2>2. ASSUME NEW p \in Servers
        PROVE  Agree(log'[p], h2.llog[current_term[p]], h2.acc[p][current_term[p]])
    <3>1. CASE p = s
      <4>1. Agree(new, new, n)
        BY <1>4, AgreeSelf
      <4> QED
        BY Zenon, <1>1, <1>6, <1>9, <3>1, <4>1
    <3>2. CASE p # s
      <4>1. PICK U, k : U = current_term[p] /\ k = h.acc[p][U]
        BY Zenon
      <4>2. U \in Nat /\ k \in Nat /\ log[p] \in Seq(Entry)
        BY Zenon, <1>1, <4>1, HistTypes
      <4>3. Agree(log[p], h.llog[U], k)
        BY Zenon, <1>2, <4>1 DEF AckInv
      <4>4. Agree(log[p], h2.llog[U], k)
        BY Zenon, <1>10, <4>2, <4>3, LogsGrow
      <4> QED
        BY Zenon, <1>6, <1>9, <3>2, <4>1, <4>2, <4>4
    <3> QED
      BY Zenon, <3>1, <3>2
  <2>3. ASSUME NEW t \in Servers, state[t] = "leader"
        PROVE  /\ \A p \in Peers(t) : match_idx[t][p] <= h2.acc[p][current_term[t]]
               /\ \A i \in 1 .. Len(log'[t]) : log'[t][i].term = current_term[t] =>
                     i <= h2.acc[t][current_term[t]]
    <3>1. \A p \in Peers(t) : match_idx[t][p] <= h.acc[p][current_term[t]]
      BY Zenon, <1>2, <2>3 DEF AckInv
    <3>2. CASE t = s
      <4>1. \A p \in Peers(s) : match_idx[s][p] <= h2.acc[p][T]
        BY Zenon, <1>1, <1>6, <3>1, <3>2 DEF Peers
      <4>2. \A i \in 1 .. Len(new) : i <= h2.acc[s][T]
        BY <1>4, <1>6
      <4> QED
        BY Zenon, <1>1, <1>9, <3>2, <4>1, <4>2
    <3>3. CASE t # s
      <4>1. current_term[t] # T /\ current_term[t] \in Nat
        BY Zenon, <1>1, <1>2, <2>3, <3>3 DEF ElectInv
      <4> QED
        BY Zenon, <1>2, <1>6, <1>9, <2>3, <3>1, <3>3, <4>1 DEF AckInv, Peers
    <3> QED
      BY Zenon, <3>2, <3>3
  <2>4. \A x \in msgs' : AckMsg(h2, x)'
    BY Zenon, <1>16 DEF MsgInv
  <2> QED
    BY Zenon, <1>9, <2>1, <2>2, <2>3, <2>4 DEF AckInv, Elected

(* Nobody else has it: it is blocked if a later leader has been elected.    *)
LEMMA TookKeep ==
    ASSUME NEW h \in Hist, NEW h2 \in Hist, TypeInv, Explains(h),
           NEW s \in Servers, state[s] = "leader",
           NEW T, NEW lg, NEW e, NEW new, NEW n, Took(h, h2, s, T, lg, e, new, n),
           \A x \in msgs' : MsgInv(h2, x)'
    PROVE  KeepInv(h2)'
<1>1. /\ T \in Nat /\ T \in 0 .. elections /\ lg \in Seq(Entry) /\ commit_idx[s] \in Nat
      /\ current_term[s] = T /\ log[s] = lg /\ current_term \in [Servers -> Nat]
      /\ log \in [Servers -> Seq(Entry)] /\ accepted \in Nat
      /\ h.llog[T] = lg /\ h.lead[T] = s /\ Elected(h, T)
      /\ ChosenPrefix(h, lg, commit_idx[s], T)
      /\ \A d \in Peers(s) : next_idx[s][d] \in Nat \ {0} /\ next_idx[s][d] <= Len(lg) + 1
  BY Zenon DEF Took
<1>1a. T \in Nat /\ accepted \in Nat /\ Len(lg) \in Nat
  BY Zenon DEF Took
<1>2. ElectInv(h) /\ LogInv(h) /\ AckInv(h) /\ KeepInv(h) /\ CommitInv(h) /\ RequestInv(h)
  BY Zenon DEF Explains
<1>3. e \in Entry /\ e.term = T /\ e.req = accepted + 1
  BY Zenon DEF Took
<1>4. /\ new \in Seq(Entry) /\ Len(new) = n /\ n \in Nat \ {0} /\ n = Len(lg) + 1 /\ new[n] = e
      /\ \A i \in 1 .. Len(lg) : new[i] = lg[i]
      /\ Agree(new, lg, Len(lg))
  BY Zenon DEF Took
<1>6. /\ h2.lead = h.lead /\ h2.vote = h.vote
      /\ h2.llog[T] = new /\ h2.acc[s][T] = n
      /\ \A U \in Nat \ {T} : h2.llog[U] = h.llog[U]
      /\ \A p \in Servers, U \in Nat : p # s \/ U # T => h2.acc[p][U] = h.acc[p][U]
  BY Zenon DEF Took
<1>9. /\ log'[s] = new /\ \A t \in Servers \ {s} : log'[t] = log[t]
      /\ log' \in [Servers -> Seq(Entry)]
      /\ current_term' = current_term /\ state' = state /\ voted_for' = voted_for
      /\ votes' = votes /\ current_leader' = current_leader
      /\ next_idx' = next_idx /\ match_idx' = match_idx
      /\ commit_idx' = commit_idx /\ applied' = applied /\ elections' = elections
  BY Zenon DEF Took
<1>10. Forward(h, h2)
  BY Zenon DEF Took
<1>19. \A i \in 1 .. Len(new) : \/ i \in 1 .. Len(lg) /\ new[i] = lg[i]
                                \/ i = n /\ new[i].term = T
  BY <1>1, <1>3, <1>4
<1> QED
  <2> SUFFICES ASSUME NEW U \in Nat, NEW i \in Nat, Own(h2, U, i)
               PROVE  Blocked(h2, U, i)' \/ Kept(h2, U, i)'
    BY Zenon DEF KeepInv, Own
  <2>0. /\ h.llog[U] \in Seq(Entry) /\ h2.llog[U] \in Seq(Entry) /\ i \in 1 .. Len(h2.llog[U])
        /\ \A p \in Servers : h.acc[p][U] \in Nat
    BY Zenon, HistTypes DEF Own
  <2>1. CASE U = T /\ i = n
    <3>1. ASSUME NEW p \in Servers, p # s PROVE h2.acc[p][T] < n
      <4>1. h.acc[p][T] <= Len(h.llog[T]) /\ h.acc[p][T] \in Nat
        BY Zenon, <1>1, <1>2, <2>0, <2>1, <3>1 DEF AckInv
      <4>2. h.acc[p][T] < n
        BY <1>1, <1>4, <4>1
      <4> QED
        BY Zenon, <1>1, <1>6, <3>1, <4>2
    <3>2. CASE \E W \in Nat : T < W /\ Elected(h, W)
      <4>1. PICK W \in Nat : T < W /\ Elected(h, W)
        BY Zenon, <3>2
      <4>2. PICK R \in Quorums : \A p \in R : h.vote[p][W] = h.lead[W]
        BY Zenon, <1>2, <4>1 DEF ElectInv
      <4>3. ASSUME NEW p \in R PROVE current_term'[p] > T /\ h2.acc[p][T] < n
        <5>1. p \in Servers /\ h.vote[p][W] # None
          BY Zenon, <4>1, <4>2 DEF Quorums, Elected
        <5>2. W <= current_term[p] /\ current_term[p] \in Nat
          BY Zenon, <1>1, <1>2, <4>1, <5>1 DEF ElectInv
        <5>3. current_term[p] > T
          BY <1>1a, <4>1, <5>2
        <5>4. p # s
          <6>1. current_term[s] = T
            BY Zenon, <1>1
          <6> QED
            BY <1>1a, <5>3, <6>1
        <5> QED
          BY Zenon, <1>9, <3>1, <5>1, <5>3, <5>4
      <4> QED
        BY Zenon, <2>1, <4>2, <4>3 DEF Blocked
    <3>3. CASE ~ \E W \in Nat : T < W /\ Elected(h, W)
      <4>1. ASSUME NEW W \in Nat, U < W, Elected(h2, W) PROVE FALSE
        BY Zenon, <1>6, <2>1, <3>3, <4>1 DEF Elected
      <4>2. ASSUME NEW p \in Servers, i <= h2.acc[p][U] PROVE p = s
        <5>1. CASE p # s
          <6>1. h2.acc[p][T] < n /\ h2.acc[p][T] \in Nat
            BY Zenon, <1>1, <3>1, <5>1, HistTypes
          <6> QED
            BY <1>4, <2>1, <4>2, <6>1
        <5> QED
          BY Zenon, <5>1
      <4>3. Agree(log'[s], h2.llog[U], i)
        <5>1. Agree(new, new, n)
          BY <1>4, AgreeSelf
        <5> QED
          BY Zenon, <1>6, <1>9, <2>1, <5>1
      <4>4. ASSUME NEW t \in Servers, NEW p \in Servers, U < current_term'[t],
                   h2.vote[p][current_term'[t]] = t, i <= h2.acc[p][U]
            PROVE  FALSE
        <5>1. p = s
          BY Zenon, <4>2, <4>4
        <5>2. h.vote[s][current_term[t]] # None /\ current_term[t] \in Nat
          <6>1. h.vote[s][current_term[t]] = t /\ t # None /\ current_term[t] \in Nat
            BY Zenon, <1>1, <1>6, <1>9, <4>4, <5>1, ServerAssumption
          <6> QED
            BY Zenon, <6>1
        <5>3. current_term[t] <= T
          BY Zenon, <1>1, <1>2, <5>2 DEF ElectInv
        <5> QED
          <6>1. T < current_term[t] /\ current_term[t] \in Nat
            BY Zenon, <1>9, <2>1, <4>4, <5>2
          <6> QED
            BY <1>1a, <5>3, <6>1
      <4> QED
        BY Zenon, <4>1, <4>2, <4>3, <4>4 DEF Kept
    <3> QED
      BY Zenon, <3>2, <3>3
  <2>2. CASE ~ (U = T /\ i = n)
    <3>1. Own(h, U, i) /\ i <= Len(h.llog[U])
      <4>1. CASE U = T
        <5>1. i \in 1 .. Len(lg) /\ new[i] = lg[i]
          BY Zenon, <1>6, <1>19, <2>0, <2>2, <4>1
        <5> QED
          BY <1>1, <1>6, <4>1, <5>1 DEF Own
      <4>2. CASE U # T
        BY <1>6, <2>0, <4>2 DEF Own
      <4> QED
        BY Zenon, <4>1, <4>2
    <3>2. CASE Blocked(h, U, i)
      <4>1. TermsInv /\ TermsInv'
        BY Zenon, <1>1, <1>9 DEF TermsInv
      <4> QED
        BY Zenon, <1>10, <3>2, <4>1, BlockedStays
    <3>3. CASE Kept(h, U, i)
      <4>0. ASSUME NEW p \in Servers, Agree(log[p], h.llog[U], i) PROVE Agree(log'[p], h2.llog[U], i)
        <5>1. log[p] \in Seq(Entry) /\ log'[p] \in Seq(Entry)
          BY Zenon, <1>1, <1>9
        <5>2. Agree(log[p], h2.llog[U], i)
          BY Zenon, <1>10, <4>0, <5>1, LogsGrow
        <5>3. CASE p = s
          <6>1. Agree(log'[p], log[p], Len(log[p]))
            BY Zenon, <1>1, <1>4, <1>9, <5>3
          <6> QED
            BY Zenon, <2>0, <5>1, <5>2, <6>1, AgreeLonger
        <5>4. CASE p # s
          BY Zenon, <1>9, <5>2, <5>4
        <5> QED
          BY Zenon, <5>3, <5>4
      <4>1. ASSUME NEW W \in Nat, U < W, Elected(h2, W) PROVE Agree(h2.llog[W], h2.llog[U], i)
        <5>1. Agree(h.llog[W], h.llog[U], i)
          BY Zenon, <1>6, <3>3, <4>1 DEF Kept, Elected
        <5>2. h.llog[W] \in Seq(Entry) /\ h2.llog[W] \in Seq(Entry)
          BY Zenon, HistTypes
        <5>3. Agree(h.llog[W], h2.llog[U], i)
          BY Zenon, <1>10, <5>1, <5>2, LogsGrow
        <5>4. Agree(h2.llog[W], h.llog[W], Len(h.llog[W]))
          BY Zenon, <1>10 DEF Forward
        <5> QED
          BY Zenon, <2>0, <5>2, <5>3, <5>4, AgreeLonger
      <4>2. ASSUME NEW p \in Servers, i <= h2.acc[p][U] PROVE Agree(log'[p], h2.llog[U], i)
        <5>1. CASE p = s /\ U = T
          <6>1. Agree(new, new, i)
            BY <1>4, <1>6, <2>0, <5>1, AgreeSelf
          <6> QED
            BY Zenon, <1>6, <1>9, <5>1, <6>1
        <5>2. CASE p # s \/ U # T
          <6>1. i <= h.acc[p][U]
            BY Zenon, <1>6, <4>2, <5>2
          <6>2. Agree(log[p], h.llog[U], i)
            BY Zenon, <3>3, <6>1 DEF Kept
          <6> QED
            BY Zenon, <4>0, <6>2
        <5> QED
          BY Zenon, <5>1, <5>2
      <4>3. ASSUME NEW t \in Servers, NEW p \in Servers, state'[t] = "candidate",
                   U < current_term'[t], h2.vote[p][current_term'[t]] = t, i <= h2.acc[p][U]
            PROVE  Agree(log'[t], h2.llog[U], i)
        <5>1. current_term'[t] = current_term[t] /\ current_term[t] \in Nat /\ state[t] = "candidate"
          BY Zenon, <1>1, <1>9, <4>3
        <5>2. CASE p = s /\ U = T
          <6>1. h.vote[s][current_term[t]] # None
            <7>1. h.vote[s][current_term[t]] = t /\ t # None
              BY Zenon, <1>6, <4>3, <5>1, <5>2, ServerAssumption
            <7> QED
              BY Zenon, <7>1
          <6>2. current_term[t] <= T
            BY Zenon, <1>1, <1>2, <5>1, <6>1 DEF ElectInv
          <6> QED
            <7>1. T < current_term[t] /\ current_term[t] \in Nat
              BY Zenon, <4>3, <5>1, <5>2
            <7> QED
              BY <1>1a, <6>2, <7>1
        <5>3. CASE p # s \/ U # T
          <6>1. i <= h.acc[p][U] /\ h.vote[p][current_term[t]] = t /\ U < current_term[t]
            BY Zenon, <1>6, <4>3, <5>1, <5>3
          <6>2. Agree(log[t], h.llog[U], i)
            BY Zenon, <3>3, <5>1, <6>1 DEF Kept
          <6> QED
            BY Zenon, <4>0, <6>2
        <5> QED
          BY Zenon, <5>2, <5>3
      <4> QED
        BY Zenon, <4>1, <4>2, <4>3 DEF Kept
    <3> QED
      BY Zenon, <1>2, <3>1, <3>2, <3>3 DEF KeepInv
  <2> QED
    BY Zenon, <2>1, <2>2

(* What was committed is still chosen.                                       *)
LEMMA TookCommit ==
    ASSUME NEW h \in Hist, NEW h2 \in Hist, TypeInv, Explains(h),
           NEW s \in Servers, state[s] = "leader",
           NEW T, NEW lg, NEW e, NEW new, NEW n, Took(h, h2, s, T, lg, e, new, n),
           \A x \in msgs' : MsgInv(h2, x)'
    PROVE  CommitInv(h2)'
<1>1. /\ T \in Nat /\ T \in 0 .. elections /\ lg \in Seq(Entry) /\ commit_idx[s] \in Nat
      /\ current_term[s] = T /\ log[s] = lg /\ current_term \in [Servers -> Nat]
      /\ log \in [Servers -> Seq(Entry)] /\ accepted \in Nat
      /\ h.llog[T] = lg /\ h.lead[T] = s /\ Elected(h, T)
      /\ ChosenPrefix(h, lg, commit_idx[s], T)
      /\ \A d \in Peers(s) : next_idx[s][d] \in Nat \ {0} /\ next_idx[s][d] <= Len(lg) + 1
  BY Zenon DEF Took
<1>2. ElectInv(h) /\ LogInv(h) /\ AckInv(h) /\ KeepInv(h) /\ CommitInv(h) /\ RequestInv(h)
  BY Zenon DEF Explains
<1>9. /\ log'[s] = new /\ \A t \in Servers \ {s} : log'[t] = log[t]
      /\ log' \in [Servers -> Seq(Entry)]
      /\ current_term' = current_term /\ state' = state /\ voted_for' = voted_for
      /\ votes' = votes /\ current_leader' = current_leader
      /\ next_idx' = next_idx /\ match_idx' = match_idx
      /\ commit_idx' = commit_idx /\ applied' = applied /\ elections' = elections
  BY Zenon DEF Took
<1>10. Forward(h, h2)
  BY Zenon DEF Took
<1>11. ChosenPrefix(h2, new, commit_idx[s], T)
  BY Zenon DEF Took
<1>16. \A x \in msgs' : MsgInv(h2, x)'
  BY Zenon
<1> QED
  <2>1. ASSUME NEW t \in Servers PROVE ChosenPrefix(h2, log'[t], commit_idx[t], current_term[t])
    <3>1. CASE t = s
      BY Zenon, <1>1, <1>9, <1>11, <3>1
    <3>2. CASE t # s
      <4>1. /\ ChosenPrefix(h, log[t], commit_idx[t], current_term[t]) /\ log[t] \in Seq(Entry)
            /\ commit_idx[t] \in Nat /\ current_term[t] \in Nat /\ current_term[t] <= current_term[t]
        BY <1>1, <1>2 DEF CommitInv, TypeInv
      <4>2. ChosenPrefix(h2, log[t], commit_idx[t], current_term[t])
        BY Zenon, <1>10, <4>1, ChosenPrefixStays
      <4> QED
        BY Zenon, <1>9, <3>2, <4>2
    <3> QED
      BY Zenon, <3>1, <3>2
  <2>2. \A x \in msgs' : CommitMsg(h2, x)'
    BY Zenon, <1>16 DEF MsgInv
  <2>3. \A t \in Servers : applied[t] <= commit_idx[t]
    BY Zenon, <1>2 DEF CommitInv
  <2> QED
    BY Zenon, <1>9, <2>1, <2>2, <2>3 DEF CommitInv, ChosenPrefix, Chosen, Own

(* The request is in no log yet.                                            *)
LEMMA TookRequest ==
    ASSUME NEW h \in Hist, NEW h2 \in Hist, TypeInv, Explains(h),
           NEW s \in Servers, state[s] = "leader",
           NEW T, NEW lg, NEW e, NEW new, NEW n, Took(h, h2, s, T, lg, e, new, n),
           \A x \in msgs' : MsgInv(h2, x)',
           sav' = [sav EXCEPT ![s] = [req |-> accepted + 1,
                                      idx |-> Len(log'[s]), term |-> current_term[s]]],
           accepted' = accepted + 1
    PROVE  RequestInv(h2)'
<1>1. /\ T \in Nat /\ T \in 0 .. elections /\ lg \in Seq(Entry) /\ commit_idx[s] \in Nat
      /\ current_term[s] = T /\ log[s] = lg /\ current_term \in [Servers -> Nat]
      /\ log \in [Servers -> Seq(Entry)] /\ accepted \in Nat
      /\ h.llog[T] = lg /\ h.lead[T] = s /\ Elected(h, T)
      /\ ChosenPrefix(h, lg, commit_idx[s], T)
      /\ \A d \in Peers(s) : next_idx[s][d] \in Nat \ {0} /\ next_idx[s][d] <= Len(lg) + 1
  BY Zenon DEF Took
<1>1a. T \in Nat /\ accepted \in Nat /\ Len(lg) \in Nat
  BY Zenon DEF Took
<1>2. ElectInv(h) /\ LogInv(h) /\ AckInv(h) /\ KeepInv(h) /\ CommitInv(h) /\ RequestInv(h)
  BY Zenon DEF Explains
<1>3. e \in Entry /\ e.term = T /\ e.req = accepted + 1
  BY Zenon DEF Took
<1>4. /\ new \in Seq(Entry) /\ Len(new) = n /\ n \in Nat \ {0} /\ n = Len(lg) + 1 /\ new[n] = e
      /\ \A i \in 1 .. Len(lg) : new[i] = lg[i]
      /\ Agree(new, lg, Len(lg))
  BY Zenon DEF Took
<1>6. /\ h2.lead = h.lead /\ h2.vote = h.vote
      /\ h2.llog[T] = new /\ h2.acc[s][T] = n
      /\ \A U \in Nat \ {T} : h2.llog[U] = h.llog[U]
      /\ \A p \in Servers, U \in Nat : p # s \/ U # T => h2.acc[p][U] = h.acc[p][U]
  BY Zenon DEF Took
<1>9. /\ log'[s] = new /\ \A t \in Servers \ {s} : log'[t] = log[t]
      /\ log' \in [Servers -> Seq(Entry)]
      /\ current_term' = current_term /\ state' = state /\ voted_for' = voted_for
      /\ votes' = votes /\ current_leader' = current_leader
      /\ next_idx' = next_idx /\ match_idx' = match_idx
      /\ commit_idx' = commit_idx /\ applied' = applied /\ elections' = elections
  BY Zenon DEF Took
<1> QED
  <2>1. ASSUME NEW U \in Nat
        PROVE  /\ Len(h2.llog[U]) <= accepted'
               /\ \A i \in 1 .. Len(h2.llog[U]) : h2.llog[U][i].req \in 1 .. accepted'
               /\ \A i, j \in 1 .. Len(h2.llog[U]) :
                     h2.llog[U][i].req = h2.llog[U][j].req => i = j
    <3>1. /\ Len(h.llog[U]) <= accepted /\ Len(h.llog[U]) \in Nat
          /\ \A i \in 1 .. Len(h.llog[U]) : h.llog[U][i].req \in 1 .. accepted
          /\ \A i, j \in 1 .. Len(h.llog[U]) : h.llog[U][i].req = h.llog[U][j].req => i = j
      <4>1. h.llog[U] \in Seq(Entry)
        BY Zenon, HistTypes
      <4>2. Len(h.llog[U]) \in Nat
        BY <4>1
      <4> QED
        BY Zenon, <1>2, <4>2 DEF RequestInv
    <3>2. CASE U = T
      <4>1. Len(new) <= accepted + 1
        BY <1>1, <1>4, <3>1, <3>2
      <4>2. /\ \A i \in 1 .. Len(lg) : new[i].req \in 1 .. accepted
            /\ \A i, j \in 1 .. Len(lg) : new[i].req = new[j].req => i = j
        <5>1. /\ \A i \in 1 .. Len(lg) : lg[i].req \in 1 .. accepted
              /\ \A i, j \in 1 .. Len(lg) : lg[i].req = lg[j].req => i = j
          BY Zenon, <1>1, <3>1, <3>2
        <5>2. \A i \in 1 .. Len(lg) : new[i].req = lg[i].req
          BY Zenon, <1>4
        <5>3. \A i \in 1 .. Len(lg) : new[i].req \in 1 .. accepted
          BY Zenon, <5>1, <5>2
        <5>4. \A i, j \in 1 .. Len(lg) : new[i].req = new[j].req => i = j
          BY Zenon, <5>1, <5>2
        <5> QED
          BY Zenon, <5>3, <5>4
      <4>3. new[n].req = accepted + 1
        BY Zenon, <1>3, <1>4
      <4>4. \A i \in 1 .. Len(new) : i \in 1 .. Len(lg) \/ i = n
        BY <1>1a, <1>4
      <4>5. \A i \in 1 .. Len(new) : new[i].req \in 1 .. accepted + 1
        <5> TAKE i \in 1 .. Len(new)
        <5>1. CASE i = n
          BY <1>1a, <4>3, <5>1
        <5>2. CASE i \in 1 .. Len(lg)
          BY <1>1a, <4>2, <5>2
        <5> QED
          BY Zenon, <4>4, <5>1, <5>2
      <4>6. ASSUME NEW i \in 1 .. Len(new), NEW j \in 1 .. Len(new), new[i].req = new[j].req
            PROVE  i = j
        <5>1. CASE i = n /\ j = n
          BY Zenon, <5>1
        <5>2. CASE i \in 1 .. Len(lg) /\ j \in 1 .. Len(lg)
          BY Zenon, <4>2, <4>6, <5>2
        <5>3. CASE i \in 1 .. Len(lg) /\ j = n
          BY <1>1a, <4>2, <4>3, <4>6, <5>3
        <5>4. CASE i = n /\ j \in 1 .. Len(lg)
          BY <1>1a, <4>2, <4>3, <4>6, <5>4
        <5> QED
          BY Zenon, <4>4, <5>1, <5>2, <5>3, <5>4
      <4> QED
        BY Zenon, <1>6, <3>2, <4>1, <4>5, <4>6
    <3>3. CASE U # T
      <4>1. accepted <= accepted' /\ 1 .. accepted \subseteq 1 .. accepted'
        BY <1>1a
      <4>2. h2.llog[U] = h.llog[U]
        BY Zenon, <1>6, <3>3
      <4>3. Len(h.llog[U]) <= accepted'
        BY <1>1, <3>1
      <4> QED
        BY Zenon, <3>1, <4>1, <4>2, <4>3
    <3> QED
      BY Zenon, <3>2, <3>3
  <2>2. ASSUME NEW t \in Servers, sav'[t] # NoReq
        PROVE  /\ sav'[t].idx \in 1 .. Len(h2.llog[sav'[t].term])
               /\ h2.llog[sav'[t].term][sav'[t].idx].req = sav'[t].req
    <3>1. CASE t = s
      <4>1. sav'[s] = [req |-> accepted + 1, idx |-> n, term |-> T]
        BY Zenon, <1>1, <1>4, <1>9 DEF TypeInv
      <4>2. sav'[s].idx = n /\ sav'[s].term = T /\ sav'[s].req = accepted + 1
        BY <4>1
      <4>3. n \in 1 .. Len(new)
        BY <1>4
      <4> QED
        BY <1>3, <1>4, <1>6, <3>1, <4>2, <4>3
    <3>2. CASE t # s
      <4>1. sav'[t] = sav[t] /\ sav[t].term \in Nat
        BY Zenon, <3>2 DEF TypeInv
      <4>2. PICK V, k : V = sav[t].term /\ k = sav[t].idx
        BY Zenon
      <4>3. k \in 1 .. Len(h.llog[V]) /\ h.llog[V][k].req = sav[t].req
        BY Zenon, <1>2, <2>2, <4>1, <4>2 DEF RequestInv
      <4>4. k \in 1 .. Len(h2.llog[V]) /\ h2.llog[V][k] = h.llog[V][k]
        <5>1. CASE V = T
          BY <1>1, <1>4, <1>6, <4>3, <5>1
        <5>2. CASE V # T
          BY Zenon, <1>6, <4>1, <4>2, <4>3, <5>2
        <5> QED
          BY Zenon, <5>1, <5>2
      <4> QED
        BY Zenon, <4>1, <4>2, <4>3, <4>4
    <3> QED
      BY Zenon, <3>1, <3>2
  <2> QED
    BY Zenon, <2>1, <2>2 DEF RequestInv

===============================================================================
