------------------------------ MODULE RaftLemmas -------------------------------
(***************************************************************************)
(* What the proofs of Raft rest on: facts about logs that agree, about what*)
(* no step changes, and about each part of RaftHistory's invariant under a *)
(* step in which no leader is elected and no leader's log grows.  Then the *)
(* periodic steps and the handlers of votes, which are such steps.         *)
(***************************************************************************)
EXTENDS RaftHistory, TLAPS, FiniteSetTheorems, WellFoundedInduction

(* A set of natural numbers has a least element.                           *)
LEMMA LeastElement ==
    ASSUME NEW S \in SUBSET Nat, S # {}
    PROVE  \E x \in S : \A y \in S : x <= y
<1>1. PICK R : R = OpToRel(<, Nat)
  BY Zenon
<1>2. IsWellFoundedOn(R, Nat)
  BY Zenon, <1>1, NatLessThanWellFounded
<1>3. PICK x \in S : \A y \in S : ~ (<<y, x>> \in R)
  BY Zenon, <1>2, WFMin
<1>4. \A y, z \in Nat : y < z => <<y, z>> \in R
  BY Zenon, <1>1 DEF OpToRel
<1>5. \A y \in S : ~ (y < x)
  <2> TAKE y \in S
  <2> QED
    BY Zenon, <1>3, <1>4
<1>6. \A y \in S : x <= y
  BY <1>5
<1> QED
  BY Zenon, <1>6

LEMMA MinFound ==
    ASSUME NEW S \in SUBSET Nat, S # {}
    PROVE  Min(S) \in S /\ \A y \in S : Min(S) <= y
BY Zenon, LeastElement DEF Min

(* Two majorities have a member in common.                                 *)
LEMMA QuorumsMeet ==
    ASSUME NEW Q \in Quorums, NEW R \in Quorums
    PROVE  \E p \in Servers : p \in Q /\ p \in R
<1>1. /\ Q \in SUBSET Servers /\ R \in SUBSET Servers
      /\ 2 * Cardinality(Q) > Cardinality(Servers) /\ 2 * Cardinality(R) > Cardinality(Servers)
  BY Zenon DEF Quorums
<1>2. /\ IsFiniteSet(Q) /\ IsFiniteSet(R) /\ IsFiniteSet(Servers)
  BY Zenon, <1>1, ServerAssumption, FS_Subset
<1>3. Cardinality(Q) \in Nat /\ Cardinality(R) \in Nat /\ Cardinality(Servers) \in Nat
  BY Zenon, <1>2, FS_CardinalityType
<1>4. Cardinality(Q) + Cardinality(R) > Cardinality(Servers)
  BY <1>1, <1>3
<1>5. Q \cap R # {}
  BY Zenon, <1>1, <1>2, <1>4, FS_MajoritiesIntersect
<1> QED
  BY Zenon, <1>1, <1>5

LEMMA HistTypes ==
    ASSUME NEW h \in Hist
    PROVE  /\ \A p \in Servers, T \in Nat : h.vote[p][T] \in Servers \cup {None}
           /\ \A T \in Nat : h.lead[T] \in Servers \cup {None} /\ h.llog[T] \in Seq(Entry)
           /\ \A p \in Servers, T \in Nat : h.acc[p][T] \in Nat
<1>1. /\ h.vote \in [Servers -> [Nat -> Servers \cup {None}]]
      /\ h.lead \in [Nat -> Servers \cup {None}] /\ h.llog \in [Nat -> Seq(Entry)]
      /\ h.acc \in [Servers -> [Nat -> Nat]]
  BY Zenon DEF Hist
<1> QED
  BY <1>1

-------------------------------------------------------------------------------
(* Logs that agree.                                                        *)

LEMMA AgreeSym ==
    ASSUME NEW a, NEW b, NEW n, Agree(a, b, n)
    PROVE  Agree(b, a, n)
BY Zenon DEF Agree

LEMMA AgreeTrans ==
    ASSUME NEW a, NEW b, NEW c, NEW n, Agree(a, b, n), Agree(b, c, n)
    PROVE  Agree(a, c, n)
BY Zenon DEF Agree

LEMMA AgreeLess ==
    ASSUME NEW a \in Seq(Entry), NEW b \in Seq(Entry), NEW n \in Nat, NEW k \in Nat,
           Agree(a, b, n), k <= n
    PROVE  Agree(a, b, k)
BY DEF Agree

LEMMA AgreeZero ==
    ASSUME NEW a \in Seq(Entry), NEW b \in Seq(Entry)
    PROVE  Agree(a, b, 0)
BY DEF Agree

LEMMA AgreeSelf ==
    ASSUME NEW a \in Seq(Entry), NEW n \in Nat, n <= Len(a)
    PROVE  Agree(a, a, n)
BY Zenon DEF Agree

(* Two logs with an entry of the same term at the same place agree so far. *)
LEMMA LogMatching ==
    ASSUME NEW h \in Hist, NEW a \in Seq(Entry), NEW b \in Seq(Entry), Follows(h, a), Follows(h, b),
           NEW i \in 1 .. Len(a), i <= Len(b), a[i].term = b[i].term
    PROVE  Agree(a, b, i)
<1>1. i \in 1 .. Len(b)
  OBVIOUS
<1>2. Agree(a, h.llog[a[i].term], i) /\ Agree(b, h.llog[a[i].term], i)
  BY Zenon, <1>1 DEF Follows
<1> QED
  BY <1>2, AgreeSym, AgreeTrans

(* The beginning of a log that follows the leaders does so too.            *)
LEMMA PrefixFollows ==
    ASSUME NEW h \in Hist, NEW a \in Seq(Entry), Follows(h, a), NEW b \in Seq(Entry),
           Agree(b, a, Len(b))
    PROVE  Follows(h, b)
<1> SUFFICES ASSUME NEW i \in 1 .. Len(b)
             PROVE  Elected(h, b[i].term) /\ Agree(b, h.llog[b[i].term], i)
  BY Zenon DEF Follows
<1>1. i \in 1 .. Len(a) /\ a[i] = b[i]
  BY DEF Agree
<1>2. Elected(h, a[i].term) /\ Agree(a, h.llog[a[i].term], i)
  BY Zenon, <1>1 DEF Follows
<1>3. Agree(b, a, i)
  BY AgreeLess
<1> QED
  BY Zenon, <1>1, <1>2, <1>3, AgreeTrans

LEMMA PrefixSeq ==
    ASSUME NEW a \in Seq(Entry), NEW k \in Nat, k <= Len(a)
    PROVE  /\ SubSeq(a, 1, k) \in Seq(Entry) /\ Len(SubSeq(a, 1, k)) = k
           /\ \A x \in 1 .. k : SubSeq(a, 1, k)[x] = a[x]
OBVIOUS

LEMMA RestSeq ==
    ASSUME NEW a \in Seq(Entry), NEW k \in Nat \ {0}, k <= Len(a) + 1
    PROVE  /\ SubSeq(a, k, Len(a)) \in Seq(Entry) /\ Len(SubSeq(a, k, Len(a))) = Len(a) - k + 1
           /\ \A x \in 1 .. Len(a) - k + 1 : SubSeq(a, k, Len(a))[x] = a[k + x - 1]
OBVIOUS

LEMMA ConcatSeq ==
    ASSUME NEW a \in Seq(Entry), NEW b \in Seq(Entry)
    PROVE  \E c \in Seq(Entry) : /\ c = a \o b /\ Len(c) = Len(a) + Len(b)
                                 /\ \A x \in 1 .. Len(a) : c[x] = a[x]
                                 /\ \A x \in 1 .. Len(b) : c[Len(a) + x] = b[x]
<1>1. /\ a \o b \in Seq(Entry) /\ Len(a \o b) = Len(a) + Len(b)
      /\ \A x \in 1 .. Len(a) : (a \o b)[x] = a[x]
      /\ \A x \in 1 .. Len(b) : (a \o b)[Len(a) + x] = b[x]
  OBVIOUS
<1> QED
  BY Zenon, <1>1, Zenon

(* A log that matches before the new entries agrees up to there.           *)
LEMMA PrevAgrees ==
    ASSUME NEW h \in Hist, NEW lg \in Seq(Entry), NEW L \in Seq(Entry), Follows(h, lg), Follows(h, L),
           NEW m, m.prev_idx \in Nat, m.prev_idx <= Len(L), m.prev_idx <= Len(lg),
           m.prev_term = TermAt(L, m.prev_idx), PrevMatches(lg, m)
    PROVE  Agree(lg, L, m.prev_idx)
<1>1. CASE m.prev_idx = 0
  BY Zenon, <1>1, AgreeZero
<1>2. CASE m.prev_idx # 0
  <2>1. m.prev_idx \in 1 .. Len(lg) /\ m.prev_idx \in 1 .. Len(L)
    BY <1>2
  <2>2. lg[m.prev_idx].term = L[m.prev_idx].term
    BY Zenon, <2>1 DEF PrevMatches, TermAt, HasEntry
  <2> QED
    BY Zenon, <2>1, <2>2, LogMatching
<1> QED
  BY Zenon, <1>1, <1>2

(* Storing what a leader with log L has sent: the log is unchanged, and    *)
(* has it all, or is now the beginning of L, and has lost nothing that     *)
(* agreed with L.                                                          *)
LEMMA MergedLog ==
    ASSUME NEW h \in Hist, NEW lg \in Seq(Entry), NEW L \in Seq(Entry), Follows(h, lg), Follows(h, L),
           NEW m, m.prev_idx \in Nat, m.entries \in Seq(Entry),
           m.prev_idx + Len(m.entries) <= Len(L), m.prev_idx <= Len(lg),
           m.prev_term = TermAt(L, m.prev_idx), PrevMatches(lg, m),
           \A i \in 1 .. Len(m.entries) : m.entries[i] = L[m.prev_idx + i]
    PROVE  /\ Merged(lg, m) \in Seq(Entry)
           /\ Agree(Merged(lg, m), L, m.prev_idx + Len(m.entries))
           /\ \/ Merged(lg, m) = lg
              \/ /\ Len(Merged(lg, m)) = m.prev_idx + Len(m.entries)
                 /\ \A n \in Nat : Agree(lg, L, n) => n <= m.prev_idx + Len(m.entries)
<1>0. PICK prev, N, es, first :
         /\ prev = m.prev_idx /\ es = m.entries /\ N = Len(m.entries)
         /\ first = Min(Conflicts(lg, m) \cup {Len(lg) - m.prev_idx + 1})
  BY Zenon
<1>1. /\ prev \in Nat /\ N \in Nat /\ es \in Seq(Entry) /\ N = Len(es) /\ prev <= Len(lg)
      /\ prev + N <= Len(L) /\ \A i \in 1 .. N : es[i] = L[prev + i]
  BY <1>0
<1>2. /\ first \in Conflicts(lg, m) \/ first = Len(lg) - prev + 1
      /\ first <= Len(lg) - prev + 1
      /\ \A y \in Conflicts(lg, m) : first <= y
      /\ first \in Nat \ {0}
  <2>1. PICK S : S = Conflicts(lg, m) \cup {Len(lg) - m.prev_idx + 1}
    BY Zenon
  <2>2. S \in SUBSET Nat /\ S # {} /\ \A x \in S : x > 0
    BY <1>0, <1>1, <2>1 DEF Conflicts
  <2>3. first \in S /\ \A y \in S : first <= y
    BY Zenon, <1>0, <2>1, <2>2, MinFound
  <2>4. first \in Nat /\ first > 0
    BY Zenon, <2>2, <2>3
  <2>5. \A y : y \in S <=> y \in Conflicts(lg, m) \/ y = Len(lg) - prev + 1
    BY Zenon, <1>0, <2>1
  <2>6. first \in Conflicts(lg, m) \/ first = Len(lg) - prev + 1
    BY Zenon, <2>3, <2>5
  <2>7. first <= Len(lg) - prev + 1 /\ \A y \in Conflicts(lg, m) : first <= y
    BY Zenon, <2>3, <2>5
  <2> QED
    BY <2>4, <2>6, <2>7
<1>3. Agree(lg, L, prev)
  BY <1>0, <1>1, PrevAgrees
<1>4. ASSUME NEW j \in 1 .. N, j < first PROVE Agree(lg, L, prev + j)
  <2>1. j \notin Conflicts(lg, m) /\ prev + j \in 1 .. Len(lg)
    BY <1>1, <1>2, <1>4
  <2>2. lg[prev + j].term = es[j].term
    BY Zenon, <1>0, <1>1, <2>1 DEF Conflicts, HasEntry
  <2>3. prev + j <= Len(L) /\ lg[prev + j].term = L[prev + j].term
    BY <1>1, <2>2
  <2> QED
    BY Zenon, <2>1, <2>3, LogMatching
<1>5. ASSUME NEW j \in 0 .. N, j < first PROVE Agree(lg, L, prev + j)
  <2>1. CASE j = 0
    BY <1>1, <1>3, <2>1
  <2>2. CASE j # 0
    BY <1>4, <1>5, <2>2
  <2> QED
    BY Zenon, <2>1, <2>2
<1>6. CASE first > N
  <2>1. Merged(lg, m) = lg
    BY Zenon, <1>0, <1>6 DEF Merged
  <2>2. Agree(lg, L, prev + N)
    BY <1>1, <1>5, <1>6
  <2> QED
    BY Zenon, <1>0, <2>1, <2>2
<1>7. CASE ~ (first > N)
  <2>0. first \in 1 .. N /\ prev + first - 1 \in 0 .. Len(lg)
    BY <1>1, <1>2, <1>7
  <2>1. PICK k : k = prev + first - 1
    BY Zenon
  <2>2. /\ k \in Nat /\ k <= Len(lg) /\ k + (N - first + 1) = prev + N
        /\ first \in Nat \ {0} /\ first <= Len(es) + 1 /\ k = prev + (first - 1)
    BY <1>1, <2>0, <2>1
  <2>3. PICK a, b : a = SubSeq(lg, 1, k) /\ b = SubSeq(es, first, Len(es))
    BY Zenon
  <2>a. a \in Seq(Entry) /\ Len(a) = k /\ \A x \in 1 .. k : a[x] = lg[x]
    BY Zenon, <2>2, <2>3, PrefixSeq
  <2>b. /\ b \in Seq(Entry) /\ Len(b) = N - first + 1
        /\ \A x \in 1 .. N - first + 1 : b[x] = es[first + x - 1]
    BY Zenon, <1>1, <2>2, <2>3, RestSeq
  <2>c. PICK c \in Seq(Entry) : /\ c = a \o b /\ Len(c) = Len(a) + Len(b)
                                /\ \A x \in 1 .. Len(a) : c[x] = a[x]
                                /\ \A x \in 1 .. Len(b) : c[Len(a) + x] = b[x]
    BY Zenon, <2>a, <2>b, ConcatSeq
  <2>4. Merged(lg, m) = c
    BY Zenon, <1>0, <1>7, <2>1, <2>3, <2>c DEF Merged
  <2>5. c \in Seq(Entry) /\ Len(c) = prev + N
    BY Zenon, <2>2, <2>a, <2>b, <2>c
  <2>6. ASSUME NEW x \in 1 .. prev + N PROVE c[x] = L[x]
    <3>1. CASE x <= k
      <4>1. Agree(lg, L, k)
        <5>1. PICK j : j = first - 1
          BY Zenon
        <5>2. j \in 0 .. N /\ j < first /\ k = prev + j
          BY <1>1, <2>0, <2>2, <5>1
        <5> QED
          BY Zenon, <1>5, <5>2
      <4>2. x \in 1 .. k
        BY <3>1, <2>2
      <4>3. lg[x] = L[x]
        BY Zenon, <4>1, <4>2 DEF Agree
      <4> QED
        BY Zenon, <2>c, <2>a, <4>2, <4>3
    <3>2. CASE ~ (x <= k)
      <4>1. PICK y : y = x - k
        BY Zenon
      <4>2. /\ y \in 1 .. N - first + 1 /\ first + y - 1 = x - prev /\ k + y = x
            /\ x - prev \in 1 .. N
        BY <1>1, <2>0, <2>1, <3>2, <4>1
      <4>3. c[x] = b[y]
        BY Zenon, <2>c, <2>a, <2>b, <4>2
      <4>4. b[y] = es[x - prev] /\ es[x - prev] = L[prev + (x - prev)]
        BY Zenon, <1>1, <2>b, <4>2
      <4>5. prev + (x - prev) = x
        BY <1>1
      <4> QED
        BY Zenon, <4>3, <4>4, <4>5
    <3> QED
      BY Zenon, <3>1, <3>2
  <2>7. Agree(c, L, prev + N)
    <3>1. prev + N <= Len(c) /\ prev + N <= Len(L)
      BY <1>1, <2>5
    <3> QED
      BY Zenon, <2>6, <3>1 DEF Agree
  <2>8. ASSUME NEW n \in Nat, Agree(lg, L, n) PROVE n <= prev + N
    <3>1. CASE first = Len(lg) - prev + 1
      BY <1>1, <2>0, <2>8, <3>1 DEF Agree
    <3>2. CASE first \in Conflicts(lg, m)
      <4>1. prev + first \in 1 .. Len(lg) /\ lg[prev + first].term # es[first].term
        BY Zenon, <1>0, <3>2 DEF Conflicts, HasEntry
      <4>2. lg[prev + first] # L[prev + first]
        BY Zenon, <1>1, <2>0, <4>1
      <4>3. ~ (prev + first <= n)
        BY <1>1, <2>0, <2>8, <4>1, <4>2 DEF Agree
      <4> QED
        BY <1>1, <2>0, <4>3
    <3> QED
      BY Zenon, <1>2, <3>1, <3>2
  <2> QED
    BY Zenon, <1>0, <2>4, <2>5, <2>7, <2>8
<1> QED
  BY Zenon, <1>6, <1>7

-------------------------------------------------------------------------------
(* No step changes the past.                                               *)

Forward(h, h2) ==
    /\ \A s \in Servers : current_term[s] <= current_term'[s]
    /\ \A T \in Nat : /\ Elected(h, T) => h2.lead[T] = h.lead[T]
                      /\ Agree(h2.llog[T], h.llog[T], Len(h.llog[T]))
    /\ \A p \in Servers, T \in Nat :
          /\ h.vote[p][T] # None => h2.vote[p][T] = h.vote[p][T]
          /\ h.acc[p][T] <= h2.acc[p][T]
          /\ h2.acc[p][T] # h.acc[p][T] => T = current_term'[p]

TermsInv == current_term \in [Servers -> Nat]

LEMMA LogsGrow ==
    ASSUME NEW h \in Hist, NEW h2 \in Hist, Forward(h, h2), NEW T \in Nat, NEW n \in Nat,
           NEW a \in Seq(Entry), Agree(a, h.llog[T], n)
    PROVE  Agree(a, h2.llog[T], n) /\ Agree(h2.llog[T], h.llog[T], n)
<1>1. h.llog[T] \in Seq(Entry) /\ h2.llog[T] \in Seq(Entry)
  BY Zenon, HistTypes
<1>2. Agree(h2.llog[T], h.llog[T], Len(h.llog[T]))
  BY Zenon DEF Forward
<1>3. n <= Len(h.llog[T]) /\ Len(h.llog[T]) \in Nat
  BY <1>1 DEF Agree
<1>4. Agree(h2.llog[T], h.llog[T], n)
  BY Zenon, <1>1, <1>2, <1>3, AgreeLess
<1> QED
  BY Zenon, <1>4, AgreeSym, AgreeTrans

LEMMA FollowsStays ==
    ASSUME NEW h \in Hist, NEW h2 \in Hist, Forward(h, h2), NEW a \in Seq(Entry), Follows(h, a)
    PROVE  Follows(h2, a)
<1> SUFFICES ASSUME NEW i \in 1 .. Len(a)
             PROVE  Elected(h2, a[i].term) /\ Agree(a, h2.llog[a[i].term], i)
  BY Zenon DEF Follows
<1>1. PICK T : T = a[i].term
  BY Zenon
<1>2. a[i] \in Entry
  OBVIOUS
<1>3. T \in Nat /\ i \in Nat
  BY <1>1, <1>2 DEF Entry
<1>4. Elected(h, T) /\ Agree(a, h.llog[T], i)
  BY Zenon, <1>1 DEF Follows
<1>5. Elected(h2, T)
  BY Zenon, <1>3, <1>4 DEF Forward, Elected
<1> QED
  BY Zenon, <1>1, <1>3, <1>4, <1>5, LogsGrow

LEMMA OwnStays ==
    ASSUME NEW h \in Hist, NEW h2 \in Hist, Forward(h, h2), NEW T \in Nat, NEW i \in Nat,
           Own(h, T, i)
    PROVE  Own(h2, T, i) /\ Agree(h2.llog[T], h.llog[T], i)
<1>1. h.llog[T] \in Seq(Entry) /\ h2.llog[T] \in Seq(Entry)
  BY Zenon, HistTypes
<1>2. i \in 1 .. Len(h.llog[T]) /\ h.llog[T][i].term = T
  BY Zenon DEF Own
<1>3. Agree(h2.llog[T], h.llog[T], i)
  BY <1>1, <1>2, AgreeSelf, LogsGrow
<1>4. i \in 1 .. Len(h2.llog[T]) /\ h2.llog[T][i] = h.llog[T][i]
  BY <1>1, <1>2, <1>3 DEF Agree
<1> QED
  BY Zenon, <1>2, <1>3, <1>4 DEF Own

(* An entry that can no longer be chosen stays so ...                      *)
LEMMA BlockedStays ==
    ASSUME NEW h \in Hist, NEW h2 \in Hist, Forward(h, h2), TermsInv, TermsInv',
           NEW T \in Nat, NEW i \in Nat, Blocked(h, T, i)
    PROVE  Blocked(h2, T, i)'
<1>1. PICK Q \in Quorums : \A p \in Q : current_term[p] > T /\ h.acc[p][T] < i
  BY Zenon DEF Blocked
<1>2. Q \subseteq Servers
  BY Zenon DEF Quorums
<1>3. ASSUME NEW p \in Q PROVE current_term'[p] > T /\ h2.acc[p][T] < i
  <2>1. current_term[p] > T /\ h.acc[p][T] < i /\ p \in Servers
    BY Zenon, <1>1, <1>2
  <2>2. current_term[p] \in Nat /\ current_term'[p] \in Nat /\ current_term[p] <= current_term'[p]
    BY Zenon, <2>1 DEF TermsInv, Forward
  <2>3. current_term'[p] > T /\ T # current_term'[p]
    BY <2>1, <2>2
  <2>4. h2.acc[p][T] = h.acc[p][T]
    BY Zenon, <2>1, <2>3 DEF Forward
  <2> QED
    BY Zenon, <2>1, <2>3, <2>4
<1> QED
  BY Zenon, <1>3 DEF Blocked

(* ... and so does a chosen one.                                           *)
LEMMA ChosenStays ==
    ASSUME NEW h \in Hist, NEW h2 \in Hist, Forward(h, h2), NEW T \in Nat, NEW i \in Nat,
           Chosen(h, T, i)
    PROVE  Chosen(h2, T, i)
<1>1. PICK Q \in Quorums : \A p \in Q : i <= h.acc[p][T]
  BY Zenon DEF Chosen
<1>2. Q \subseteq Servers
  BY Zenon DEF Quorums
<1>3. ASSUME NEW p \in Q PROVE i <= h2.acc[p][T]
  <2>1. i <= h.acc[p][T] /\ h.acc[p][T] <= h2.acc[p][T]
    BY Zenon, <1>1, <1>2 DEF Forward
  <2>2. h.acc[p][T] \in Nat /\ h2.acc[p][T] \in Nat
    BY Zenon, <1>2, HistTypes
  <2> QED
    BY <2>1, <2>2
<1>4. Own(h2, T, i)
  BY Zenon, OwnStays DEF Chosen
<1> QED
  BY Zenon, <1>3, <1>4 DEF Chosen

LEMMA ChosenNotBlocked ==
    ASSUME NEW h \in Hist, NEW T \in Nat, NEW i \in Nat, Chosen(h, T, i)
    PROVE  ~ Blocked(h, T, i)
<1> SUFFICES ASSUME Blocked(h, T, i) PROVE FALSE
  BY Zenon
<1>1. PICK Q \in Quorums : \A p \in Q : i <= h.acc[p][T]
  BY Zenon DEF Chosen
<1>2. PICK R \in Quorums : \A p \in R : h.acc[p][T] < i
  BY Zenon DEF Blocked
<1>3. PICK p \in Servers : p \in Q /\ p \in R
  BY Zenon, QuorumsMeet
<1>4. i <= h.acc[p][T] /\ h.acc[p][T] < i /\ h.acc[p][T] \in Nat
  BY Zenon, <1>1, <1>2, <1>3, HistTypes
<1> QED
  BY <1>4

LEMMA ChosenPrefixStays ==
    ASSUME NEW h \in Hist, NEW h2 \in Hist, Forward(h, h2), NEW a \in Seq(Entry), NEW c \in Nat,
           NEW T \in Nat, NEW T2 \in Nat, T <= T2, ChosenPrefix(h, a, c, T)
    PROVE  ChosenPrefix(h2, a, c, T2)
<1>1. CASE c = 0
  BY Zenon, <1>1 DEF ChosenPrefix
<1>2. CASE c # 0
  <2>1. PICK U, i \in Nat : U <= T /\ c <= i /\ Chosen(h, U, i) /\ Agree(a, h.llog[U], c)
    BY Zenon, <1>2 DEF ChosenPrefix
  <2>2. U <= T2 /\ Chosen(h2, U, i) /\ Agree(a, h2.llog[U], c)
    BY <2>1, ChosenStays, LogsGrow
  <2> QED
    BY Zenon, <2>1, <2>2 DEF ChosenPrefix
<1> QED
  BY Zenon, <1>1, <1>2

(* What was true of a message on its way stays true.                       *)
LEMMA AppendStays ==
    ASSUME NEW h \in Hist, NEW h2 \in Hist, Forward(h, h2), NEW m, Message(m),
           AppendMsg(h, m), CommitMsg(h, m), m.type = "ae"
    PROVE  AppendMsg(h2, m) /\ CommitMsg(h2, m)
<1>1. PICK T, k, N, es : T = m.term /\ k = m.prev_idx /\ N = Len(m.entries) /\ es = m.entries
  BY Zenon
<1>2. /\ m.from \in Servers /\ T \in Nat /\ k \in Nat /\ N \in Nat /\ m.commit \in Nat
      /\ m.prev_term \in Nat
  BY <1>1 DEF Message
<1>3. PICK a, b : a = h.llog[T] /\ b = h2.llog[T]
  BY Zenon
<1>4. a \in Seq(Entry) /\ b \in Seq(Entry)
  BY Zenon, <1>2, <1>3, HistTypes
<1>5. /\ h.lead[T] = m.from /\ k + N <= Len(a) /\ m.prev_term = TermAt(a, k)
      /\ \A i \in 1 .. N : es[i] = a[k + i]
  BY Zenon, <1>1, <1>3 DEF AppendMsg
<1>6. Agree(b, a, Len(a))
  BY Zenon, <1>2, <1>3 DEF Forward
<1>7. Len(a) <= Len(b) /\ \A j \in 1 .. Len(a) : b[j] = a[j]
  BY Zenon, <1>6 DEF Agree
<1>8. k + N <= Len(b) /\ \A i \in 1 .. N : es[i] = b[k + i]
  <2>1. \A i \in 1 .. N : k + i \in 1 .. Len(a)
    BY <1>2, <1>4, <1>5
  <2> QED
    BY <1>2, <1>4, <1>5, <1>7, <2>1
<1>9. TermAt(b, k) = TermAt(a, k)
  BY <1>2, <1>4, <1>5, <1>7 DEF TermAt, HasEntry
<1>10. h2.lead[T] = m.from
  BY <1>2, <1>5, ServerAssumption DEF Forward, Elected
<1>11. AppendMsg(h2, m)
  BY Zenon, <1>1, <1>3, <1>5, <1>8, <1>9, <1>10 DEF AppendMsg
<1>12. ChosenPrefix(h2, a, m.commit, T)
  BY <1>1, <1>2, <1>3, <1>4, ChosenPrefixStays DEF CommitMsg
<1>13. ChosenPrefix(h2, b, m.commit, T)
  <2>1. CASE m.commit = 0
    BY Zenon, <2>1 DEF ChosenPrefix
  <2>2. CASE m.commit # 0
    <3>1. PICK U, i \in Nat : /\ U <= T /\ m.commit <= i /\ Chosen(h2, U, i)
                              /\ Agree(a, h2.llog[U], m.commit)
      BY Zenon, <1>12, <2>2 DEF ChosenPrefix
    <3>2. m.commit <= Len(a)
      BY Zenon, <3>1 DEF Agree
    <3>3. Agree(b, a, m.commit)
      BY <1>2, <1>4, <1>6, <3>2, AgreeLess
    <3>4. Agree(b, h2.llog[U], m.commit)
      BY Zenon, <3>1, <3>3, AgreeTrans
    <3> QED
      BY Zenon, <3>1, <3>4 DEF ChosenPrefix
  <2> QED
    BY Zenon, <2>1, <2>2
<1> QED
  BY Zenon, <1>1, <1>3, <1>11, <1>13 DEF CommitMsg

MsgInv(h, m) ==
    VoteMsg(h, m) /\ AppendMsg(h, m) /\ RequestMsg(m) /\ AckMsg(h, m) /\ CommitMsg(h, m)

(* Candidates do not change their logs.                                    *)
Candidates ==
    \A s \in Servers : state'[s] = "candidate" /\ current_term'[s] = current_term[s] =>
        state[s] = "candidate" /\ log'[s] = log[s]

LEMMA MessageTypes ==
    ASSUME NEW m, Message(m)
    PROVE  m.from \in Servers /\ m.to \in Servers /\ m.to # m.from /\ m.term \in Nat
<1>1. m.from \in Servers /\ m.to \in Peers(m.from) /\ m.term \in 0 .. elections
  BY Zenon DEF Message
<1>2. m.term \in Nat
  BY <1>1
<1> QED
  BY Zenon, <1>1, <1>2 DEF Peers

LEMMA MsgsStep ==
    ASSUME NEW h \in Hist, NEW h2 \in Hist, Forward(h, h2), TypeInv, TypeInv', Candidates,
           \A m \in msgs : MsgInv(h, m),
           \A m \in msgs' : m \in msgs \/ MsgInv(h2, m)'
    PROVE  \A m \in msgs' : MsgInv(h2, m)'
<1> SUFFICES ASSUME NEW m \in msgs PROVE MsgInv(h2, m)'
  BY Zenon
<1>1. Message(m) /\ MsgInv(h, m)
  BY Zenon DEF TypeInv
<1>2. m.from \in Servers /\ m.to \in Servers /\ m.term \in Nat
  BY Zenon, <1>1, MessageTypes
<1>3. VoteMsg(h2, m)
  BY <1>1, <1>2, ServerAssumption DEF MsgInv, VoteMsg, Forward
<1>4. AckMsg(h2, m)
  <2>1. /\ h.acc[m.from][m.term] \in Nat /\ h2.acc[m.from][m.term] \in Nat
        /\ h.acc[m.from][m.term] <= h2.acc[m.from][m.term]
    BY Zenon, <1>2, HistTypes DEF Forward
  <2> QED
    BY <1>1, <2>1 DEF MsgInv, AckMsg, Message
<1>5. AppendMsg(h2, m) /\ CommitMsg(h2, m)
  BY Zenon, <1>1, AppendStays DEF MsgInv, AppendMsg, CommitMsg
<1>6. RequestMsg(m)'
  <2>1. /\ current_term[m.from] \in Nat /\ current_term'[m.from] \in Nat
        /\ current_term[m.from] <= current_term'[m.from]
    BY Zenon, <1>2 DEF TypeInv, Forward
  <2>2. CASE m.type = "rv"
    <3>1. m.term <= current_term[m.from] /\ RequestMsg(m)
      BY Zenon, <1>1, <2>2 DEF MsgInv, RequestMsg
    <3>2. m.term <= current_term'[m.from]
      BY <1>2, <2>1, <3>1
    <3>3. ASSUME m.term = current_term'[m.from], state'[m.from] = "candidate"
          PROVE  m.last_idx = Len(log'[m.from]) /\ m.last_term = LastTerm(log'[m.from])
      <4>1. current_term'[m.from] = current_term[m.from]
        BY <1>2, <2>1, <3>1, <3>3
      <4>2. state[m.from] = "candidate" /\ log'[m.from] = log[m.from]
        BY Zenon, <1>2, <3>3, <4>1 DEF Candidates
      <4> QED
        BY Zenon, <2>2, <3>1, <3>3, <4>1, <4>2 DEF RequestMsg
    <3> QED
      BY Zenon, <3>2, <3>3 DEF RequestMsg
  <2> QED
    BY Zenon, <2>2 DEF RequestMsg
<1>7. VoteMsg(h2, m)' /\ AckMsg(h2, m)' /\ AppendMsg(h2, m)' /\ CommitMsg(h2, m)'
  BY Zenon, <1>3, <1>4, <1>5 DEF VoteMsg, AckMsg, AppendMsg, CommitMsg
<1> QED
  BY Zenon, <1>6, <1>7 DEF MsgInv

-------------------------------------------------------------------------------
(* Steps in which no leader is elected and no leader's log grows: what has *)
(* to be shown of each server, for each part of the invariant.             *)

(* The server takes over (a part of) the log of the leader of its term.    *)
Adopts(h, s) ==
    /\ state'[s] = "follower" /\ Elected(h, current_term'[s])
    /\ Follows(h, log'[s])
    /\ \A i \in 1 .. Len(log'[s]) : log'[s][i].term <= current_term'[s]
    /\ \A n \in Nat : Agree(log[s], h.llog[current_term'[s]], n) =>
                      Agree(log'[s], h.llog[current_term'[s]], n)

Role(s) ==
    \/ state'[s] = state[s] /\ current_term'[s] = current_term[s]
    \/ state'[s] = "follower"
    \/ state'[s] = "candidate" /\ current_term[s] < current_term'[s]

Regular(h, h2) ==
    /\ h2.lead = h.lead /\ h2.llog = h.llog
    /\ \A s \in Servers : Role(s) /\ (log'[s] = log[s] \/ Adopts(h, s))

LEMMA RegularCandidates ==
    ASSUME TypeInv, TypeInv', NEW h, NEW h2, Regular(h, h2) PROVE Candidates
<1> SUFFICES ASSUME NEW s \in Servers, state'[s] = "candidate", current_term'[s] = current_term[s]
             PROVE  state[s] = "candidate" /\ log'[s] = log[s]
  BY Zenon DEF Candidates
<1>1. current_term[s] \in Nat
  BY Zenon DEF TypeInv
<1> QED
  BY <1>1 DEF Regular, Role, Adopts

LEMMA LogStep ==
    ASSUME NEW h \in Hist, NEW h2 \in Hist, Forward(h, h2), TypeInv, TypeInv', LogInv(h),
           Regular(h, h2), \A m \in msgs' : MsgInv(h2, m)',
           \A s \in Servers : state'[s] = "leader" =>
              \A p \in Peers(s) : next_idx'[s][p] <= Len(log[s]) + 1
    PROVE  LogInv(h2)'
<1>0. /\ log \in [Servers -> Seq(Entry)] /\ log' \in [Servers -> Seq(Entry)]
      /\ current_term \in [Servers -> Nat] /\ current_term' \in [Servers -> Nat]
  BY Zenon DEF TypeInv
<1>1. ASSUME NEW T \in Nat
      PROVE  IF Elected(h2, T) THEN LeaderLog(h2, T)' ELSE h2.llog[T] = <<>>
  <2>1. h2.llog[T] = h.llog[T] /\ h.llog[T] \in Seq(Entry) /\ Elected(h2, T) = Elected(h, T)
    BY Zenon, HistTypes DEF Regular, Elected
  <2>2. CASE Elected(h, T)
    <3>1. LeaderLog(h, T)
      BY Zenon, <2>2 DEF LogInv
    <3>2. Follows(h2, h.llog[T])
      BY Zenon, <2>1, <3>1, FollowsStays DEF LeaderLog
    <3> QED
      BY Zenon, <2>1, <2>2, <3>1, <3>2 DEF LeaderLog
  <2>3. CASE ~ Elected(h, T)
    BY Zenon, <2>1, <2>3 DEF LogInv
  <2> QED
    BY Zenon, <2>2, <2>3
<1>2. ASSUME NEW s \in Servers PROVE Follows(h2, log'[s])
  <2>1. Follows(h, log'[s]) /\ log'[s] \in Seq(Entry)
    BY Zenon, <1>0 DEF LogInv, Regular, Adopts
  <2> QED
    BY Zenon, <2>1, FollowsStays
<1>3. ASSUME NEW s \in Servers, state'[s] = "leader"
      PROVE  /\ log'[s] = h2.llog[current_term'[s]]
             /\ \A p \in Peers(s) : next_idx'[s][p] <= Len(log'[s]) + 1
  <2>1. state[s] = "leader" /\ current_term'[s] = current_term[s] /\ log'[s] = log[s]
    BY Zenon, <1>3 DEF Regular, Role, Adopts
  <2> QED
    BY Zenon, <1>3, <2>1 DEF LogInv, Regular
<1>4. ASSUME NEW s \in Servers, NEW i \in 1 .. Len(log'[s])
      PROVE  /\ log'[s][i].term <= current_term'[s]
             /\ state'[s] = "candidate" => log'[s][i].term < current_term'[s]
  <2>1. CASE Adopts(h, s)
    BY Zenon, <2>1 DEF Adopts
  <2>2. CASE log'[s] = log[s]
    <3>1. /\ current_term[s] \in Nat /\ current_term'[s] \in Nat
          /\ current_term[s] <= current_term'[s]
      BY Zenon, <1>0 DEF Forward
    <3>2. log[s][i] \in Entry
      BY <1>0, <2>2
    <3>3. log[s][i].term \in Nat
      BY Zenon, <3>2 DEF Entry
    <3>4. /\ log[s][i].term <= current_term[s]
          /\ state[s] = "candidate" => log[s][i].term < current_term[s]
      BY Zenon, <2>2 DEF LogInv
    <3>5. Role(s)
      BY Zenon DEF Regular
    <3> QED
      BY <2>2, <3>1, <3>3, <3>4, <3>5 DEF Role
  <2> QED
    BY Zenon, <2>1, <2>2 DEF Regular
<1>5. \A m \in msgs' : AppendMsg(h2, m)' /\ RequestMsg(m)'
  BY Zenon DEF MsgInv
<1> QED
  BY Zenon, <1>1, <1>2, <1>3, <1>4, <1>5 DEF LogInv

LEMMA AckStep ==
    ASSUME NEW h \in Hist, NEW h2 \in Hist, Forward(h, h2), TypeInv, TypeInv', LogInv(h), AckInv(h),
           Regular(h, h2), \A m \in msgs' : MsgInv(h2, m)',
           \A p \in Servers, T \in Nat :
              \/ h2.acc[p][T] = h.acc[p][T]
              \/ /\ T = current_term'[p] /\ Elected(h, T)
                 /\ Agree(log'[p], h.llog[T], h2.acc[p][T]),
           \A s \in Servers : state'[s] = "leader" =>
              \A p \in Peers(s) : match_idx'[s][p] <= h2.acc[p][current_term[s]]
    PROVE  AckInv(h2)'
<1>0. /\ log \in [Servers -> Seq(Entry)] /\ log' \in [Servers -> Seq(Entry)]
      /\ current_term \in [Servers -> Nat] /\ current_term' \in [Servers -> Nat]
  BY Zenon DEF TypeInv
<1>1. ASSUME NEW p \in Servers, NEW T \in Nat
      PROVE  /\ h2.acc[p][T] > 0 => Elected(h2, T) /\ T <= current_term'[p]
             /\ h2.acc[p][T] <= Len(h2.llog[T])
  <2>1. h2.llog[T] = h.llog[T] /\ Elected(h2, T) = Elected(h, T)
    BY Zenon DEF Regular, Elected
  <2>2. CASE h2.acc[p][T] = h.acc[p][T]
    <3>1. current_term[p] <= current_term'[p] /\ current_term[p] \in Nat /\ current_term'[p] \in Nat
      BY Zenon, <1>0 DEF Forward
    <3>2. /\ h.acc[p][T] > 0 => Elected(h, T) /\ T <= current_term[p]
          /\ h.acc[p][T] <= Len(h.llog[T])
      BY Zenon DEF AckInv
    <3> QED
      BY <2>1, <2>2, <3>1, <3>2
  <2>3. CASE /\ T = current_term'[p] /\ Elected(h, T)
             /\ Agree(log'[p], h.llog[T], h2.acc[p][T])
    BY <2>1, <2>3 DEF Agree
  <2> QED
    BY Zenon, <2>2, <2>3
<1>2. ASSUME NEW p \in Servers
      PROVE  Agree(log'[p], h2.llog[current_term'[p]], h2.acc[p][current_term'[p]])
  <2>1. PICK T, n : T = current_term'[p] /\ n = h2.acc[p][T]
    BY Zenon
  <2>2. /\ T \in Nat /\ n \in Nat /\ h2.llog[T] = h.llog[T] /\ h.llog[T] \in Seq(Entry)
        /\ current_term[p] \in Nat /\ current_term[p] <= T /\ log'[p] \in Seq(Entry)
    BY Zenon, <1>0, <2>1, HistTypes DEF Regular, Forward
  <2>3. CASE Agree(log'[p], h.llog[T], h2.acc[p][T])
    BY Zenon, <2>1, <2>2, <2>3
  <2>4. CASE h2.acc[p][T] = h.acc[p][T]
    <3>1. CASE current_term[p] = T
      <4>1. Agree(log[p], h.llog[T], n)
        BY Zenon, <2>1, <2>4, <3>1 DEF AckInv
      <4>2. Agree(log'[p], h.llog[T], n)
        BY Zenon, <2>1, <2>2, <4>1 DEF Regular, Adopts
      <4> QED
        BY Zenon, <2>1, <2>2, <4>2
    <3>2. CASE current_term[p] # T
      <4>1. ~ (T <= current_term[p])
        BY <2>2, <3>2
      <4>2. n = 0
        BY <2>1, <2>2, <2>4, <4>1 DEF AckInv
      <4> QED
        BY Zenon, <2>1, <2>2, <4>2, AgreeZero
    <3> QED
      BY Zenon, <3>1, <3>2
  <2> QED
    BY Zenon, <2>1, <2>2, <2>3, <2>4
<1>3. ASSUME NEW s \in Servers, state'[s] = "leader"
      PROVE  /\ \A p \in Peers(s) : match_idx'[s][p] <= h2.acc[p][current_term'[s]]
             /\ \A i \in 1 .. Len(log'[s]) : log'[s][i].term = current_term'[s] =>
                   i <= h2.acc[s][current_term'[s]]
  <2>1. state[s] = "leader" /\ current_term'[s] = current_term[s] /\ log'[s] = log[s]
    BY Zenon, <1>3 DEF Regular, Role, Adopts
  <2>2. PICK T : T = current_term[s]
    BY Zenon
  <2>3. h.acc[s][T] \in Nat /\ h2.acc[s][T] \in Nat /\ h.acc[s][T] <= h2.acc[s][T]
    BY Zenon, <1>0, <2>2, HistTypes DEF Forward
  <2>4. \A i \in 1 .. Len(log[s]) : log[s][i].term = T => i <= h.acc[s][T]
    BY Zenon, <2>1, <2>2 DEF AckInv
  <2>5. \A i \in 1 .. Len(log[s]) : log[s][i].term = T => i <= h2.acc[s][T]
    BY <1>0, <2>3, <2>4
  <2> QED
    BY Zenon, <1>3, <2>1, <2>2, <2>5
<1>4. \A m \in msgs' : AckMsg(h2, m)'
  BY Zenon DEF MsgInv
<1> QED
  BY Zenon, <1>1, <1>2, <1>3, <1>4 DEF AckInv

(* A server that takes over the leader's log keeps what it had stored for  *)
(* an earlier leader, unless that is blocked.                              *)
LEMMA AdoptsKeeps ==
    ASSUME NEW h \in Hist, TypeInv, TypeInv', NEW s \in Servers, Adopts(h, s),
           NEW T \in Nat, NEW i \in Nat, NEW c \in Nat, c <= i, Kept(h, T, i),
           T <= current_term'[s], Agree(log[s], h.llog[T], c)
    PROVE  Agree(log'[s], h.llog[T], c)
<1>1. PICK V : V = current_term'[s]
  BY Zenon
<1>2. V \in Nat /\ T <= V /\ log[s] \in Seq(Entry) /\ log'[s] \in Seq(Entry)
  BY Zenon, <1>1 DEF TypeInv
<1>3. h.llog[T] \in Seq(Entry) /\ h.llog[V] \in Seq(Entry)
  BY Zenon, <1>2, HistTypes
<1>4. /\ Elected(h, V)
      /\ \A n \in Nat : Agree(log[s], h.llog[V], n) => Agree(log'[s], h.llog[V], n)
  BY Zenon, <1>1 DEF Adopts
<1>5. CASE T = V
  BY Zenon, <1>4, <1>5
<1>6. CASE T # V
  <2>1. T < V
    BY <1>2, <1>6
  <2>2. Agree(h.llog[V], h.llog[T], i)
    BY Zenon, <1>2, <1>4, <2>1 DEF Kept
  <2>3. Agree(h.llog[V], h.llog[T], c)
    BY Zenon, <1>3, <2>2, AgreeLess
  <2>4. Agree(log[s], h.llog[V], c)
    BY Zenon, <1>2, <1>3, <2>3, AgreeSym, AgreeTrans
  <2>5. Agree(log'[s], h.llog[V], c)
    BY Zenon, <1>4, <2>4
  <2> QED
    BY Zenon, <1>2, <1>3, <2>3, <2>5, AgreeTrans
<1> QED
  BY Zenon, <1>5, <1>6

LEMMA KeepStep ==
    ASSUME NEW h \in Hist, NEW h2 \in Hist, Forward(h, h2), TypeInv, TypeInv', AckInv(h),
           KeepInv(h), Regular(h, h2),
           \A p \in Servers, T \in Nat : h2.vote[p][T] # None => T <= current_term'[p],
           \A p \in Servers, T \in Nat :
              \/ h2.acc[p][T] = h.acc[p][T]
              \/ /\ T = current_term'[p] /\ Elected(h, T)
                 /\ Agree(log'[p], h.llog[T], h2.acc[p][T]),
           \A s, p \in Servers : state'[s] = "candidate" /\ h2.vote[p][current_term'[s]] = s =>
              \/ /\ state[s] = "candidate" /\ current_term'[s] = current_term[s]
                 /\ h.vote[p][current_term[s]] = s
              \/ \A T, i \in Nat :
                    T < current_term'[s] /\ Own(h, T, i) /\ Kept(h, T, i) /\ i <= h.acc[p][T] =>
                        Agree(log[s], h.llog[T], i)
    PROVE  KeepInv(h2)'
<1> SUFFICES ASSUME NEW T \in Nat, NEW i \in Nat, Own(h2, T, i)
             PROVE  Blocked(h2, T, i)' \/ Kept(h2, T, i)'
  BY Zenon DEF KeepInv, Own
<1>1. h2.llog = h.llog /\ h2.lead = h.lead
  BY Zenon DEF Regular
<1>2. Own(h, T, i) /\ i >= 1 /\ h.llog[T] \in Seq(Entry)
  BY <1>1, HistTypes DEF Own
<1>3. CASE Blocked(h, T, i)
  <2>1. TermsInv /\ TermsInv'
    BY Zenon DEF TypeInv, TermsInv
  <2> QED
    BY Zenon, <1>3, <2>1, BlockedStays
<1>4. CASE Kept(h, T, i)
  <2>1. ASSUME NEW U \in Nat, T < U, Elected(h2, U) PROVE Agree(h2.llog[U], h2.llog[T], i)
    BY Zenon, <1>1, <1>4, <2>1 DEF Kept, Elected
  <2>2. ASSUME NEW p \in Servers, i <= h2.acc[p][T] PROVE Agree(log'[p], h2.llog[T], i)
    <3>0. log[p] \in Seq(Entry) /\ log'[p] \in Seq(Entry) /\ h2.acc[p][T] \in Nat /\ h.acc[p][T] \in Nat
      BY Zenon, HistTypes DEF TypeInv
    <3>1. CASE Agree(log'[p], h.llog[T], h2.acc[p][T])
      BY Zenon, <1>1, <1>2, <2>2, <3>0, <3>1, AgreeLess
    <3>2. CASE h2.acc[p][T] = h.acc[p][T]
      <4>1. Agree(log[p], h.llog[T], i)
        BY Zenon, <1>4, <2>2, <3>2 DEF Kept
      <4>2. T <= current_term[p]
        <5>1. h.acc[p][T] > 0
          BY <1>2, <2>2, <3>0, <3>2
        <5> QED
          BY Zenon, <5>1 DEF AckInv
      <4>3. T <= current_term'[p]
        <5>1. /\ current_term[p] \in Nat /\ current_term'[p] \in Nat
              /\ current_term[p] <= current_term'[p]
          BY DEF TypeInv, Forward
        <5> QED
          BY <4>2, <5>1
      <4>4. CASE log'[p] = log[p]
        BY Zenon, <1>1, <4>1, <4>4
      <4>5. CASE Adopts(h, p)
        BY <1>1, <1>4, <4>1, <4>3, <4>5, AdoptsKeeps
      <4> QED
        BY Zenon, <4>4, <4>5 DEF Regular
    <3> QED
      BY Zenon, <3>1, <3>2
  <2>3. ASSUME NEW s \in Servers, NEW p \in Servers, state'[s] = "candidate", T < current_term'[s],
               h2.vote[p][current_term'[s]] = s, i <= h2.acc[p][T]
        PROVE  Agree(log'[s], h2.llog[T], i)
    <3>1. log'[s] = log[s]
      BY Zenon, <2>3 DEF Regular, Adopts
    <3>2. /\ current_term'[s] \in Nat /\ current_term'[p] \in Nat
      BY Zenon DEF TypeInv
    <3>3. current_term'[s] <= current_term'[p]
      BY <2>3, <3>2, ServerAssumption
    <3>4. T # current_term'[p]
      BY <2>3, <3>2, <3>3
    <3>5. i <= h.acc[p][T]
      BY Zenon, <2>3, <3>4
    <3>6. CASE /\ state[s] = "candidate" /\ current_term'[s] = current_term[s]
               /\ h.vote[p][current_term[s]] = s
      BY Zenon, <1>1, <1>4, <2>3, <3>1, <3>5, <3>6 DEF Kept
    <3>7. CASE ~ (/\ state[s] = "candidate" /\ current_term'[s] = current_term[s]
                  /\ h.vote[p][current_term[s]] = s)
      BY Zenon, <1>1, <1>2, <1>4, <2>3, <3>1, <3>5, <3>7
    <3> QED
      BY Zenon, <3>6, <3>7
  <2> QED
    BY Zenon, <2>1, <2>2, <2>3 DEF Kept
<1> QED
  BY Zenon, <1>2, <1>3, <1>4 DEF KeepInv

LEMMA CommitStep ==
    ASSUME NEW h \in Hist, NEW h2 \in Hist, Forward(h, h2), TypeInv, TypeInv',
           KeepInv(h), CommitInv(h), Regular(h, h2), \A m \in msgs' : MsgInv(h2, m)',
           \A s \in Servers :
              /\ \/ commit_idx'[s] = commit_idx[s]
                 \/ ChosenPrefix(h2, log'[s], commit_idx'[s], current_term'[s])
              /\ applied'[s] <= commit_idx'[s]
    PROVE  CommitInv(h2)'
<1>1. ASSUME NEW s \in Servers, commit_idx'[s] = commit_idx[s]
      PROVE  ChosenPrefix(h2, log'[s], commit_idx'[s], current_term'[s])
  <2>1. PICK c, T, V : c = commit_idx[s] /\ T = current_term[s] /\ V = current_term'[s]
    BY Zenon
  <2>2. c \in Nat /\ T \in Nat /\ V \in Nat /\ T <= V /\ log[s] \in Seq(Entry) /\ log'[s] \in Seq(Entry)
    BY Zenon, <2>1 DEF TypeInv, Forward
  <2>3. ChosenPrefix(h, log[s], c, T)
    BY Zenon, <2>1 DEF CommitInv
  <2>4. CASE log'[s] = log[s]
    BY Zenon, <1>1, <2>1, <2>2, <2>3, <2>4, ChosenPrefixStays
  <2>5. CASE Adopts(h, s)
    <3>1. ChosenPrefix(h, log'[s], c, V)
      <4>1. CASE c = 0
        BY Zenon, <4>1 DEF ChosenPrefix
      <4>2. CASE c # 0
        <5>1. PICK U, i \in Nat : U <= T /\ c <= i /\ Chosen(h, U, i) /\ Agree(log[s], h.llog[U], c)
          BY Zenon, <2>3, <4>2 DEF ChosenPrefix
        <5>2. Kept(h, U, i)
          BY Zenon, <5>1, ChosenNotBlocked DEF KeepInv, Chosen
        <5>3. U <= V
          BY <2>2, <5>1
        <5>4. Agree(log'[s], h.llog[U], c)
          BY Zenon, <2>1, <2>2, <2>5, <5>1, <5>2, <5>3, AdoptsKeeps
        <5> QED
          BY Zenon, <5>1, <5>3, <5>4 DEF ChosenPrefix
      <4> QED
        BY Zenon, <4>1, <4>2
    <3>2. V <= V
      BY <2>2
    <3> QED
      BY Zenon, <1>1, <2>1, <2>2, <3>1, <3>2, ChosenPrefixStays
  <2> QED
    BY Zenon, <2>4, <2>5 DEF Regular
<1>2. \A s \in Servers : ChosenPrefix(h2, log'[s], commit_idx'[s], current_term'[s])
  BY Zenon, <1>1
<1>3. \A m \in msgs' : CommitMsg(h2, m)'
  BY Zenon DEF MsgInv
<1> QED
  BY Zenon, <1>2, <1>3 DEF CommitInv, ChosenPrefix, Chosen, Own

LEMMA RequestStep ==
    ASSUME NEW h \in Hist, NEW h2 \in Hist, TypeInv, TypeInv', RequestInv(h), Regular(h, h2),
           accepted <= accepted',
           \A s \in Servers : sav'[s] = sav[s] \/ sav'[s] = NoReq
    PROVE  RequestInv(h2)'
<1>1. h2.llog = h.llog
  BY Zenon DEF Regular
<1>2. accepted \in Nat /\ accepted' \in Nat
  BY Zenon DEF TypeInv
<1>3. ASSUME NEW T \in Nat
      PROVE  /\ Len(h.llog[T]) <= accepted'
             /\ \A i \in 1 .. Len(h.llog[T]) : h.llog[T][i].req \in 1 .. accepted'
  <2>1. Len(h.llog[T]) <= accepted /\ \A i \in 1 .. Len(h.llog[T]) : h.llog[T][i].req \in 1 .. accepted
    BY Zenon DEF RequestInv
  <2>2. Len(h.llog[T]) \in Nat
    BY HistTypes
  <2> QED
    BY <1>2, <2>1, <2>2
<1>4. ASSUME NEW s \in Servers, sav'[s] # NoReq
      PROVE  /\ sav'[s].idx \in 1 .. Len(h.llog[sav'[s].term])
             /\ h.llog[sav'[s].term][sav'[s].idx].req = sav'[s].req
  BY Zenon, <1>4 DEF RequestInv
<1>5. \A T \in Nat : \A i, j \in 1 .. Len(h.llog[T]) :
          h.llog[T][i].req = h.llog[T][j].req => i = j
  BY Zenon DEF RequestInv
<1> QED
  BY <1>1, <1>3, <1>4, <1>5 DEF RequestInv

(* Votes are new, in the voter's term, and what the voter has stored for   *)
(* earlier leaders the candidate has as well.                              *)
Backs(h, c, p) ==
    \A T, i \in Nat :
        T < current_term'[c] /\ Own(h, T, i) /\ Kept(h, T, i) /\ i <= h.acc[p][T] =>
            Agree(log[c], h.llog[T], i)

VotesMove(h, h2) ==
    \A p \in Servers, T \in Nat :
        \/ h2.vote[p][T] = h.vote[p][T]
        \/ /\ h.vote[p][T] = None /\ T = current_term'[p] /\ T <= current_term'[h2.vote[p][T]]
           /\ LET c == h2.vote[p][T]
              IN  state'[c] = "candidate" /\ T = current_term'[c] => Backs(h, c, p)

AcksMove(h, h2) ==
    \A p \in Servers, T \in Nat :
        \/ h2.acc[p][T] = h.acc[p][T]
        \/ /\ T = current_term'[p] /\ Elected(h, T) /\ h.acc[p][T] <= h2.acc[p][T]
           /\ Agree(log'[p], h.llog[T], h2.acc[p][T])

Elects(h2, s) ==
    /\ voted_for'[s] = h2.vote[s][current_term'[s]]
    /\ state'[s] # "follower" =>
          /\ voted_for'[s] = s /\ s \notin votes'[s]
          /\ \A p \in votes'[s] : h2.vote[p][current_term'[s]] = s
    /\ state[s] = "leader" /\ current_term'[s] = current_term[s] => state'[s] = "leader"
    /\ state'[s] = "leader" <=> current_leader'[s] = s

Leads(h2, s) ==
    state'[s] = "leader" => \A p \in Peers(s) : /\ next_idx'[s][p] <= Len(log[s]) + 1
                                                /\ match_idx'[s][p] <= h2.acc[p][current_term[s]]

Commits(h2, s) ==
    /\ \/ commit_idx'[s] = commit_idx[s]
       \/ ChosenPrefix(h2, log'[s], commit_idx'[s], current_term'[s])
    /\ applied'[s] <= commit_idx'[s]
    /\ sav'[s] = sav[s] \/ sav'[s] = NoReq

LEMMA ForwardStep ==
    ASSUME NEW h \in Hist, NEW h2 \in Hist, Regular(h, h2), VotesMove(h, h2), AcksMove(h, h2),
           \A s \in Servers : current_term[s] <= current_term'[s]
    PROVE  Forward(h, h2)
<1>1. ASSUME NEW T \in Nat
      PROVE  /\ Elected(h, T) => h2.lead[T] = h.lead[T]
             /\ Agree(h2.llog[T], h.llog[T], Len(h.llog[T]))
  <2>1. h.llog[T] \in Seq(Entry)
    BY Zenon, HistTypes
  <2>2. Agree(h.llog[T], h.llog[T], Len(h.llog[T]))
    BY <2>1, AgreeSelf
  <2> QED
    BY Zenon, <2>2 DEF Regular
<1>2. ASSUME NEW p \in Servers, NEW T \in Nat
      PROVE  /\ h.vote[p][T] # None => h2.vote[p][T] = h.vote[p][T]
             /\ h.acc[p][T] <= h2.acc[p][T]
             /\ h2.acc[p][T] # h.acc[p][T] => T = current_term'[p]
  <2>1. h.vote[p][T] # None => h2.vote[p][T] = h.vote[p][T]
    BY Zenon DEF VotesMove
  <2>2. h.acc[p][T] \in Nat
    BY Zenon, HistTypes
  <2> QED
    BY <2>1, <2>2 DEF AcksMove
<1> QED
  BY Zenon, <1>1, <1>2 DEF Forward

LEMMA ElectStep ==
    ASSUME NEW h \in Hist, NEW h2 \in Hist, Forward(h, h2), TypeInv, TypeInv', ElectInv(h),
           Regular(h, h2), VotesMove(h, h2), \A s \in Servers : Elects(h2, s),
           \A m \in msgs' : MsgInv(h2, m)'
    PROVE  ElectInv(h2)'
<1>0. /\ current_term \in [Servers -> Nat] /\ current_term' \in [Servers -> Nat]
      /\ \A s \in Servers : current_term[s] <= current_term'[s]
  BY Zenon DEF TypeInv, Forward
<1>1. ASSUME NEW p \in Servers, NEW T \in Nat, h2.vote[p][T] # None
      PROVE  T <= current_term'[p] /\ T <= current_term'[h2.vote[p][T]]
  <2>1. h2.vote[p][T] \in Servers /\ h.vote[p][T] \in Servers \cup {None}
    BY Zenon, <1>1, HistTypes
  <2>2. CASE h2.vote[p][T] = h.vote[p][T]
    <3>1. T <= current_term[p] /\ T <= current_term[h.vote[p][T]]
      BY Zenon, <1>1, <2>2 DEF ElectInv
    <3> QED
      BY <1>0, <2>1, <2>2, <3>1
  <2>3. CASE T = current_term'[p] /\ T <= current_term'[h2.vote[p][T]]
    BY <1>0, <2>3
  <2> QED
    BY Zenon, <2>2, <2>3 DEF VotesMove
<1>2. ASSUME NEW T \in Nat, Elected(h2, T)
      PROVE  /\ T <= current_term'[h2.lead[T]]
             /\ \E Q \in Quorums : \A p \in Q : h2.vote[p][T] = h2.lead[T]
  <2>1. Elected(h, T) /\ h2.lead[T] = h.lead[T] /\ h.lead[T] \in Servers
    BY Zenon, <1>2, HistTypes DEF Regular, Elected
  <2>2. PICK Q \in Quorums : \A p \in Q : h.vote[p][T] = h.lead[T]
    BY Zenon, <2>1 DEF ElectInv
  <2>3. Q \subseteq Servers
    BY Zenon DEF Quorums
  <2>4. \A p \in Q : h2.vote[p][T] = h2.lead[T]
    BY Zenon, <2>1, <2>2, <2>3, ServerAssumption DEF Forward
  <2>5. T <= current_term[h.lead[T]]
    BY Zenon, <2>1 DEF ElectInv
  <2>6. T <= current_term'[h2.lead[T]]
    BY <1>0, <2>1, <2>5
  <2> QED
    BY Zenon, <2>4, <2>5, <2>6
<1>3. ASSUME NEW s \in Servers PROVE state'[s] = "leader" <=> h2.lead[current_term'[s]] = s
  <2>1. state[s] = "leader" <=> h.lead[current_term[s]] = s
    BY Zenon DEF ElectInv
  <2>2. CASE current_term'[s] = current_term[s]
    <3>1. state'[s] = "leader" <=> state[s] = "leader"
      BY Zenon, <1>0, <2>2 DEF Regular, Role, Elects
    <3> QED
      BY Zenon, <2>1, <2>2, <3>1 DEF Regular
  <2>3. CASE current_term'[s] # current_term[s]
    <3>1. state'[s] # "leader"
      BY Zenon, <2>3 DEF Regular, Role
    <3>2. ~ (current_term'[s] <= current_term[s]) /\ current_term'[s] \in Nat
      BY <1>0, <2>3
    <3>3. h.lead[current_term'[s]] # s
      BY <3>2, ServerAssumption DEF ElectInv, Elected
    <3> QED
      BY Zenon, <3>1, <3>3 DEF Regular
  <2> QED
    BY Zenon, <2>2, <2>3
<1>4. \A m \in msgs' : VoteMsg(h2, m)'
  BY Zenon DEF MsgInv
<1>5. ASSUME NEW s \in Servers
      PROVE  /\ voted_for'[s] = h2.vote[s][current_term'[s]]
             /\ state'[s] # "follower" =>
                /\ voted_for'[s] = s /\ s \notin votes'[s]
                /\ \A p \in votes'[s] : h2.vote[p][current_term'[s]] = s
             /\ state'[s] = "leader" <=> current_leader'[s] = s
  BY Zenon DEF Elects
<1> QED
  BY Zenon, <1>1, <1>2, <1>3, <1>4, <1>5 DEF ElectInv, Elected

(* The whole invariant.                                                    *)
LEMMA RegularStep ==
    ASSUME NEW h \in Hist, NEW h2 \in Hist, TypeInv, TypeInv', Explains(h),
           Regular(h, h2), VotesMove(h, h2), AcksMove(h, h2),
           \A s \in Servers : /\ current_term[s] <= current_term'[s]
                              /\ Elects(h2, s) /\ Leads(h2, s) /\ Commits(h2, s),
           accepted <= accepted',
           \A m \in msgs' : m \in msgs \/ MsgInv(h2, m)'
    PROVE  Explains(h2)'
<1>0. ElectInv(h) /\ LogInv(h) /\ AckInv(h) /\ KeepInv(h) /\ CommitInv(h) /\ RequestInv(h)
  BY Zenon DEF Explains
<1>1. Forward(h, h2)
  BY Zenon, ForwardStep
<1>2. \A m \in msgs : MsgInv(h, m)
  BY Zenon, <1>0 DEF MsgInv, ElectInv, LogInv, AckInv, CommitInv
<1>3. \A m \in msgs' : MsgInv(h2, m)'
  BY Zenon, <1>1, <1>2, RegularCandidates, MsgsStep
<1>4. ElectInv(h2)'
  BY Zenon, <1>0, <1>1, <1>3, ElectStep
<1>5. LogInv(h2)'
  BY Zenon, <1>0, <1>1, <1>3, LogStep DEF Leads
<1>6. AckInv(h2)'
  BY Zenon, <1>0, <1>1, <1>3, AckStep DEF Leads, AcksMove
<1>7. KeepInv(h2)'
  <2>1. \A p \in Servers, T \in Nat : h2.vote[p][T] # None => T <= current_term'[p]
    BY Zenon, <1>4 DEF ElectInv
  <2>2. ASSUME NEW s \in Servers, NEW p \in Servers, state'[s] = "candidate",
               h2.vote[p][current_term'[s]] = s
        PROVE  \/ /\ state[s] = "candidate" /\ current_term'[s] = current_term[s]
                  /\ h.vote[p][current_term[s]] = s
               \/ Backs(h, s, p)
    <3>1. PICK T : T = current_term'[s]
      BY Zenon
    <3>2. T \in Nat /\ current_term[s] \in Nat /\ s # None
      BY Zenon, <3>1, ServerAssumption DEF TypeInv
    <3>3. CASE state'[s] = "candidate" /\ T = current_term'[s] => Backs(h, s, p)
      BY Zenon, <2>2, <3>1, <3>3
    <3>4. CASE h2.vote[p][T] = h.vote[p][T]
      <4>1. h.vote[p][T] = s
        BY Zenon, <2>2, <3>1, <3>4
      <4>2. T <= current_term[s]
        BY Zenon, <1>0, <3>2, <4>1 DEF ElectInv
      <4>3. state[s] = "candidate" /\ current_term'[s] = current_term[s]
        BY <2>2, <3>1, <3>2, <4>2 DEF Regular, Role
      <4> QED
        BY Zenon, <3>1, <4>1, <4>3
    <3> QED
      BY <2>2, <3>1, <3>2, <3>3, <3>4 DEF VotesMove
  <2>3. \A s, p \in Servers : state'[s] = "candidate" /\ h2.vote[p][current_term'[s]] = s =>
              \/ /\ state[s] = "candidate" /\ current_term'[s] = current_term[s]
                 /\ h.vote[p][current_term[s]] = s
              \/ \A T, i \in Nat :
                    T < current_term'[s] /\ Own(h, T, i) /\ Kept(h, T, i) /\ i <= h.acc[p][T] =>
                        Agree(log[s], h.llog[T], i)
    BY Zenon, <2>2 DEF Backs
  <2>4. \A p \in Servers, T \in Nat :
              \/ h2.acc[p][T] = h.acc[p][T]
              \/ /\ T = current_term'[p] /\ Elected(h, T)
                 /\ Agree(log'[p], h.llog[T], h2.acc[p][T])
    BY Zenon DEF AcksMove
  <2> QED
    BY Zenon, <1>0, <1>1, <2>1, <2>3, <2>4, KeepStep
<1>8. CommitInv(h2)'
  BY Zenon, <1>0, <1>1, <1>3, CommitStep DEF Commits
<1>9. RequestInv(h2)'
  BY Zenon, <1>0, RequestStep DEF Commits
<1> QED
  BY Zenon, <1>4, <1>5, <1>6, <1>7, <1>8, <1>9 DEF Explains, Hist

-------------------------------------------------------------------------------
(* A step is a step of one server; the others are as they were.            *)

Same(s) ==
    /\ state'[s] = state[s] /\ current_term'[s] = current_term[s]
    /\ voted_for'[s] = voted_for[s] /\ current_leader'[s] = current_leader[s]
    /\ votes'[s] = votes[s] /\ next_idx'[s] = next_idx[s] /\ match_idx'[s] = match_idx[s]
    /\ log'[s] = log[s] /\ commit_idx'[s] = commit_idx[s] /\ applied'[s] = applied[s]
    /\ sav'[s] = sav[s]

Fine(h, h2, s) ==
    /\ current_term[s] <= current_term'[s] /\ Role(s) /\ (log'[s] = log[s] \/ Adopts(h, s))
    /\ Elects(h2, s) /\ Leads(h2, s) /\ Commits(h2, s)

LEMMA ElectsSame ==
    ASSUME NEW h \in Hist, NEW h2 \in Hist, TypeInv, ElectInv(h), VotesMove(h, h2),
           NEW s \in Servers, h2.vote[s] = h.vote[s],
           state'[s] = state[s], current_term'[s] = current_term[s], voted_for'[s] = voted_for[s],
           current_leader'[s] = current_leader[s], votes'[s] = votes[s]
    PROVE  Elects(h2, s)
<1>0. current_term[s] \in Nat /\ votes[s] \subseteq Servers
  BY Zenon DEF TypeInv
<1>1. ASSUME state'[s] # "follower", NEW p \in votes'[s] PROVE h2.vote[p][current_term'[s]] = s
  <2>1. p \in Servers /\ h.vote[p][current_term[s]] = s
    BY Zenon, <1>0, <1>1 DEF ElectInv
  <2> QED
    BY <1>0, <2>1, ServerAssumption DEF VotesMove
<1>2. voted_for[s] = h.vote[s][current_term[s]]
  BY Zenon DEF ElectInv
<1>3. state[s] # "follower" => voted_for[s] = s /\ s \notin votes[s]
  BY Zenon DEF ElectInv
<1>4. state[s] = "leader" <=> current_leader[s] = s
  BY Zenon DEF ElectInv
<1> QED
  BY Zenon, <1>1, <1>2, <1>3, <1>4 DEF Elects

LEMMA LeadsSame ==
    ASSUME NEW h \in Hist, NEW h2 \in Hist, TypeInv, LogInv(h), AckInv(h), AcksMove(h, h2),
           NEW s \in Servers, next_idx'[s] = next_idx[s], match_idx'[s] = match_idx[s],
           state'[s] = "leader" => state[s] = "leader"
    PROVE  Leads(h2, s)
<1> SUFFICES ASSUME state[s] = "leader", NEW p \in Peers(s)
             PROVE  /\ next_idx[s][p] <= Len(log[s]) + 1
                    /\ match_idx[s][p] <= h2.acc[p][current_term[s]]
  BY Zenon DEF Leads
<1>1. next_idx[s][p] <= Len(log[s]) + 1 /\ match_idx[s][p] <= h.acc[p][current_term[s]]
  BY Zenon DEF LogInv, AckInv
<1>2. p \in Servers /\ current_term[s] \in Nat /\ match_idx[s] \in [Servers -> Nat]
  BY Zenon DEF Peers, TypeInv
<1>3. /\ h.acc[p][current_term[s]] \in Nat /\ h2.acc[p][current_term[s]] \in Nat
      /\ match_idx[s][p] \in Nat
  BY Zenon, <1>2, HistTypes
<1>4. h.acc[p][current_term[s]] <= h2.acc[p][current_term[s]]
  BY <1>2, <1>3 DEF AcksMove
<1> QED
  BY <1>1, <1>3, <1>4

LEMMA SameFine ==
    ASSUME NEW h \in Hist, NEW h2 \in Hist, TypeInv, Explains(h), VotesMove(h, h2), AcksMove(h, h2),
           NEW s \in Servers, h2.vote[s] = h.vote[s], Same(s)
    PROVE  Fine(h, h2, s)
<1>0. ElectInv(h) /\ LogInv(h) /\ AckInv(h) /\ CommitInv(h)
  BY Zenon DEF Explains
<1>1. Elects(h2, s)
  BY Zenon, <1>0, ElectsSame DEF Same
<1>2. Leads(h2, s)
  BY Zenon, <1>0, LeadsSame DEF Same
<1>3. Commits(h2, s)
  BY Zenon, <1>0 DEF Commits, CommitInv, Same
<1>4. current_term[s] <= current_term'[s]
  BY DEF TypeInv, Same
<1> QED
  BY Zenon, <1>1, <1>2, <1>3, <1>4 DEF Fine, Role, Same

LEMMA OneServerStep ==
    ASSUME NEW h \in Hist, NEW h2 \in Hist, TypeInv, TypeInv', Explains(h), NEW s \in Servers,
           h2.lead = h.lead, h2.llog = h.llog, VotesMove(h, h2), AcksMove(h, h2),
           \A t \in Servers \ {s} : Same(t) /\ h2.vote[t] = h.vote[t],
           Fine(h, h2, s), accepted <= accepted',
           \A m \in msgs' : m \in msgs \/ MsgInv(h2, m)'
    PROVE  Explains(h2)'
<1>1. \A t \in Servers : Fine(h, h2, t)
  BY Zenon, SameFine
<1>2. Regular(h, h2)
  BY Zenon, <1>1 DEF Regular, Fine
<1>3. \A t \in Servers : /\ current_term[t] <= current_term'[t]
                         /\ Elects(h2, t) /\ Leads(h2, t) /\ Commits(h2, t)
  BY Zenon, <1>1 DEF Fine
<1> QED
  BY Zenon, <1>2, <1>3, RegularStep

LEMMA Still ==
    ASSUME NEW h \in Hist PROVE VotesMove(h, h) /\ AcksMove(h, h)
BY Zenon DEF VotesMove, AcksMove

LEMMA QuietStep ==
    ASSUME NEW h \in Hist, TypeInv, TypeInv', Explains(h), NEW s \in Servers,
           \A t \in Servers \ {s} : Same(t), Fine(h, h, s), accepted <= accepted',
           \A m \in msgs' : m \in msgs \/ MsgInv(h, m)'
    PROVE  Explains(h)'
BY Zenon, Still, OneServerStep

-------------------------------------------------------------------------------
(* The histories the steps make.                                           *)

(* h2 is h after server s has voted for c in term T.                       *)
Voted(h, h2, s, T, c) ==
    /\ h2.lead = h.lead /\ h2.llog = h.llog /\ h2.acc = h.acc
    /\ \A p \in Servers \ {s} : h2.vote[p] = h.vote[p]
    /\ \A U \in Nat : h2.vote[s][U] = IF U = T THEN c ELSE h.vote[s][U]

LEMMA HistVote ==
    ASSUME NEW h \in Hist, NEW s \in Servers, NEW c \in Servers, NEW T \in Nat
    PROVE  \E h2 \in Hist : Voted(h, h2, s, T, c)
<1>1. /\ h.vote \in [Servers -> [Nat -> Servers \cup {None}]]
      /\ h.lead \in [Nat -> Servers \cup {None}] /\ h.llog \in [Nat -> Seq(Entry)]
      /\ h.acc \in [Servers -> [Nat -> Nat]]
  BY Zenon DEF Hist
<1>2. PICK v : v = [p \in Servers |-> IF p = s THEN [U \in Nat |-> IF U = T THEN c ELSE h.vote[s][U]]
                                       ELSE h.vote[p]]
  BY Zenon
<1>3. v \in [Servers -> [Nat -> Servers \cup {None}]]
  BY Zenon, <1>1, <1>2
<1>4. PICK h2 : h2 = [vote |-> v, lead |-> h.lead, llog |-> h.llog, acc |-> h.acc]
  BY Zenon
<1>5. h2 \in Hist
  BY Zenon, <1>1, <1>3, <1>4 DEF Hist
<1>6. h2.vote = v /\ h2.lead = h.lead /\ h2.llog = h.llog /\ h2.acc = h.acc
  BY Zenon, <1>4
<1>7. \A p \in Servers \ {s} : v[p] = h.vote[p]
  BY Zenon, <1>2
<1>8. \A U \in Nat : v[s][U] = IF U = T THEN c ELSE h.vote[s][U]
  BY Zenon, <1>2
<1> QED
  BY Zenon, <1>5, <1>6, <1>7, <1>8 DEF Voted

(* h2 is h after server s has acknowledged n entries of T's log.           *)
Acknowledged(h, h2, s, T, n) ==
    /\ h2.lead = h.lead /\ h2.llog = h.llog /\ h2.vote = h.vote
    /\ \A p \in Servers \ {s} : h2.acc[p] = h.acc[p]
    /\ h2.acc[s][T] = n
    /\ \A U \in Nat \ {T} : h2.acc[s][U] = h.acc[s][U]

LEMMA HistAck ==
    ASSUME NEW h \in Hist, NEW s \in Servers, NEW n \in Nat, NEW T \in Nat
    PROVE  \E h2 \in Hist : Acknowledged(h, h2, s, T, n)
<1>1. /\ h.vote \in [Servers -> [Nat -> Servers \cup {None}]]
      /\ h.lead \in [Nat -> Servers \cup {None}] /\ h.llog \in [Nat -> Seq(Entry)]
      /\ h.acc \in [Servers -> [Nat -> Nat]]
  BY Zenon DEF Hist
<1>2. PICK v : v = [p \in Servers |-> IF p = s THEN [U \in Nat |-> IF U = T THEN n ELSE h.acc[s][U]]
                                       ELSE h.acc[p]]
  BY Zenon
<1>3. v \in [Servers -> [Nat -> Nat]]
  BY <1>1, <1>2
<1>4. PICK h2 : h2 = [vote |-> h.vote, lead |-> h.lead, llog |-> h.llog, acc |-> v]
  BY Zenon
<1>5. h2 \in Hist
  BY Zenon, <1>1, <1>3, <1>4 DEF Hist
<1>6. h2.acc = v /\ h2.lead = h.lead /\ h2.llog = h.llog /\ h2.vote = h.vote
  BY Zenon, <1>4
<1>7. \A p \in Servers \ {s} : v[p] = h.acc[p]
  BY Zenon, <1>2
<1>8. v[s][T] = n /\ \A U \in Nat \ {T} : v[s][U] = h.acc[s][U]
  BY Zenon, <1>2
<1> QED
  BY Zenon, <1>5, <1>6, <1>7, <1>8 DEF Acknowledged

(* h2 is h after server s, with log lg, has been elected in term T.        *)
Leading(h, h2, s, T, lg) ==
    /\ h2.acc = h.acc /\ h2.vote = h.vote
    /\ h2.lead[T] = s /\ h2.llog[T] = lg
    /\ \A U \in Nat \ {T} : h2.lead[U] = h.lead[U] /\ h2.llog[U] = h.llog[U]

LEMMA HistLead ==
    ASSUME NEW h \in Hist, NEW s \in Servers, NEW lg \in Seq(Entry), NEW T \in Nat
    PROVE  \E h2 \in Hist : Leading(h, h2, s, T, lg)
<1>1. /\ h.vote \in [Servers -> [Nat -> Servers \cup {None}]]
      /\ h.lead \in [Nat -> Servers \cup {None}] /\ h.llog \in [Nat -> Seq(Entry)]
      /\ h.acc \in [Servers -> [Nat -> Nat]]
  BY Zenon DEF Hist
<1>2. PICK v : v = [U \in Nat |-> IF U = T THEN s ELSE h.lead[U]]
  BY Zenon
<1>3. PICK w : w = [U \in Nat |-> IF U = T THEN lg ELSE h.llog[U]]
  BY Zenon
<1>4. v \in [Nat -> Servers \cup {None}] /\ w \in [Nat -> Seq(Entry)]
  BY Zenon, <1>1, <1>2, <1>3
<1>5. PICK h2 : h2 = [vote |-> h.vote, lead |-> v, llog |-> w, acc |-> h.acc]
  BY Zenon
<1>6. h2 \in Hist
  BY Zenon, <1>1, <1>4, <1>5 DEF Hist
<1>7. h2.acc = h.acc /\ h2.lead = v /\ h2.llog = w /\ h2.vote = h.vote
  BY Zenon, <1>5
<1>8. v[T] = s /\ w[T] = lg /\ \A U \in Nat \ {T} : v[U] = h.lead[U] /\ w[U] = h.llog[U]
  BY Zenon, <1>2, <1>3
<1> QED
  BY Zenon, <1>6, <1>7, <1>8 DEF Leading

-------------------------------------------------------------------------------
(* Messages.                                                               *)

LEMMA MessageStays ==
    ASSUME NEW m, Message(m), elections \in Nat, elections' \in Nat, elections <= elections'
    PROVE  Message(m)'
<1>1. m.term \in 0 .. elections'
  BY DEF Message
<1> QED
  BY Zenon, <1>1 DEF Message, Peers

(* What a leader sends is a part of its log.                               *)
LEMMA AppendEntriesInv ==
    ASSUME NEW h \in Hist, NEW s \in Servers, NEW d \in Peers(s), NEW T \in Nat,
           NEW lg \in Seq(Entry), h.llog[T] = lg, h.lead[T] = s,
           NEW next \in Nat \ {0}, next <= Len(lg) + 1,
           NEW commit \in Nat, ChosenPrefix(h, lg, commit, T), T \in 0 .. elections',
           NEW m, m = AppendEntries(s, d, T, lg, next, commit)
    PROVE  Message(m)' /\ MsgInv(h, m)'
<1>1. /\ m.type = "ae" /\ m.from = s /\ m.to = d /\ m.term = T /\ m.commit = commit
      /\ m.prev_idx = IF HasEntry(lg, next - 1) THEN next - 1 ELSE 0
      /\ m.prev_term = TermAt(lg, next - 1)
      /\ m.entries = SubSeq(lg, next, Len(lg))
  BY Zenon DEF AppendEntries
<1>2. PICK k : k = next - 1
  BY Zenon
<1>3. k \in Nat /\ k <= Len(lg) /\ next = k + 1
  BY <1>2
<1>4. m.prev_idx = k
  BY <1>1, <1>2, <1>3 DEF HasEntry
<1>5. /\ m.entries \in Seq(Entry) /\ Len(m.entries) = Len(lg) - next + 1
      /\ \A x \in 1 .. Len(lg) - next + 1 : m.entries[x] = lg[next + x - 1]
  BY <1>1, RestSeq
<1>6. m.prev_idx + Len(m.entries) = Len(lg)
  BY <1>3, <1>4, <1>5
<1>7. m.prev_term = TermAt(lg, k) /\ m.prev_term \in Nat
  <2>1. CASE k = 0
    BY <1>1, <1>2, <2>1 DEF TermAt, HasEntry
  <2>2. CASE k # 0
    <3>1. lg[k] \in Entry
      BY <1>3, <2>2
    <3>2. lg[k].term \in Nat
      BY Zenon, <3>1 DEF Entry
    <3> QED
      BY <1>1, <1>2, <1>3, <2>2, <3>2 DEF TermAt, HasEntry
  <2> QED
    BY Zenon, <2>1, <2>2
<1>8. \A i \in 1 .. Len(m.entries) : m.entries[i] = lg[k + i]
  <2> SUFFICES ASSUME NEW i \in 1 .. Len(m.entries) PROVE m.entries[i] = lg[k + i]
    BY Zenon
  <2>1. next + i - 1 = k + i
    BY <1>3
  <2> QED
    BY Zenon, <1>5, <2>1
<1>9. AppendMsg(h, m)
  <2>1. h.llog[m.term] = lg /\ h.lead[m.term] = m.from
    BY Zenon, <1>1
  <2>2. /\ m.prev_idx + Len(m.entries) <= Len(lg) /\ m.prev_term = TermAt(lg, m.prev_idx)
        /\ \A i \in 1 .. Len(m.entries) : m.entries[i] = lg[m.prev_idx + i]
    BY <1>4, <1>6, <1>7, <1>8
  <2> QED
    BY <2>1, <2>2 DEF AppendMsg
<1>10. commit <= Len(lg)
  BY DEF ChosenPrefix, Agree
<1>11. CommitMsg(h, m)
  BY Zenon, <1>1, <1>6, <1>10 DEF CommitMsg
<1>12. Message(m)'
  BY Zenon, <1>1, <1>3, <1>4, <1>5, <1>7 DEF Message, Peers
<1>13. AppendMsg(h, m)' /\ CommitMsg(h, m)'
  BY Zenon, <1>9, <1>11 DEF AppendMsg, CommitMsg
<1>14. VoteMsg(h, m)' /\ RequestMsg(m)' /\ AckMsg(h, m)'
  BY Zenon, <1>1 DEF VoteMsg, RequestMsg, AckMsg
<1> QED
  BY Zenon, <1>12, <1>13, <1>14 DEF MsgInv

(* What a leader knows.                                                    *)
LEMMA LeaderFacts ==
    ASSUME NEW h \in Hist, TypeInv, Explains(h), NEW s \in Servers, state[s] = "leader"
    PROVE  /\ current_term[s] \in Nat /\ current_term[s] \in 0 .. elections
           /\ log[s] \in Seq(Entry) /\ commit_idx[s] \in Nat
           /\ h.llog[current_term[s]] = log[s] /\ h.lead[current_term[s]] = s
           /\ ChosenPrefix(h, log[s], commit_idx[s], current_term[s])
           /\ \A d \in Peers(s) : next_idx[s][d] \in Nat \ {0} /\ next_idx[s][d] <= Len(log[s]) + 1
<1>1. /\ current_term[s] \in Nat /\ elections \in Nat /\ current_term[s] <= elections
      /\ log[s] \in Seq(Entry) /\ commit_idx[s] \in Nat /\ next_idx[s] \in [Servers -> Nat \ {0}]
  BY Zenon DEF TypeInv
<1>2. h.llog[current_term[s]] = log[s] /\ \A d \in Peers(s) : next_idx[s][d] <= Len(log[s]) + 1
  BY Zenon DEF Explains, LogInv
<1>3. h.lead[current_term[s]] = s
  BY Zenon DEF Explains, ElectInv
<1>4. ChosenPrefix(h, log[s], commit_idx[s], current_term[s])
  BY Zenon DEF Explains, CommitInv
<1> QED
  BY <1>1, <1>2, <1>3, <1>4 DEF Peers

-------------------------------------------------------------------------------
(* The periodic steps.                                                     *)

LEMMA PeriodicLeaderStep ==
    ASSUME NEW h \in Hist, TypeInv, Explains(h), NEW s \in Servers, PeriodicLeader(s)
    PROVE  TypeInv' /\ Explains(h)'
<1>0. /\ UNCHANGED <<raft, peers, log, commit_idx, sav, clientvars, elections>>
      /\ applied' = [applied EXCEPT ![s] = commit_idx[s]] /\ state[s] = "leader"
  BY Zenon DEF PeriodicLeader, apply_all
<1>1. PICK ok \in SUBSET {AppendEntries(s, d, current_term[s], log[s], next_idx[s][d], commit_idx[s]) :
                           d \in Peers(s)} : msgs' = msgs \cup ok
  BY Zenon DEF PeriodicLeader, Sent
<1>2. ASSUME NEW m \in ok PROVE Message(m)' /\ MsgInv(h, m)'
  <2>1. PICK d \in Peers(s) :
           m = AppendEntries(s, d, current_term[s], log[s], next_idx[s][d], commit_idx[s])
    BY Zenon, <1>1
  <2> QED
    BY Zenon, <1>0, <2>1, LeaderFacts, AppendEntriesInv
<1>3. TypeInv'
  <2>1. \A m \in msgs' : Message(m)'
    BY <1>0, <1>1, <1>2, MessageStays DEF TypeInv
  <2>2. applied' \in [Servers -> Nat]
    BY Zenon, <1>0 DEF TypeInv
  <2> QED
    BY Zenon, <1>0, <2>1, <2>2 DEF TypeInv, raft, peers, clientvars
<1>4. \A t \in Servers \ {s} : Same(t)
  BY Zenon, <1>0 DEF Same, raft, peers, TypeInv
<1>5. Fine(h, h, s)
  <2>1. ElectInv(h) /\ LogInv(h) /\ AckInv(h) /\ CommitInv(h)
    BY Zenon DEF Explains
  <2>2. Elects(h, s)
    BY Zenon, <1>0, <2>1, Still, ElectsSame DEF raft
  <2>3. Leads(h, s)
    BY Zenon, <1>0, <2>1, Still, LeadsSame DEF raft, peers
  <2>4. Commits(h, s)
    BY <1>0 DEF Commits, TypeInv
  <2> QED
    BY <1>0, <2>2, <2>3, <2>4 DEF Fine, Role, raft, TypeInv
<1>6. accepted <= accepted'
  BY <1>0 DEF clientvars, TypeInv
<1> QED
  BY Zenon, <1>1, <1>2, <1>3, <1>4, <1>5, <1>6, QuietStep

(* raft_periodic of any server, and the answer to a client: the committed  *)
(* entries are applied.                                                    *)
LEMMA ApplyStep ==
    ASSUME NEW h \in Hist, TypeInv, Explains(h), NEW s \in Servers, apply_all(s),
           UNCHANGED <<raft, peers, log, commit_idx, accepted, elections, msgs>>,
           sav' = sav \/ sav' = [sav EXCEPT ![s] = NoReq]
    PROVE  TypeInv' /\ Explains(h)'
<1>0. applied' = [applied EXCEPT ![s] = commit_idx[s]]
  BY Zenon DEF apply_all
<1>3. TypeInv'
  <2>1. \A m \in msgs' : Message(m)'
    BY MessageStays DEF TypeInv
  <2>2. applied' \in [Servers -> Nat]
    BY Zenon, <1>0 DEF TypeInv
  <2>3. sav' \in [Servers -> [req : Nat, idx : Nat, term : Nat]]
    <3>1. NoReq \in [req : Nat, idx : Nat, term : Nat]
      BY Zenon DEF NoReq
    <3>2. sav \in [Servers -> [req : Nat, idx : Nat, term : Nat]]
      BY Zenon DEF TypeInv
    <3>3. CASE sav' = sav
      BY Zenon, <3>2, <3>3
    <3>4. CASE sav' = [sav EXCEPT ![s] = NoReq]
      BY Zenon, <3>1, <3>2, <3>4
    <3> QED
      BY Zenon, <3>3, <3>4
  <2> QED
    BY Zenon, <2>1, <2>2, <2>3 DEF TypeInv, raft, peers
<1>4. \A t \in Servers \ {s} : Same(t)
  BY Zenon, <1>0 DEF Same, raft, peers, TypeInv
<1>5. Fine(h, h, s)
  <2>1. ElectInv(h) /\ LogInv(h) /\ AckInv(h) /\ CommitInv(h)
    BY Zenon DEF Explains
  <2>2. Elects(h, s)
    BY Zenon, <1>0, <2>1, Still, ElectsSame DEF raft
  <2>3. Leads(h, s)
    BY Zenon, <1>0, <2>1, Still, LeadsSame DEF raft, peers
  <2>4. Commits(h, s)
    BY <1>0 DEF Commits, TypeInv
  <2> QED
    BY <1>0, <2>2, <2>3, <2>4 DEF Fine, Role, raft, TypeInv
<1>6. accepted <= accepted'
  BY DEF TypeInv
<1> QED
  BY Zenon, <1>3, <1>4, <1>5, <1>6, QuietStep

LEMMA PeriodicElectionStep ==
    ASSUME NEW h \in Hist, TypeInv, Explains(h), NEW s \in Servers, PeriodicElection(s)
    PROVE  TypeInv' /\ \E h2 \in Hist : Explains(h2)'
<1>0. PICK T : T = current_term[s] + 1
  BY Zenon
<1>1. /\ state[s] # "leader" /\ elections' = elections + 1
      /\ current_term' = [current_term EXCEPT ![s] = T]
      /\ votes' = [votes EXCEPT ![s] = {}]
      /\ voted_for' = [voted_for EXCEPT ![s] = s]
      /\ current_leader' = [current_leader EXCEPT ![s] = None]
      /\ state' = [state EXCEPT ![s] = "candidate"]
      /\ applied' = [applied EXCEPT ![s] = commit_idx[s]]
      /\ UNCHANGED <<peers, log, commit_idx, sav, clientvars>>
  BY Zenon, <1>0 DEF PeriodicElection, BecomeCandidate, apply_all
<1>2. PICK ok \in SUBSET {RequestVote(s, d, current_term[s] + 1, log[s]) : d \in Peers(s)} :
         msgs' = msgs \cup ok
  BY Zenon DEF PeriodicElection, Sent
<1>3. /\ current_term[s] \in Nat /\ T \in Nat /\ elections \in Nat /\ current_term[s] < T
      /\ current_term[s] <= elections /\ log[s] \in Seq(Entry)
      /\ \A t \in Servers : current_term[t] \in Nat /\ current_term[t] <= elections
  BY <1>0 DEF TypeInv
<1>4. PICK h2 \in Hist :
              /\ h2.lead = h.lead /\ h2.llog = h.llog /\ h2.acc = h.acc
              /\ \A p \in Servers \ {s} : h2.vote[p] = h.vote[p]
              /\ \A U \in Nat : h2.vote[s][U] = IF U = T THEN s ELSE h.vote[s][U]
  <2>1. \E g \in Hist : Voted(h, g, s, T, s)
    BY Zenon, <1>3, HistVote
  <2> QED
    BY Zenon, <2>1 DEF Voted
<1>5. ASSUME NEW m \in ok PROVE Message(m)' /\ MsgInv(h2, m)'
  <2>1. PICK d \in Peers(s) : m = RequestVote(s, d, T, log[s])
    BY Zenon, <1>0, <1>2
  <2>2. /\ m.type = "rv" /\ m.from = s /\ m.to = d /\ m.term = T
        /\ m.last_idx = Len(log[s]) /\ m.last_term = LastTerm(log[s])
    BY Zenon, <2>1 DEF RequestVote
  <2>3. m.last_idx \in Nat /\ m.last_term \in Nat
    <3>1. CASE Len(log[s]) = 0
      BY <1>3, <2>2, <3>1 DEF LastTerm, TermAt, HasEntry
    <3>2. CASE Len(log[s]) # 0
      <4>1. log[s][Len(log[s])] \in Entry
        BY <1>3, <3>2
      <4>2. log[s][Len(log[s])].term \in Nat
        BY Zenon, <4>1 DEF Entry
      <4> QED
        BY <1>3, <2>2, <3>2, <4>2 DEF LastTerm, TermAt, HasEntry
    <3> QED
      BY Zenon, <3>1, <3>2
  <2>4. T \in 0 .. elections'
    BY <1>0, <1>1, <1>3
  <2>5. Message(m)'
    BY Zenon, <2>2, <2>3, <2>4 DEF Message, Peers
  <2>6. RequestMsg(m)'
    BY <1>1, <1>3, <2>2 DEF RequestMsg, TypeInv
  <2>7. VoteMsg(h2, m)' /\ AppendMsg(h2, m)' /\ AckMsg(h2, m)' /\ CommitMsg(h2, m)'
    BY Zenon, <2>2 DEF VoteMsg, AppendMsg, AckMsg, CommitMsg
  <2> QED
    BY Zenon, <2>5, <2>6, <2>7 DEF MsgInv
<1>6. TypeInv'
  <2>1. \A m \in msgs' : Message(m)'
    <3>1. elections' \in Nat /\ elections <= elections'
      BY <1>1, <1>3
    <3> QED
      BY Zenon, <1>2, <1>3, <1>5, <3>1, MessageStays DEF TypeInv
  <2>2. applied' \in [Servers -> Nat] /\ current_term' \in [Servers -> Nat] /\ elections' \in Nat
    BY <1>1, <1>3 DEF TypeInv
  <2>3. ASSUME NEW t \in Servers PROVE current_term'[t] <= elections'
    <3>1. current_term'[t] = IF t = s THEN T ELSE current_term[t]
      BY Zenon, <1>1 DEF TypeInv
    <3> QED
      BY <1>0, <1>1, <1>3, <3>1
  <2>4. /\ votes' \in [Servers -> SUBSET Servers]
        /\ voted_for' \in [Servers -> Servers \cup {None}]
        /\ current_leader' \in [Servers -> Servers \cup {None}]
        /\ state' \in [Servers -> {"follower", "candidate", "leader"}]
    BY Zenon, <1>1 DEF TypeInv
  <2> QED
    BY Zenon, <1>1, <2>1, <2>2, <2>3, <2>4 DEF TypeInv, raft, peers, clientvars
<1>7. \A t \in Servers \ {s} : Same(t) /\ h2.vote[t] = h.vote[t]
  BY Zenon, <1>1, <1>4 DEF Same, raft, peers, TypeInv
<1>8. AcksMove(h, h2)
  BY Zenon, <1>4 DEF AcksMove
<1>9. VotesMove(h, h2)
  <2>1. h.vote[s][T] = None
    <3>1. ~ (T <= current_term[s])
      BY <1>3
    <3> QED
      BY Zenon, <1>3, <3>1 DEF Explains, ElectInv
  <2>2. T = current_term'[s] /\ T <= current_term'[s]
    BY <1>1, <1>3 DEF TypeInv
  <2>3. Backs(h, s, s)
    BY Zenon DEF Backs, Kept
  <2>4. h2.vote[s][T] = s
    BY Zenon, <1>3, <1>4
  <2>5. ASSUME NEW p \in Servers, NEW U \in Nat, h2.vote[p][U] # h.vote[p][U] PROVE p = s /\ U = T
    BY Zenon, <1>4, <2>5
  <2> QED
    BY Zenon, <2>1, <2>2, <2>3, <2>4, <2>5 DEF VotesMove
<1>10. Fine(h, h2, s)
  <2>1. state'[s] = "candidate" /\ current_term'[s] = T /\ voted_for'[s] = s /\ votes'[s] = {}
        /\ current_leader'[s] = None /\ applied'[s] = commit_idx[s] /\ log' = log
        /\ commit_idx' = commit_idx /\ sav' = sav
    BY Zenon, <1>1 DEF TypeInv
  <2>2. h2.vote[s][T] = s
    BY <1>3, <1>4
  <2>3. Elects(h2, s)
    BY Zenon, <1>1, <2>1, <2>2, ServerAssumption DEF Elects
  <2>4. Leads(h2, s)
    BY Zenon, <2>1 DEF Leads
  <2>5. Commits(h2, s)
    BY <2>1 DEF Commits, TypeInv
  <2> QED
    BY <1>3, <2>1, <2>3, <2>4, <2>5 DEF Fine, Role
<1>11. accepted <= accepted'
  BY <1>1 DEF clientvars, TypeInv
<1>12. \A m \in msgs' : m \in msgs \/ MsgInv(h2, m)'
  BY Zenon, <1>2, <1>5
<1> QED
  BY Zenon, <1>4, <1>6, <1>7, <1>8, <1>9, <1>10, <1>11, <1>12, OneServerStep

-------------------------------------------------------------------------------
(* Elections.                                                              *)

(* The terms in a log never decrease.                                      *)
LEMMA SortedLog ==
    ASSUME NEW h \in Hist, \A T \in Nat : Elected(h, T) => LeaderLog(h, T),
           NEW lg \in Seq(Entry), Follows(h, lg),
           NEW j \in 1 .. Len(lg), NEW i \in 1 .. j
    PROVE  lg[i].term <= lg[j].term
<1>1. lg[j] \in Entry /\ i \in 1 .. Len(lg) /\ i <= j
  OBVIOUS
<1>2. PICK V : V = lg[j].term
  BY Zenon
<1>3. V \in Nat
  BY Zenon, <1>1, <1>2 DEF Entry
<1>4. Elected(h, V) /\ Agree(lg, h.llog[V], j)
  BY Zenon, <1>2 DEF Follows
<1>5. LeaderLog(h, V)
  BY Zenon, <1>3, <1>4
<1>6. /\ j \in 1 .. Len(h.llog[V]) /\ lg[j] = h.llog[V][j]
      /\ i \in 1 .. Len(h.llog[V]) /\ lg[i] = h.llog[V][i]
  <2>1. h.llog[V] \in Seq(Entry)
    BY Zenon, <1>3, HistTypes
  <2> QED
    BY <1>1, <1>4, <2>1 DEF Agree
<1> QED
  BY Zenon, <1>1, <1>5, <1>6 DEF LeaderLog

(* __should_grant_vote: a candidate whose log is as recent as the voter's  *)
(* has every entry of the voter's that can still be chosen.                *)
LEMMA UpToDate ==
    ASSUME NEW h \in Hist, \A U \in Nat : Elected(h, U) => LeaderLog(h, U),
           NEW a \in Seq(Entry), NEW c \in Seq(Entry), Follows(h, a), Follows(h, c),
           NEW T \in Nat, NEW i \in Nat, Own(h, T, i),
           \A U \in Nat : T < U /\ Elected(h, U) => Agree(h.llog[U], h.llog[T], i),
           Agree(a, h.llog[T], i),
           \/ a = <<>>
           \/ LastTerm(a) < LastTerm(c)
           \/ LastTerm(a) = LastTerm(c) /\ Len(a) <= Len(c)
    PROVE  Agree(c, h.llog[T], i)
<1>1. i \in 1 .. Len(h.llog[T]) /\ h.llog[T][i].term = T /\ h.llog[T] \in Seq(Entry)
  BY Zenon, HistTypes DEF Own
<1>2. i \in 1 .. Len(a) /\ a[i] = h.llog[T][i]
  BY <1>1 DEF Agree
<1>3. PICK k, n, A, C : k = Len(a) /\ n = Len(c) /\ A = LastTerm(a) /\ C = LastTerm(c)
  BY Zenon
<1>4. k \in Nat /\ n \in Nat /\ k \in 1 .. Len(a) /\ i \in 1 .. k
  BY <1>2, <1>3
<1>5. A = a[k].term /\ a[k] \in Entry
  BY <1>3, <1>4 DEF LastTerm, TermAt, HasEntry
<1>6. A \in Nat
  BY Zenon, <1>5 DEF Entry
<1>7. T <= A
  BY Zenon, <1>1, <1>2, <1>4, <1>5, SortedLog
<1>8. n # 0
  <2> SUFFICES ASSUME n = 0 PROVE FALSE
    BY Zenon
  <2>1. C = 0
    BY <1>3 DEF LastTerm, TermAt, HasEntry
  <2> QED
    BY <1>3, <1>4, <1>6, <2>1
<1>9. n \in 1 .. Len(c)
  BY <1>3, <1>4, <1>8
<1>10. C = c[n].term /\ c[n] \in Entry
  BY <1>3, <1>9 DEF LastTerm, TermAt, HasEntry
<1>11. C \in Nat
  BY Zenon, <1>10 DEF Entry
<1>12. Elected(h, C) /\ Agree(c, h.llog[C], n)
  BY Zenon, <1>9, <1>10 DEF Follows
<1>13. h.llog[C] \in Seq(Entry)
  BY Zenon, <1>11, HistTypes
<1>14. A < C \/ (A = C /\ k <= n)
  BY <1>2, <1>3
<1>15. CASE C = T
  <2>1. i <= n
    BY <1>4, <1>6, <1>7, <1>14, <1>15
  <2> QED
    BY Zenon, <1>4, <1>12, <1>13, <1>15, <2>1, AgreeLess
<1>16. CASE C # T
  <2>1. T < C
    BY <1>6, <1>7, <1>11, <1>14, <1>16
  <2>2. Agree(h.llog[C], h.llog[T], i)
    BY Zenon, <1>11, <1>12, <2>1
  <2>3. i \in 1 .. Len(h.llog[C]) /\ h.llog[C][i] = h.llog[T][i]
    BY <1>1, <1>13, <2>2 DEF Agree
  <2>4. n \in 1 .. Len(h.llog[C]) /\ h.llog[C][n] = c[n]
    BY <1>9, <1>12, <1>13 DEF Agree
  <2>5. i <= n
    <3> SUFFICES ASSUME ~ (i <= n) PROVE FALSE
      BY Zenon
    <3>1. n <= i
      BY <1>4
    <3>2. h.llog[C][n].term <= h.llog[C][i].term
      BY Zenon, <1>11, <1>12, <2>3, <2>4, <3>1 DEF LeaderLog
    <3>3. C <= T
      BY Zenon, <1>1, <1>10, <2>3, <2>4, <3>2
    <3> QED
      BY <1>11, <2>1, <3>3
  <2>6. Agree(c, h.llog[C], i)
    BY Zenon, <1>4, <1>12, <1>13, <2>5, AgreeLess
  <2> QED
    BY Zenon, <2>2, <2>6, AgreeTrans
<1> QED
  BY Zenon, <1>15, <1>16

(* A server that steps down has not voted in its new term.                 *)
LEMMA NoVoteYet ==
    ASSUME NEW h \in Hist, ElectInv(h), TypeInv, NEW s \in Servers, NEW T \in Nat, current_term[s] < T
    PROVE  h.vote[s][T] = None
<1>1. ~ (T <= current_term[s])
  BY DEF TypeInv
<1> QED
  BY Zenon, <1>1 DEF ElectInv

(* What a receiver knows of the message.                                   *)
LEMMA MessageFacts ==
    ASSUME NEW h \in Hist, TypeInv, Explains(h), NEW m \in msgs
    PROVE  Message(m) /\ MsgInv(h, m)
BY Zenon DEF TypeInv, Explains, MsgInv, ElectInv, LogInv, AckInv, CommitInv

LEMMA VoteResponseInv ==
    ASSUME NEW h \in Hist, NEW s \in Servers, NEW d \in Peers(s), NEW T \in Nat, T \in 0 .. elections',
           NEW g \in BOOLEAN, g => h.vote[s][T] = d, NEW m, m = VoteResponse(s, d, T, g)
    PROVE  Message(m)' /\ MsgInv(h, m)'
<1>1. m.type = "rvr" /\ m.from = s /\ m.to = d /\ m.term = T /\ m.granted = g
  BY Zenon DEF VoteResponse
<1>2. Message(m)'
  BY Zenon, <1>1 DEF Message, Peers
<1>3. VoteMsg(h, m)' /\ AppendMsg(h, m)' /\ RequestMsg(m)' /\ AckMsg(h, m)' /\ CommitMsg(h, m)'
  BY Zenon, <1>1 DEF VoteMsg, AppendMsg, RequestMsg, AckMsg, CommitMsg
<1> QED
  BY Zenon, <1>2, <1>3 DEF MsgInv

LEMMA RequestVoteStep ==
    ASSUME NEW h \in Hist, TypeInv, Explains(h), NEW m \in msgs, NEW s \in Servers,
           NEW late \in BOOLEAN, recv_requestvote(s, m, late)
    PROVE  TypeInv' /\ \E h2 \in Hist : Explains(h2)'
<1>0. /\ m.type = "rv" /\ m.to = s
      /\ UNCHANGED <<peers, logs, sav, clientvars, elections>>
  BY Zenon DEF recv_requestvote
<1>1. /\ Message(m) /\ MsgInv(h, m) /\ m.from \in Peers(s) /\ m.term \in Nat
      /\ m.term \in 0 .. elections /\ m.last_idx \in Nat /\ m.last_term \in Nat
  BY Zenon, <1>0, MessageFacts, MessageTypes DEF Peers, Message
<1>2. /\ current_term \in [Servers -> Nat] /\ elections \in Nat
      /\ current_term[s] \in 0 .. elections
      /\ elections' = elections /\ accepted <= accepted'
      /\ ElectInv(h) /\ LogInv(h) /\ AckInv(h) /\ KeepInv(h) /\ CommitInv(h)
  BY <1>0 DEF TypeInv, clientvars, Explains
<1>3. CASE HasLeader(s, m, late)
  <2>1. PICK r : r = VoteResponse(s, m.from, current_term[s], FALSE)
    BY Zenon
  <2>2. msgs' = (msgs \ {m}) \cup {r} /\ UNCHANGED raft
    BY Zenon, <1>3, <2>1 DEF recv_requestvote, Replied
  <2>3. Message(r)' /\ MsgInv(h, r)'
    BY Zenon, <1>1, <1>2, <2>1, VoteResponseInv
  <2>4. TypeInv'
    <3>1. \A x \in msgs' : Message(x)'
      BY <1>2, <2>2, <2>3, MessageStays DEF TypeInv
    <3> QED
      BY Zenon, <1>0, <2>2, <3>1 DEF TypeInv, raft, peers, logs, clientvars
  <2>5. \A t \in Servers : Same(t)
    BY Zenon, <1>0, <2>2 DEF Same, raft, peers, logs
  <2>6. Fine(h, h, s)
    BY Zenon, <2>5, Still, SameFine
  <2>7. \A x \in msgs' : x \in msgs \/ MsgInv(h, x)'
    BY Zenon, <2>2, <2>3
  <2> QED
    BY Zenon, <1>2, <2>4, <2>5, <2>6, <2>7, QuietStep
<1>4. CASE ~ HasLeader(s, m, late)
  <2> DEFINE newer == current_term[s] < m.term
  <2>0. PICK T, voted : /\ T = Greater(current_term[s], m.term)
                        /\ voted = (IF newer THEN None ELSE voted_for[s])
    BY Zenon
  <2> DEFINE grant == ShouldGrantVote(m, T, voted, log[s])
  <2>1. PICK r : r = VoteResponse(s, m.from, T, grant)
    BY Zenon
  <2>2. /\ current_term' = [current_term EXCEPT ![s] = T]
        /\ voted_for' = [voted_for EXCEPT ![s] = IF grant THEN m.from ELSE voted]
        /\ state' = IF newer THEN [state EXCEPT ![s] = "follower"] ELSE state
        /\ current_leader' = IF newer \/ grant
                             THEN [current_leader EXCEPT ![s] = None] ELSE current_leader
        /\ msgs' = (msgs \ {m}) \cup {r}
        /\ votes' = votes
    BY Zenon, <1>4, <2>0, <2>1 DEF recv_requestvote, Replied
  <2>3. /\ T \in Nat /\ T \in 0 .. elections /\ current_term[s] <= T
        /\ newer => T = m.term
        /\ ~ newer => T = current_term[s]
    <3>1. current_term[s] \in Nat
      BY Zenon, <1>2
    <3> QED
      BY <1>1, <1>2, <2>0, <3>1 DEF Greater
  <2>3a. grant \in BOOLEAN
    BY Zenon DEF ShouldGrantVote
  <2>4. voted = h.vote[s][T]
    <3>1. CASE newer
      BY Zenon, <1>1, <1>2, <2>0, <2>3, <3>1, NoVoteYet
    <3>2. CASE ~ newer
      BY Zenon, <1>2, <2>0, <2>3, <3>2 DEF ElectInv
    <3> QED
      BY Zenon, <2>3, <3>1, <3>2
  <2>5. /\ state'[s] = (IF newer THEN "follower" ELSE state[s])
        /\ current_term'[s] = T /\ voted_for'[s] = (IF grant THEN m.from ELSE voted)
        /\ current_leader'[s] = (IF newer \/ grant THEN None ELSE current_leader[s])
    BY Zenon, <2>2, <2>3 DEF TypeInv
  <2>6. ASSUME NEW t \in Servers \ {s} PROVE Same(t)
    BY Zenon, <1>0, <2>2 DEF Same, peers, logs, TypeInv
  <2>7. ASSUME NEW h2 \in Hist, Message(r)' PROVE TypeInv'
    <3>1. \A x \in msgs' : Message(x)'
      BY <1>2, <2>2, <2>7, MessageStays DEF TypeInv
    <3>2. /\ current_term' \in [Servers -> Nat]
          /\ \A t \in Servers : current_term'[t] <= elections'
      <4>1. ASSUME NEW t \in Servers PROVE current_term'[t] = IF t = s THEN T ELSE current_term[t]
        BY Zenon, <1>2, <2>2
      <4>2. \A t \in Servers : current_term[t] <= elections
        BY Zenon DEF TypeInv
      <4> QED
        BY <1>2, <2>2, <2>3, <4>1, <4>2
    <3>3. voted \in Servers \cup {None} /\ m.from \in Servers
      BY Zenon, <1>1, <2>0 DEF TypeInv, Peers
    <3>4. /\ voted_for' \in [Servers -> Servers \cup {None}]
          /\ state' \in [Servers -> {"follower", "candidate", "leader"}]
          /\ current_leader' \in [Servers -> Servers \cup {None}]
      BY Zenon, <2>2, <3>3 DEF TypeInv
    <3> QED
      BY ZenonT(30), <1>0, <2>2, <3>1, <3>2, <3>4 DEF TypeInv, peers, logs, clientvars
  <2>8. CASE ~ grant
    <3>1. Message(r)' /\ MsgInv(h, r)'
      BY Zenon, <1>1, <1>2, <2>1, <2>3, <2>3a, <2>8, VoteResponseInv
    <3>2. TypeInv'
      BY Zenon, <2>7, <3>1
    <3>3. Elects(h, s)
      <4>1. CASE newer
        <5>0. current_term[s] # T
          <6>1. current_term[s] \in Nat /\ T \in Nat /\ T = m.term
            BY Zenon, <1>2, <2>3, <4>1
          <6> QED
            BY <4>1, <6>1
        <5>1. state'[s] = "follower" /\ voted_for'[s] = h.vote[s][T] /\ current_leader'[s] = None
              /\ current_term'[s] = T /\ current_term[s] # T
          BY Zenon, <2>4, <2>5, <2>8, <4>1, <5>0
        <5> QED
          BY Zenon, <5>1, ServerAssumption DEF Elects
      <4>2. CASE ~ newer
        <5>1. /\ state'[s] = state[s] /\ current_term'[s] = current_term[s]
              /\ voted_for'[s] = voted_for[s] /\ current_leader'[s] = current_leader[s]
              /\ votes'[s] = votes[s]
          BY Zenon, <2>0, <2>2, <2>3, <2>5, <2>8, <4>2
        <5> QED
          BY Zenon, <1>2, <5>1, Still, ElectsSame
      <4> QED
        BY Zenon, <2>3, <4>1, <4>2
    <3>4. Leads(h, s)
      BY Zenon, <1>0, <1>2, <2>5, Still, LeadsSame DEF peers
    <3>5. Commits(h, s)
      BY Zenon, <1>0, <1>2 DEF Commits, CommitInv, logs
    <3>6. Fine(h, h, s)
      BY Zenon, <1>0, <2>3, <2>5, <3>3, <3>4, <3>5 DEF Fine, Role, logs
    <3>7. \A x \in msgs' : x \in msgs \/ MsgInv(h, x)'
      BY Zenon, <2>2, <3>1
    <3> QED
      BY Zenon, <1>2, <2>6, <3>2, <3>6, <3>7, QuietStep
  <2>9. CASE grant
    <3>1. /\ voted = None /\ T = m.term
          /\ \/ log[s] = <<>>
             \/ LastTerm(log[s]) < m.last_term
             \/ LastTerm(log[s]) = m.last_term /\ Len(log[s]) <= m.last_idx
      BY <1>1, <1>2, <2>3, <2>9 DEF ShouldGrantVote
    <3>2. PICK c : c = m.from
      BY Zenon
    <3>3. c \in Servers \ {s}
      BY Zenon, <1>1, <3>2 DEF Peers
    <3>4. PICK h2 \in Hist :
              /\ h2.lead = h.lead /\ h2.llog = h.llog /\ h2.acc = h.acc
              /\ \A p \in Servers \ {s} : h2.vote[p] = h.vote[p]
              /\ \A U \in Nat : h2.vote[s][U] = IF U = T THEN c ELSE h.vote[s][U]
      <4>1. \E g \in Hist : Voted(h, g, s, T, c)
        BY Zenon, <2>3, <3>3, HistVote
      <4> QED
        BY Zenon, <4>1 DEF Voted
    <3>5. h2.vote[s][T] = c /\ h.vote[s][T] = None
      BY Zenon, <2>3, <2>4, <3>1, <3>4
    <3>6. Message(r)' /\ MsgInv(h2, r)'
      BY Zenon, <1>1, <1>2, <2>1, <2>3, <2>3a, <3>2, <3>5, VoteResponseInv
    <3>7. TypeInv'
      BY Zenon, <2>7, <3>6
    <3>8. state'[s] = "follower"
      <4>1. CASE newer
        BY Zenon, <2>5, <4>1
      <4>2. CASE ~ newer
        <5>1. voted_for[s] = None
          BY Zenon, <2>0, <3>1, <4>2
        <5>2. state[s] = "follower"
          BY Zenon, <1>2, <5>1, ServerAssumption DEF ElectInv
        <5> QED
          BY Zenon, <2>5, <4>2, <5>2
      <4> QED
        BY Zenon, <2>3, <4>1, <4>2
    <3>9. Elects(h2, s)
      <4>1. voted_for'[s] = h2.vote[s][current_term'[s]] /\ current_leader'[s] = None
        BY Zenon, <2>5, <2>9, <3>2, <3>5
      <4>2. ~ (state[s] = "leader" /\ current_term'[s] = current_term[s])
        <5> SUFFICES ASSUME state[s] = "leader", T = current_term[s] PROVE FALSE
          BY Zenon, <2>5
        <5>0. current_term[s] \in Nat
          BY Zenon, <1>2
        <5>1. ~ newer
          BY <1>2, <3>1, <5>0
        <5> QED
          BY Zenon, <2>5, <3>8, <5>1
      <4> QED
        BY Zenon, <3>8, <4>1, <4>2, ServerAssumption DEF Elects
    <3>10. Leads(h2, s)
      BY Zenon, <3>8 DEF Leads
    <3>11. Commits(h2, s)
      BY Zenon, <1>0, <1>2 DEF Commits, CommitInv, logs
    <3>12. Fine(h, h2, s)
      BY Zenon, <1>0, <2>3, <2>5, <3>8, <3>9, <3>10, <3>11 DEF Fine, Role, logs
    <3>13. AcksMove(h, h2)
      BY Zenon, <3>4 DEF AcksMove
    <3>14. VotesMove(h, h2)
      <4>1. T <= current_term[c]
        BY Zenon, <1>0, <1>1, <3>1, <3>2 DEF MsgInv, RequestMsg
      <4>2. T = current_term'[s] /\ T <= current_term'[c]
        BY Zenon, <2>5, <2>6, <3>3, <4>1 DEF Same
      <4>3. ASSUME state'[c] = "candidate", T = current_term'[c] PROVE Backs(h, c, s)
        <5>1. state[c] = "candidate" /\ T = current_term[c] /\ current_term'[c] = T
          BY Zenon, <2>6, <3>3, <4>3 DEF Same
        <5>2. m.last_idx = Len(log[c]) /\ m.last_term = LastTerm(log[c])
          BY Zenon, <1>0, <1>1, <3>1, <3>2, <5>1 DEF MsgInv, RequestMsg
        <5>3. /\ log[s] \in Seq(Entry) /\ log[c] \in Seq(Entry)
              /\ Follows(h, log[s]) /\ Follows(h, log[c])
              /\ \A U \in Nat : Elected(h, U) => LeaderLog(h, U)
          BY Zenon, <1>2, <3>3 DEF TypeInv, LogInv
        <5>4. \/ log[s] = <<>>
              \/ LastTerm(log[s]) < LastTerm(log[c])
              \/ LastTerm(log[s]) = LastTerm(log[c]) /\ Len(log[s]) <= Len(log[c])
          BY Zenon, <3>1, <5>2
        <5>5. ASSUME NEW U \in Nat, NEW i \in Nat, Own(h, U, i), Kept(h, U, i), i <= h.acc[s][U]
              PROVE  Agree(log[c], h.llog[U], i)
          <6>1. /\ \A V \in Nat : U < V /\ Elected(h, V) => Agree(h.llog[V], h.llog[U], i)
                /\ Agree(log[s], h.llog[U], i)
            BY Zenon, <5>5 DEF Kept
          <6> QED
            BY Zenon, <5>3, <5>4, <5>5, <6>1, UpToDate
        <5> QED
          BY Zenon, <5>5 DEF Backs
      <4>4. ASSUME NEW p \in Servers, NEW U \in Nat, h2.vote[p][U] # h.vote[p][U] PROVE p = s /\ U = T
        BY Zenon, <3>4, <4>4
      <4> QED
        BY Zenon, <3>5, <4>2, <4>3, <4>4 DEF VotesMove
    <3>15. \A x \in msgs' : x \in msgs \/ MsgInv(h2, x)'
      BY Zenon, <2>2, <3>6
    <3>16. \A t \in Servers \ {s} : Same(t) /\ h2.vote[t] = h.vote[t]
      BY Zenon, <2>6, <3>4
    <3> QED
      BY ZenonT(30), <1>2, <3>4, <3>7, <3>12, <3>13, <3>14, <3>15, <3>16, OneServerStep
  <2> QED
    BY Zenon, <2>3, <2>8, <2>9
<1> QED
  BY Zenon, <1>3, <1>4

(* A response from a later term makes a candidate or a leader step down.   *)
LEMMA StepDownStep ==
    ASSUME NEW h \in Hist, TypeInv, Explains(h), NEW m \in msgs, NEW s \in Servers,
           current_term[s] < m.term, StepDown(s, m.term), Received(m),
           UNCHANGED <<peers, logs, sav, clientvars, elections>>
    PROVE  TypeInv' /\ Explains(h)'
<1>1. PICK T : T = m.term
  BY Zenon
<1>2. T \in Nat /\ T \in 0 .. elections /\ current_term[s] \in Nat /\ current_term[s] < T
  BY Zenon, <1>1, MessageFacts, MessageTypes DEF Message, TypeInv
<1>3. /\ current_term' = [current_term EXCEPT ![s] = T]
      /\ voted_for' = [voted_for EXCEPT ![s] = None]
      /\ state' = [state EXCEPT ![s] = "follower"]
      /\ current_leader' = [current_leader EXCEPT ![s] = None]
      /\ votes' = votes /\ msgs' = msgs \ {m}
  BY Zenon, <1>1 DEF StepDown, Received
<1>4. TypeInv'
  <2>1. \A x \in msgs' : Message(x)'
    BY <1>3, MessageStays DEF TypeInv
  <2>2. ASSUME NEW t \in Servers PROVE current_term'[t] <= elections'
    <3>1. current_term'[t] = IF t = s THEN T ELSE current_term[t]
      BY Zenon, <1>3 DEF TypeInv
    <3>2. current_term[t] <= elections
      BY Zenon DEF TypeInv
    <3> QED
      BY <1>2, <3>1, <3>2
  <2>3. /\ current_term' \in [Servers -> Nat]
        /\ voted_for' \in [Servers -> Servers \cup {None}]
        /\ current_leader' \in [Servers -> Servers \cup {None}]
        /\ state' \in [Servers -> {"follower", "candidate", "leader"}]
    BY Zenon, <1>2, <1>3 DEF TypeInv
  <2> QED
    BY Zenon, <1>3, <2>1, <2>2, <2>3 DEF TypeInv, peers, logs, clientvars
<1>5. \A t \in Servers \ {s} : Same(t)
  BY Zenon, <1>3 DEF Same, peers, logs, TypeInv
<1>6. Fine(h, h, s)
  <2>1. /\ current_term'[s] = T /\ voted_for'[s] = None /\ state'[s] = "follower"
        /\ current_leader'[s] = None
    BY Zenon, <1>3 DEF TypeInv
  <2>2. h.vote[s][T] = None
    BY Zenon, <1>2, NoVoteYet DEF Explains
  <2>3. Elects(h, s)
    BY <1>2, <2>1, <2>2, ServerAssumption DEF Elects
  <2>4. Leads(h, s)
    BY Zenon, <2>1 DEF Leads
  <2>5. Commits(h, s)
    BY Zenon DEF Commits, Explains, CommitInv, logs
  <2> QED
    BY <1>2, <2>1, <2>3, <2>4, <2>5 DEF Fine, Role, logs
<1>7. accepted <= accepted'
  BY DEF TypeInv, clientvars
<1>8. \A x \in msgs' : x \in msgs \/ MsgInv(h, x)'
  BY Zenon, <1>3
<1> QED
  BY Zenon, <1>4, <1>5, <1>6, <1>7, <1>8, QuietStep

(* A message that is dropped without effect.                               *)
LEMMA IgnoreStep ==
    ASSUME NEW h \in Hist, TypeInv, Explains(h), NEW m \in msgs, Received(m),
           UNCHANGED <<raft, peers, logs, sav, clientvars, elections>>
    PROVE  TypeInv' /\ Explains(h)'
<1>1. msgs' = msgs \ {m}
  BY Zenon DEF Received
<1>2. PICK s \in Servers : s = m.to
  BY Zenon, MessageFacts, MessageTypes
<1>3. TypeInv'
  <2>1. \A x \in msgs' : Message(x)'
    BY <1>1, MessageStays DEF TypeInv
  <2> QED
    BY Zenon, <2>1 DEF TypeInv, raft, peers, logs, clientvars
<1>4. \A t \in Servers : Same(t)
  BY Zenon DEF Same, raft, peers, logs
<1>5. Fine(h, h, s)
  BY Zenon, <1>4, Still, SameFine
<1>6. accepted <= accepted'
  BY DEF TypeInv, clientvars
<1>7. \A x \in msgs' : x \in msgs \/ MsgInv(h, x)'
  BY Zenon, <1>1
<1> QED
  BY Zenon, <1>3, <1>4, <1>5, <1>6, <1>7, QuietStep

(* A vote that is not yet the last one needed.                             *)
LEMMA CountStep ==
    ASSUME NEW h \in Hist, TypeInv, Explains(h), NEW m \in msgs, NEW s \in Servers,
           m.type = "rvr", m.to = s, m.granted, m.term = current_term[s],
           state[s] = "candidate", votes' = [votes EXCEPT ![s] = @ \cup {m.from}],
           Received(m),
           UNCHANGED <<state, current_term, voted_for, current_leader, peers, logs, sav, clientvars,
                       elections>>
    PROVE  TypeInv' /\ Explains(h)'
<1>1. msgs' = msgs \ {m}
  BY Zenon DEF Received
<1>2. m.from \in Servers /\ m.from # s /\ h.vote[m.from][current_term[s]] = s
  BY Zenon, MessageFacts, MessageTypes DEF MsgInv, VoteMsg
<1>3. TypeInv'
  <2>1. \A x \in msgs' : Message(x)'
    BY <1>1, MessageStays DEF TypeInv
  <2>2. votes' \in [Servers -> SUBSET Servers]
    BY Zenon, <1>2 DEF TypeInv
  <2> QED
    BY Zenon, <2>1, <2>2 DEF TypeInv, peers, logs, clientvars
<1>4. \A t \in Servers \ {s} : Same(t)
  BY Zenon DEF Same, peers, logs, TypeInv
<1>5. Fine(h, h, s)
  <2>1. votes'[s] = votes[s] \cup {m.from}
    BY Zenon DEF TypeInv
  <2>2. Elects(h, s)
    BY <1>2, <2>1 DEF Elects, Explains, ElectInv
  <2>3. Leads(h, s)
    BY Zenon DEF Leads
  <2>4. Commits(h, s)
    BY Zenon DEF Commits, Explains, CommitInv, logs
  <2> QED
    BY <2>2, <2>3, <2>4 DEF Fine, Role, logs, TypeInv
<1>6. accepted <= accepted'
  BY DEF TypeInv, clientvars
<1>7. \A x \in msgs' : x \in msgs \/ MsgInv(h, x)'
  BY Zenon, <1>1
<1> QED
  BY Zenon, <1>3, <1>4, <1>5, <1>6, <1>7, QuietStep
===============================================================================
