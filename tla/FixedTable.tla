------------------------------ MODULE FixedTable -------------------------------
(***************************************************************************)
(* mica::table::FixedTable with concurrent reads and writes (kConcurrent,  *)
(* concurrent_access_mode_ 2): buckets of kBucketCap items, each with a    *)
(* chain of extra buckets taken from a common free list.  Writers hold a   *)
(* bucket while its version is odd.  A reader takes no lock: it walks the  *)
(* chain and starts again if the version has changed.                      *)
(*                                                                         *)
(* A step is one store that a reader can see, or one load of a reader.     *)
(* What a writer only reads is protected by the lock it holds, so it is    *)
(* read in the step that takes the lock.  The memory barriers make the     *)
(* order of the stores and loads that of the program.  Where the source    *)
(* loads a field twice the compiler may load it once: that is the case in  *)
(* which nobody stores in between.                                         *)
(***************************************************************************)
EXTENDS Naturals, FiniteSets, FiniteSetsExt, Sequences, SequencesExt

CONSTANTS
    Main,       \* the buckets keys hash to
    LastMain,   \* the last of them in memory: extra_buckets_[0] is this one
    NumExtra,   \* num_extra_buckets_
    Cap,        \* kBucketCap
    Keys,       \* without ft_invalid_key, which set rejects before it looks at the table
    BucketOf,   \* calc_bucket_index of each key's hash
    Threads,
    None,       \* ft_invalid_key, no value, no thread
    Load,       \* the keys set before the table is shared, one call after another
    MaxWrites,  \* bound: calls of set and del, those of Load included
    MaxReads    \* bound: calls of get

ASSUME TableAssumption ==
    /\ LastMain \in Main /\ BucketOf \in [Keys -> Main] /\ None \notin Keys \cup Threads \cup Nat
    /\ NumExtra \in Nat /\ Cap \in Nat \ {0} /\ Main \cap (0 .. NumExtra) = {}
    /\ Load \in Seq(Keys) /\ MaxWrites \in Nat /\ MaxReads \in Nat

Extra == 1 .. NumExtra
Buckets == Main \cup Extra
Slots == 1 .. Cap
Values == 1 .. MaxWrites

VARIABLES
    version,    \* version of the main buckets
    next,       \* next_extra_bucket_index
    key, val,   \* key_arr, and the values behind the bucket
    head,       \* extra_bucket_free_list_.head
    holder,     \* the thread that holds extra_bucket_free_list_.lock
    th,         \* the threads
    writes, reads,  \* calls so far
    table,      \* what the completed calls of set and del have made of the table
    ret         \* the key and the result of each thread's last get

shared == <<version, next, key, val, head, holder>>
vars == <<shared, th, writes, reads, table, ret>>

(* A thread: where it is; its call's main bucket, and key and value once   *)
(* it is certain to change the table; the item (b, i) it works on; x and   *)
(* then: the extra bucket it takes or frees and the step after that;       *)
(* start: version_start; got: the value read, None when not found          *)
Idle == [at |-> "idle", m |-> None, k |-> None, v |-> None, b |-> 0, i |-> 0, x |-> 0, then |-> "",
         start |-> 0, got |-> None]

(* The constructor, and reset()                                            *)
Init ==
    /\ version = [m \in Main |-> 0]
    /\ next = [b \in Buckets |-> IF b \in 1 .. NumExtra - 1 THEN b + 1 ELSE 0]
    /\ key = [b \in Buckets |-> [i \in Slots |-> None]]
    /\ val = [b \in Buckets |-> [i \in Slots |-> None]]
    /\ head = IF NumExtra = 0 THEN 0 ELSE 1
    /\ holder = None
    /\ th = [t \in Threads |-> Idle]
    /\ writes = 0 /\ reads = 0
    /\ table = [k \in Keys |-> None]
    /\ ret = [t \in Threads |-> <<None, None>>]

--------------------------------------------------------------------------------
RECURSIVE ChainFrom(_)
ChainFrom(b) == IF next[b] = 0 THEN <<b>> ELSE <<b>> \o ChainFrom(next[b])

Chain(b) == ToSet(ChainFrom(b))
EndOf(b) == Last(ChainFrom(b))
BeforeEnd(b) == CHOOSE p \in Chain(b) : next[p] = EndOf(b)

(* find_item_index and the search of get_empty: the first item that holds  *)
(* k (None: that is free), as a bucket and an index                        *)
ItemsWith(b, k) == {<<c, i>> \in Chain(b) \X Slots : key[c][i] = k}
First(b, items) ==
    LET pos(x) == Cap * (CHOOSE n \in 1 .. Len(ChainFrom(b)) : ChainFrom(b)[n] = x[1]) + x[2]
    IN  CHOOSE x \in items : \A y \in items : pos(x) <= pos(y)

Goto(t, at) == th' = [th EXCEPT ![t].at = at]

(* lock_bucket: a thread at "lock..." spins until the version is even      *)
Lock(m) == version[m] % 2 = 0 /\ version' = [version EXCEPT ![m] = @ + 1]

--------------------------------------------------------------------------------
(* set: the call, and the bucket locked and searched                       *)
Set(t, k, v) ==
    /\ th[t].at = "idle" /\ writes < MaxWrites
    /\ th' = [th EXCEPT ![t] = [Idle EXCEPT !.at = "lockset", !.m = BucketOf[k], !.k = k, !.v = v]]
    /\ writes' = writes + 1
    /\ UNCHANGED <<shared, reads, table, ret>>

LockSet(t) ==
    /\ th[t].at = "lockset" /\ Lock(th[t].m)
    /\ LET m == th[t].m
           found == ItemsWith(m, th[t].k)
           free == ItemsWith(m, None)
           spot == First(m, IF found # {} THEN found ELSE free)
       IN  th' = [th EXCEPT ![t] =
              IF found \cup free = {} THEN [@ EXCEPT !.at = "alloc", !.b = EndOf(m)]
              ELSE [@ EXCEPT !.at = "key", !.b = spot[1], !.i = spot[2]]]
    /\ UNCHANGED <<next, key, val, head, holder, writes, reads, table, ret>>

(* alloc_extra_bucket, up to where readers can see the new bucket          *)
NoExtra_StaysLocked(t) ==
    /\ th[t].at = "alloc" /\ holder = None /\ head = 0
    /\ th' = [th EXCEPT ![t] = Idle]
    /\ UNCHANGED <<shared, writes, reads, table, ret>>

NoExtra(t) ==
    /\ th[t].at = "alloc" /\ holder = None /\ head = 0
    /\ th' = [th EXCEPT ![t].at = "unlock", ![t].k = None]  \* kInsufficientSpaceIndex
    /\ UNCHANGED <<shared, writes, reads, table, ret>>

Alloc(t) ==
    /\ th[t].at = "alloc" /\ holder = None /\ head # 0
    /\ holder' = t
    /\ head' = next[head]
    /\ next' = [next EXCEPT ![head] = 0]
    /\ th' = [th EXCEPT ![t].at = "link", ![t].x = head]
    /\ UNCHANGED <<version, key, val, writes, reads, table, ret>>

Link(t) ==
    /\ th[t].at = "link"
    /\ next' = [next EXCEPT ![th[t].b] = th[t].x]
    /\ holder' = None
    /\ th' = [th EXCEPT ![t].at = "key", ![t].b = th[t].x, ![t].i = 1]
    /\ UNCHANGED <<version, key, val, head, writes, reads, table, ret>>

(* set_item                                                                *)
SetKey(t) ==
    /\ th[t].at = "key"
    /\ key' = [key EXCEPT ![th[t].b][th[t].i] = th[t].k]
    /\ Goto(t, "value")
    /\ UNCHANGED <<version, next, val, head, holder, writes, reads, table, ret>>

SetValue(t) ==
    /\ th[t].at = "value"
    /\ val' = [val EXCEPT ![th[t].b][th[t].i] = th[t].v]
    /\ Goto(t, "unlock")
    /\ UNCHANGED <<version, next, key, head, holder, writes, reads, table, ret>>

(* unlock_bucket; the call returns                                         *)
Unlock(t) ==
    /\ th[t].at = "unlock"
    /\ version' = [version EXCEPT ![th[t].m] = @ + 1]
    /\ table' = IF th[t].k = None THEN table ELSE [table EXCEPT ![th[t].k] = th[t].v]
    /\ th' = [th EXCEPT ![t] = Idle]
    /\ UNCHANGED <<next, key, val, head, holder, writes, reads, ret>>

--------------------------------------------------------------------------------
(* del: the call, and the bucket locked and searched                       *)
Del(t, k) ==
    /\ th[t].at = "idle" /\ writes < MaxWrites
    /\ th' = [th EXCEPT ![t] = [Idle EXCEPT !.at = "lockdel", !.m = BucketOf[k], !.k = k]]
    /\ writes' = writes + 1
    /\ UNCHANGED <<shared, reads, table, ret>>

LockDel(t) ==
    /\ th[t].at = "lockdel" /\ Lock(th[t].m)
    /\ LET found == ItemsWith(th[t].m, th[t].k)
           spot == First(th[t].m, found)
       IN  th' = [th EXCEPT ![t] =
              IF found = {} THEN [@ EXCEPT !.at = "unlock", !.k = None]
              ELSE [@ EXCEPT !.at = "erase", !.b = spot[1], !.i = spot[2]]]
    /\ UNCHANGED <<next, key, val, head, holder, writes, reads, table, ret>>

Erase(t) ==
    /\ th[t].at = "erase"
    /\ key' = [key EXCEPT ![th[t].b][th[t].i] = None]
    /\ Goto(t, "hole")
    /\ UNCHANGED <<version, next, val, head, holder, writes, reads, table, ret>>

(* fill_hole: the item to move is the first of the last extra bucket       *)
MovedFrom(b) ==
    LET used == {i \in Slots : key[EndOf(b)][i] # None}
    IN  IF used = {} THEN 0 ELSE Min(used)

FillHole(t) ==
    /\ th[t].at = "hole"
    /\ th' = [th EXCEPT ![t] =
          IF next[@.b] = 0 THEN [@ EXCEPT !.at = "unlock"]
          ELSE IF MovedFrom(@.b) = 0
               THEN [@ EXCEPT !.at = "detach", !.x = BeforeEnd(th[t].b), !.then = "hole"]
               ELSE [@ EXCEPT !.at = "movekey"]]
    /\ UNCHANGED <<shared, writes, reads, table, ret>>

MoveKey(t) ==
    /\ th[t].at = "movekey"
    /\ LET b == th[t].b
       IN  key' = [key EXCEPT ![b][th[t].i] = key[EndOf(b)][MovedFrom(b)]]
    /\ Goto(t, "moveval")
    /\ UNCHANGED <<version, next, val, head, holder, writes, reads, table, ret>>

MoveValue(t) ==
    /\ th[t].at = "moveval"
    /\ LET b == th[t].b
       IN  val' = [val EXCEPT ![b][th[t].i] = val[EndOf(b)][MovedFrom(b)]]
    /\ Goto(t, "moved")
    /\ UNCHANGED <<version, next, key, head, holder, writes, reads, table, ret>>

(* the moved item is invalid now; an extra bucket without items is freed   *)
Moved_KeepKey(t) ==
    /\ th[t].at = "moved"
    /\ Goto(t, "unlock")
    /\ UNCHANGED <<shared, writes, reads, table, ret>>

Moved(t) ==
    /\ th[t].at = "moved"
    /\ LET b == th[t].b
           last == Cardinality({i \in Slots : key[EndOf(b)][i] # None}) = 1
       IN  /\ key' = [key EXCEPT ![EndOf(b)][MovedFrom(b)] = None]
           /\ th' = [th EXCEPT ![t] =
                 IF last THEN [@ EXCEPT !.at = "detach", !.x = BeforeEnd(b), !.then = "unlock"]
                 ELSE [@ EXCEPT !.at = "unlock"]]
    /\ UNCHANGED <<version, next, val, head, holder, writes, reads, table, ret>>

(* free_extra_bucket                                                       *)
Detach_KeepLink(t) ==
    /\ th[t].at = "detach"
    /\ th' = [th EXCEPT ![t].at = "push", ![t].x = next[th[t].x]]
    /\ UNCHANGED <<shared, writes, reads, table, ret>>

Detach(t) ==
    /\ th[t].at = "detach"
    /\ next' = [next EXCEPT ![th[t].x] = 0]
    /\ th' = [th EXCEPT ![t].at = "push", ![t].x = next[th[t].x]]
    /\ UNCHANGED <<version, key, val, head, holder, writes, reads, table, ret>>

Push(t) ==
    /\ th[t].at = "push" /\ holder = None
    /\ next' = [next EXCEPT ![th[t].x] = head]
    /\ head' = th[t].x
    /\ Goto(t, th[t].then)
    /\ UNCHANGED <<version, key, val, holder, writes, reads, table, ret>>

--------------------------------------------------------------------------------
(* get                                                                     *)
Get(t, k) ==
    /\ th[t].at = "idle" /\ reads < MaxReads
    /\ th' = [th EXCEPT ![t] = [Idle EXCEPT !.at = "begin", !.m = BucketOf[k], !.k = k]]
    /\ reads' = reads + 1
    /\ UNCHANGED <<shared, writes, table, ret>>

(* read_version_begin waits while the bucket is locked                     *)
GetBegin(t) ==
    /\ th[t].at = "begin" /\ version[th[t].m] % 2 = 0
    /\ th' = [th EXCEPT ![t].at = "find", ![t].start = version[th[t].m], ![t].b = th[t].m,
                        ![t].i = 1, ![t].got = None]
    /\ UNCHANGED <<shared, writes, reads, table, ret>>

(* find_item_index, one load at a time                                     *)
GetFind(t) ==
    /\ th[t].at = "find"
    /\ th' = [th EXCEPT ![t] =
          IF key[@.b][@.i] = @.k THEN [@ EXCEPT !.at = "copy"]
          ELSE IF @.i < Cap THEN [@ EXCEPT !.i = @ + 1]
               ELSE [@ EXCEPT !.at = "next"]]
    /\ UNCHANGED <<shared, writes, reads, table, ret>>

(* has_extra_bucket, and get_extra_bucket with a second load of the index: *)
(* a 0 is the bucket before the first extra one                            *)
GetNext(t) ==
    /\ th[t].at = "next"
    /\ Goto(t, IF next[th[t].b] = 0 THEN "end" ELSE "follow")
    /\ UNCHANGED <<shared, writes, reads, table, ret>>

GetFollow(t) ==
    /\ th[t].at = "follow"
    /\ LET x == next[th[t].b]
       IN  th' = [th EXCEPT ![t].at = "find", ![t].b = IF x = 0 THEN LastMain ELSE x, ![t].i = 1]
    /\ UNCHANGED <<shared, writes, reads, table, ret>>

GetCopy(t) ==
    /\ th[t].at = "copy"
    /\ th' = [th EXCEPT ![t].at = "end", ![t].got = val[th[t].b][th[t].i]]
    /\ UNCHANGED <<shared, writes, reads, table, ret>>

(* read_version_end                                                        *)
GetEnd_Unlocked(t) ==
    /\ th[t].at = "end"
    /\ \/ /\ version[th[t].m] % 2 = 1
          /\ Goto(t, "begin")
          /\ UNCHANGED ret
       \/ /\ version[th[t].m] % 2 = 0
          /\ ret' = [ret EXCEPT ![t] = <<th[t].k, th[t].got>>]
          /\ th' = [th EXCEPT ![t] = Idle]
    /\ UNCHANGED <<shared, writes, reads, table>>

GetEnd(t) ==
    /\ th[t].at = "end"
    /\ \/ /\ version[th[t].m] # th[t].start
          /\ Goto(t, "begin")
          /\ UNCHANGED ret
       \/ /\ version[th[t].m] = th[t].start
          /\ ret' = [ret EXCEPT ![t] = <<th[t].k, th[t].got>>]
          /\ th' = [th EXCEPT ![t] = Idle]
    /\ UNCHANGED <<shared, writes, reads, table>>

--------------------------------------------------------------------------------
Step(t) ==
    \/ LockSet(t) \/ LockDel(t)
    \/ NoExtra(t) \/ Alloc(t) \/ Link(t) \/ SetKey(t) \/ SetValue(t) \/ Unlock(t)
    \/ Erase(t) \/ FillHole(t) \/ MoveKey(t) \/ MoveValue(t) \/ Moved(t)
    \/ Detach(t) \/ Push(t)
    \/ GetBegin(t) \/ GetFind(t) \/ GetNext(t) \/ GetFollow(t) \/ GetCopy(t) \/ GetEnd(t)

Loading == writes < Len(Load)

Call(t) ==
    \/ /\ ~Loading
       /\ \E k \in Keys :
             \/ Set(t, k, writes + 1)    \* no two calls with the same value
             \/ Del(t, k)
             \/ Get(t, k)
    \/ /\ Loading /\ \A u \in Threads : th[u].at = "idle"
       /\ Set(t, Load[writes + 1], writes + 1)

Next == \E t \in Threads : Step(t) \/ Call(t)

Spec == Init /\ [][Next]_vars

(* A thread inside a call keeps running.                                   *)
FairSpec == Spec /\ \A t \in Threads : WF_vars(Step(t))

--------------------------------------------------------------------------------
(* While no writer holds a bucket, the items of its chain are exactly the  *)
(* pairs that the completed calls of set and del have left there, each key *)
(* once: moving items into holes and reusing extra buckets lose and repeat *)
(* nothing.                                                                *)
ContentsMatch ==
    \A m \in Main : version[m] % 2 = 0 =>
        LET items == {x \in Chain(m) \X Slots : key[x[1]][x[2]] # None}
            there == {k \in Keys : BucketOf[k] = m /\ table[k] # None}
        IN  /\ {<<key[x[1]][x[2]], val[x[1]][x[2]]>> : x \in items} = {<<k, table[k]>> : k \in there}
            /\ Cardinality(items) = Cardinality(there)

(* Every extra bucket is in one place: the free list, the chain of one     *)
(* main bucket, or the hands of the one thread that takes or frees it.     *)
FreeList == IF head = 0 THEN {} ELSE Chain(head)
InHand(t) == IF th[t].at \in {"link", "push"} THEN {th[t].x} ELSE {}

ExtraInOnePlace ==
    LET places == <<FreeList>> \o SetToSeq({Chain(m) \ {m} : m \in Main} \ {{}})
                    \o SetToSeq({InHand(t) : t \in Threads} \ {{}})
    IN  /\ UNION Range(places) = Extra
        /\ \A i, j \in 1 .. Len(places) : i # j => places[i] \cap places[j] = {}
        /\ \A m, n \in Main : m # n => Chain(m) \cap Chain(n) = {}

(* The table is a map: a get returns what the key has at the moment it     *)
(* returns, whatever writers do to the chain under it.                     *)
Map == INSTANCE KeyValueMap
ImplementsMap == Map!Spec

(* Once the threads make no new calls every call returns, those that wait  *)
(* in lock_bucket and read_version_begin included: no lock is left held    *)
(* and no walk along a chain, the free list or another bucket's chain goes *)
(* on for ever.                                                            *)
NoNewCalls == <>[][\A t \in Threads : ~Call(t)]_vars
CallsReturn == NoNewCalls => \A t \in Threads : th[t].at # "idle" ~> th[t].at = "idle"
================================================================================
