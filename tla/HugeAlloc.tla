------------------------------- MODULE HugeAlloc -------------------------------
(***************************************************************************)
(* The hugepage allocator of an Rpc (util/huge_alloc.h, huge_alloc.cc): a  *)
(* free list of Buffers per size class, larger Buffers split in two when a *)
(* class is empty, more hugepages reserved when all larger classes are.    *)
(*                                                                         *)
(* Sizes and addresses are in units of k_min_class_size (64 bytes):        *)
(* get_class only looks at (size - 1) >> 6.  In the code k_num_classes is  *)
(* 18 and k_max_class_size is 2^18 units (16 MB); the class sizes are 2^0  *)
(* to 2^17 units.  An access to freelist_ beyond k_num_classes - 1 is      *)
(* undefined behaviour: "corrupt" records it and ends the run.             *)
(***************************************************************************)
EXTENDS Integers, Sequences, FiniteSets, FiniteSetsExt, SequencesExt

CONSTANTS
    k_num_classes,      \* free lists
    BsrlOfZero,         \* what bsrl may leave in its destination for an operand of 0
    MaxClassBit,        \* k_max_class_size = 2^MaxClassBit units
    InitialSize,        \* initial_size given to the constructor
    Hugepages,          \* units of hugepage memory the system has
    Sizes,              \* sizes the user asks for
    MaxBuffers          \* bound: Buffers the user holds at a time

ASSUME ClassAssumption == k_num_classes \in Nat \ {0} /\ MaxClassBit \in Nat
ASSUME BsrlAssumption == BsrlOfZero \subseteq Nat /\ BsrlOfZero # {}
ASSUME MemoryAssumption == InitialSize \in Nat /\ Hugepages \in Nat
ASSUME UserAssumption == Sizes \subseteq 1 .. 2^MaxClassBit /\ MaxBuffers \in Nat

VARIABLES
    freelist,   \* freelist_
    user,       \* Buffers handed out, each with the size asked for
    reserved,   \* stats_.shm_reserved_; regions are laid out one after another
    prev,       \* prev_allocation_size_
    user_tot,   \* stats_.user_alloc_tot_
    corrupt     \* freelist_ has been indexed out of range

vars == <<freelist, user, reserved, prev, user_tot, corrupt>>

Classes == 0 .. (k_num_classes - 1)
k_max_class_size == 2^MaxClassBit
class_max_size(c) == 2^c

Buffer(buf, size) == [buf |-> buf, size |-> size]
Handed(b, want) == [buf |-> b.buf, size |-> b.size, want |-> want]

\* The index of the most significant bit, from 1, as the set of results that
\* are possible: the instruction set leaves that of bsrl open for 0.
msb_index(x) ==
    IF x = 0 THEN BsrlOfZero ELSE {CHOOSE i \in 1 .. x : 2^(i - 1) <= x /\ x < 2^i}

\* Mutant: rounds down.
get_class_floor(size) ==
    IF size = 1 THEN msb_index(0) ELSE {c - 1 : c \in msb_index(size - 1)}

get_class(size) == msb_index(size - 1)

\* The reference definition the header keeps beside get_class.
get_class_slow(size) ==
    LET up[c \in 0 .. MaxClassBit] ==
            IF c = MaxClassBit \/ size <= class_max_size(c) THEN c ELSE up[c + 1]
    IN  up[0]

Init ==
    /\ freelist = [c \in Classes |-> <<>>]
    /\ user = {} /\ user_tot = 0
    /\ reserved = 0
    /\ prev = IF InitialSize < k_max_class_size THEN k_max_class_size ELSE InitialSize
    /\ corrupt = FALSE

-----------------------------------------------------------------------------
\* Mutant: the second half starts below the region.
split_below(fl, c) ==
    LET b == Last(fl[c])
        half == b.size \div 2
    IN  [fl EXCEPT ![c] = Front(@),
                   ![c - 1] = @ \o <<Buffer(b.buf, half), Buffer(b.buf - half, half)>>]

\* Mutant: the two halves are the same half.
split_same(fl, c) ==
    LET b == Last(fl[c])
        half == b.size \div 2
    IN  [fl EXCEPT ![c] = Front(@),
                   ![c - 1] = @ \o <<Buffer(b.buf, half), Buffer(b.buf, half)>>]

\* split(c): the last Buffer of class c becomes two of class c - 1.
split(fl, c) ==
    LET b == Last(fl[c])
        half == b.size \div 2
    IN  [fl EXCEPT ![c] = Front(@),
                   ![c - 1] = @ \o <<Buffer(b.buf, half), Buffer(b.buf + half, half)>>]

\* The loop of alloc: split class "from" down to class c.
SplitDown(fl, from, c) ==
    LET f[k \in c .. from] == IF k = from THEN fl ELSE split(f[k + 1], k + 1)
    IN  f[c]

\* alloc_raw gets a region of its own, or fails when the hugepages are used up.
alloc_raw_succeeds(size) == reserved + size <= Hugepages

\* The free lists after reserve_hugepages(size) succeeded.
Reserve(fl, size) ==
    [fl EXCEPT ![k_num_classes - 1] =
        @ \o [i \in 1 .. (size \div k_max_class_size) |->
                 Buffer(reserved + (i - 1) * k_max_class_size, k_max_class_size)]]

\* Mutant: the Buffer stays in the free list.
alloc_from_class_kept(fl, c, want) ==
    /\ user' = user \cup {Handed(Last(fl[c]), want)}
    /\ freelist' = fl
    /\ user_tot' = user_tot + Last(fl[c]).size

alloc_from_class(fl, c, want) ==
    /\ user' = user \cup {Handed(Last(fl[c]), want)}
    /\ freelist' = [fl EXCEPT ![c] = Front(@)]
    /\ user_tot' = user_tot + Last(fl[c]).size

\* Classes above c with a free Buffer.
Larger(c) == {k \in Classes : k > c /\ freelist[k] # <<>>}

\* alloc(size), by where the Buffer comes from.
alloc_direct(size, c) ==
    /\ freelist[c] # <<>>
    /\ alloc_from_class(freelist, c, size)
    /\ UNCHANGED <<reserved, prev, corrupt>>

alloc_split(size, c) ==
    /\ freelist[c] = <<>> /\ Larger(c) # {}
    /\ alloc_from_class(SplitDown(freelist, Min(Larger(c)), c), c, size)
    /\ UNCHANGED <<reserved, prev, corrupt>>

alloc_reserve(size, c) ==
    /\ freelist[c] = <<>> /\ Larger(c) = {}
    /\ IF alloc_raw_succeeds(2 * prev)
       THEN /\ alloc_from_class(SplitDown(Reserve(freelist, 2 * prev), k_num_classes - 1, c), c, size)
            /\ reserved' = reserved + 2 * prev
            /\ prev' = 2 * prev
       ELSE UNCHANGED <<freelist, user, user_tot, reserved, prev>>
    /\ UNCHANGED corrupt

alloc(size) ==
    \E c \in get_class(size) :
    /\ ~corrupt /\ Cardinality(user) < MaxBuffers
    /\ \/ c \in Classes /\ (alloc_direct(size, c) \/ alloc_split(size, c) \/ alloc_reserve(size, c))
       \/ c \notin Classes /\ corrupt' = TRUE
          /\ UNCHANGED <<freelist, user, reserved, prev, user_tot>>

\* Mutant: the Buffer goes to the next larger class.
free_buf_up(b) ==
    \E c \in get_class(2 * b.size) :
    /\ ~corrupt
    /\ user' = user \ {b}
    /\ user_tot' = user_tot - b.size
    /\ c \in Classes
    /\ freelist' = [freelist EXCEPT ![c] = Append(@, Buffer(b.buf, b.size))]
    /\ UNCHANGED <<reserved, prev, corrupt>>

\* free_buf: back to the free list of the Buffer's class size.
free_buf(b) ==
    \E c \in get_class(b.size) :
    /\ ~corrupt
    /\ user' = user \ {b}
    /\ user_tot' = user_tot - b.size
    /\ \/ /\ c \in Classes
          /\ freelist' = [freelist EXCEPT ![c] = Append(@, Buffer(b.buf, b.size))]
          /\ UNCHANGED corrupt
       \/ c \notin Classes /\ corrupt' = TRUE /\ UNCHANGED freelist
    /\ UNCHANGED <<reserved, prev>>

Next ==
    \/ \E size \in Sizes : alloc(size)
    \/ \E b \in user : free_buf(b)

Spec == Init /\ [][Next]_vars

-----------------------------------------------------------------------------
(* Properties. *)

FreeBuffers == UNION {Range(freelist[c]) : c \in Classes}
Extent(b) == b.buf .. (b.buf + b.size - 1)
SumSizes(bs) == FoldSet(LAMBDA b, n : n + b.size, 0, bs)

(* Buffers have a size between one unit and k_max_class_size, and the      *)
(* statistics user_alloc_tot_, a size_t that free_buf decrements, never    *)
(* goes below zero (huge_alloc.h).                                         *)
TypeOK ==
    /\ freelist \in [Classes -> Seq([buf : Nat, size : 1 .. k_max_class_size])]
    /\ user \subseteq [buf : Nat, size : 1 .. k_max_class_size, want : Sizes]
    /\ reserved \in 0 .. Hugepages /\ prev \in Nat /\ user_tot \in Nat
    /\ corrupt \in BOOLEAN

\* No two Buffers share memory, whether free or handed out, and none reaches
\* beyond what has been reserved, through any sequence of splits, frees and
\* reservations.
NoOverlap ==
    /\ \A b \in FreeBuffers \cup user : Extent(b) \subseteq 0 .. (reserved - 1)
    /\ \A b, d \in user : b # d => Extent(b) \cap Extent(d) = {}
    /\ \A b \in user, d \in FreeBuffers : Extent(b) \cap Extent(d) = {}
    /\ \A c, k \in Classes : \A i \in DOMAIN freelist[c], j \in DOMAIN freelist[k] :
          <<c, i>> # <<k, j>> => Extent(freelist[c][i]) \cap Extent(freelist[k][j]) = {}

\* Every unit of the reserved memory is in exactly one free list or with the user,
\* and get_stat_user_alloc_tot says how much of it the user holds.
Conserved ==
    /\ ~corrupt => SumSizes(FreeBuffers) + SumSizes(user) = reserved
    /\ user_tot = SumSizes(user)

\* A Buffer is at least as large as the size asked for, though a free list may
\* hold Buffers of more than one size.
LargeEnough == \A b \in user : b.size >= b.want

\* The bit trick of get_class computes what get_class_slow, its "reference
\* function" (huge_alloc.h:165), computes, for every size allocated or freed that
\* is larger than the smallest class; for the smallest class it is BsrlOfZero.
ClassIndexRight ==
    \A b \in user : \A size \in {b.want, b.size} :
        size > class_max_size(0) => get_class(size) = {get_class_slow(size)}

================================================================================
