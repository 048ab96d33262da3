--------------------------------- MODULE Pmm --------------------------------
(***************************************************************************)
(* The physical memory manager (kernel/memory/pmm.c): one buddy allocator  *)
(* per region of memory, its free blocks on doubly linked lists through    *)
(* their descriptors, and the search for a region that has a block.  An    *)
(* address is a page number; 0 is the null link, as in the code.  A block  *)
(* of index i has 2^i pages.  What the pages hold is PageReset's subject.  *)
(* What a call does under its region's lock is one step, the prev_idx that *)
(* it puts into the next region's first descriptor without that region's   *)
(* lock included (lines 364, 368, 481): a change that is made there at the *)
(* same time, and that it may undo in the code, is left out.               *)
(***************************************************************************)
EXTENDS Integers, Sequences, FiniteSets

CONSTANTS
    BucketCount,    \* PMM_ALLOCATOR_BUCKET_COUNT; a region has 2^BucketCount pages
    Regions,        \* _pmm_allocator_count
    LowRegions,     \* regions below PMM_LOW_ALLOCATOR_LIMIT, a power of two
    Ranges,         \* the memory map: pairs of a first page and the end
    Procs, Counts   \* callers, and the sizes that they ask for

VARIABLES
    heap,       \* descriptors, buckets and bitmaps
    balancer,   \* _pmm_load_balancer.index
    proc,       \* the call of pmm_alloc of every caller
    owned       \* history: the blocks handed out, <<address, index>>

vars == <<heap, balancer, proc, owned>>

Buckets == 0..BucketCount - 1
Allocators == 0..Regions - 1
Used == BucketCount         \* PMM_ALLOCATOR_BLOCK_DESCRIPTOR_INDEX_USED
Last == Regions * 2^BucketCount
Pages == 0..Last            \* pmm_init makes a descriptor for the end as well

_get_block_size(i) == 2^i
_get_allocator_from_address(a) == a \div 2^BucketCount
Block(a, i) == a..a + 2^i - 1

(* The index for a number of pages: the logarithm, rounded up              *)
IndexOf(count) == CHOOSE i \in 0..count : 2^i >= count /\ \A j \in 0..i - 1 : 2^j < count

-----------------------------------------------------------------------------
(* The fields of the descriptors and buckets, in a record h.  The links of *)
(* a block that is in use, which are written before they are read again,   *)
(* are not kept.                                                           *)
_block_descriptor_deinit(h, a) ==
    [h EXCEPT !.idx[a] = Used, !.prev[a] = 0, !.next[a] = 0]
_block_descriptor_init(h, a, prev, i) ==
    [h EXCEPT !.idx[a] = i, !.prev[a] = prev, !.next[a] = 0]
_block_descriptor_set_prev_idx(h, a, i) == [h EXCEPT !.prev_idx[a] = i]
SetLink(h, field, a, v) == IF a = 0 THEN h ELSE [h EXCEPT ![field][a] = v]

(* A block joins its bucket at the tail (lines 138-147 and 481-490).       *)
Enqueue(h, a, i) ==
    LET r    == _get_allocator_from_address(a)
        tail == h.tail[r][i]
        made == _block_descriptor_init(
                    _block_descriptor_set_prev_idx(h, a + 2^i, i), a, tail, i)
        head == IF tail = 0 THEN [made EXCEPT !.head[r][i] = a]
                ELSE SetLink(made, "next", tail, a)
    IN  [head EXCEPT !.tail[r][i] = a, !.bitmap[r] = @ \union {i}]

(* Lines 461-478: a buddy leaves its bucket, from any place.               *)
Unlink(h, b, i) ==
    LET r    == _get_allocator_from_address(b)
        prev == h.prev[b]
        next == h.next[b]
        off  == _block_descriptor_deinit(h, b)
        fore == IF prev # 0 THEN SetLink(off, "next", prev, next)
                ELSE [off EXCEPT !.head[r][i] = next,
                                 !.bitmap[r] = IF next = 0 THEN @ \ {i} ELSE @]
    IN  IF next # 0 THEN SetLink(fore, "prev", next, prev)
        ELSE [fore EXCEPT !.tail[r][i] = prev]

Upper(a, i) == (a \div 2^i) % 2 = 1
Buddy(a, i) == IF Upper(a, i) THEN a - 2^i ELSE a + 2^i

(* pmm_dealloc, lines 452-490: merge with free buddies, then join a list.  *)
RECURSIVE Merge(_, _, _)
Merge(h, a, i) ==
    LET b == Buddy(a, i)
    IN  IF \/ i = BucketCount - 1
           \/ Upper(a, i) /\ h.prev_idx[a] # i
           \/ h.idx[b] # i
        THEN Enqueue(h, a, i)
        ELSE Merge(Unlink(h, b, i), IF a < b THEN a ELSE b, i + 1)

(* pmm_alloc, lines 365-373: the upper halves become the only block of     *)
(* their buckets, which are empty because the lowest one was taken.        *)
RECURSIVE Split(_, _, _, _)
Split(h, out, j, i) ==
    IF j = i THEN h
    ELSE LET r == _get_allocator_from_address(out)
             s == out + 2^(j - 1)
             g == _block_descriptor_init(
                      _block_descriptor_set_prev_idx(h, s + 2^(j - 1), j - 1), s, 0, j - 1)
         IN  Split([g EXCEPT !.head[r][j - 1] = s, !.tail[r][j - 1] = s,
                             !.bitmap[r] = @ \union {j - 1}], out, j - 1, i)

Fits(h, r, i) == {j \in h.bitmap[r] : j >= i}
LowestFit(h, r, i) == CHOOSE j \in Fits(h, r, i) : \A k \in Fits(h, r, i) : j <= k

(* Faulty variant: a block that is larger than needed is not split.        *)
TakenWhole(h, r, i) ==
    LET j    == LowestFit(h, r, i)
        out  == h.head[r][j]
        next == h.next[out]
        off  == IF next = 0 THEN [h EXCEPT !.head[r][j] = 0, !.tail[r][j] = 0,
                                           !.bitmap[r] = @ \ {j}]
                ELSE SetLink([h EXCEPT !.head[r][j] = next], "prev", next, 0)
    IN  _block_descriptor_set_prev_idx(_block_descriptor_deinit(off, out), out + 2^i, i)

(* Lines 347-373 *)
Taken(h, r, i) ==
    LET j    == LowestFit(h, r, i)
        out  == h.head[r][j]
        next == h.next[out]
        off  == IF next = 0 THEN [h EXCEPT !.head[r][j] = 0, !.tail[r][j] = 0,
                                           !.bitmap[r] = @ \ {j}]
                ELSE SetLink([h EXCEPT !.head[r][j] = next], "prev", next, 0)
    IN  Split(_block_descriptor_set_prev_idx(_block_descriptor_deinit(off, out), out + 2^i, i),
              out, j, i)

(* _add_memory_range: aligned blocks, as large as fits                     *)
RECURSIVE _add_memory_range(_, _, _)
_add_memory_range(h, a, end) ==
    IF a >= end THEN h
    ELSE LET i == CHOOSE i \in Buckets :
                     /\ a % 2^i = 0 /\ 2^i <= end - a
                     /\ \A j \in Buckets : a % 2^j = 0 /\ 2^j <= end - a => j <= i
         IN  _add_memory_range(Enqueue(h, a, i), a + 2^i, end)

Empty ==
    [idx |-> [a \in Pages |-> Used], prev_idx |-> [a \in Pages |-> 0],
     prev |-> [a \in Pages |-> 0], next |-> [a \in Pages |-> 0],
     head |-> [r \in Allocators |-> [i \in Buckets |-> 0]],
     tail |-> [r \in Allocators |-> [i \in Buckets |-> 0]],
     bitmap |-> [r \in Allocators |-> {}]]

RECURSIVE Registered(_, _)
Registered(h, S) ==
    IF S = {} THEN h
    ELSE LET m == CHOOSE m \in S : \A n \in S : m[1] <= n[1]
         IN  Registered(_add_memory_range(h, m[1], m[2]), S \ {m})

Idle == [pc |-> "idle", i |-> 0, index |-> 0, base |-> 0, low |-> FALSE]

(* pmm_init and pmm_init_high_memory *)
Init ==
    /\ heap = Registered(Empty, Ranges)
    /\ balancer = 0 /\ owned = {}
    /\ proc = [p \in Procs |-> Idle]

-----------------------------------------------------------------------------
(* pmm_alloc, lines 312-330: the next region, from the balancer's index,   *)
(* whose bitmap, read without its lock, shows a block.  When no region has *)
(* one the loop does not end: the action is never enabled.                 *)
Turn(n) == (balancer + n) % Regions
Wrap(index, low) == IF low THEN index % LowRegions ELSE index

Choose(p, count, low) ==
    LET i == IndexOf(count)
        n == CHOOSE n \in Allocators : /\ Fits(heap, Turn(n), i) # {}
                                       /\ \A m \in 0..n - 1 : Fits(heap, Turn(m), i) = {}
    IN  /\ proc[p].pc = "idle"
        /\ \E r \in Allocators : Fits(heap, r, i) # {}
        /\ balancer' = Turn(n + 1)
        /\ proc' = [proc EXCEPT ![p] = [pc |-> "search", i |-> i, low |-> low,
                       index |-> Wrap(Turn(n), low), base |-> Wrap(Turn(n), low)]]
        /\ UNCHANGED <<heap, owned>>

(* Lines 331-345 under the region's lock: nothing left, go on; back at the *)
(* first region the kernel stops.                                          *)
NextIndex(p) == LET k == Wrap(proc[p].index + 1, proc[p].low) IN IF k = Regions THEN 0 ELSE k

Retry(p) ==
    /\ proc[p].pc = "search" /\ Fits(heap, proc[p].index, proc[p].i) = {}
    /\ proc' = [proc EXCEPT ![p].index = NextIndex(p),
                            ![p].pc = IF NextIndex(p) = proc[p].base THEN "panic" ELSE "search"]
    /\ UNCHANGED <<heap, balancer, owned>>

(* Lines 346-374 *)
Take(p) ==
    LET r   == proc[p].index
        i   == proc[p].i
        out == heap.head[r][LowestFit(heap, r, i)]
    IN  /\ proc[p].pc = "search" /\ Fits(heap, r, i) # {}
        /\ heap' = Taken(heap, r, i)
        /\ owned' = owned \union {<<out, i>>}
        /\ proc' = [proc EXCEPT ![p] = Idle]
        /\ UNCHANGED balancer

(* pmm_dealloc, lines 450-491 under the region's lock; any thread may give *)
(* back a block, of the size that was asked for.                           *)
pmm_dealloc(b) ==
    /\ b \in owned
    /\ heap' = Merge(heap, b[1], b[2])
    /\ owned' = owned \ {b}
    /\ UNCHANGED <<balancer, proc>>

Running == \A p \in Procs : proc[p].pc # "panic"

Next ==
    /\ Running
    /\ \/ \E p \in Procs : \/ \E n \in Counts, low \in BOOLEAN : Choose(p, n, low)
                           \/ Retry(p) \/ Take(p)
       \/ \E b \in owned : pmm_dealloc(b)

Spec == Init /\ [][Next]_vars

-----------------------------------------------------------------------------
Memory == UNION {m[1]..m[2] - 1 : m \in Ranges}
Free == {<<a, heap.idx[a]>> : a \in {a \in Pages : heap.idx[a] # Used}}

(* Free blocks and the blocks handed out cover the memory and overlap      *)
(* nowhere: no page is lost, given to two callers or in two lists, however *)
(* blocks are split and merged.                                            *)
BlocksTile ==
    LET all == Free \union owned
    IN  /\ UNION {Block(b[1], b[2]) : b \in all} = Memory
        /\ \A b, c \in all : b # c => Block(b[1], b[2]) \intersect Block(c[1], c[2]) = {}
        /\ \A b \in all : b[1] % 2^b[2] = 0

(* The blocks of one bucket, in the order of their links, at most n long   *)
RECURSIVE Walk(_, _)
Walk(a, n) == IF a = 0 \/ n = 0 THEN <<>> ELSE <<a>> \o Walk(heap.next[a], n - 1)

(* Every bucket's list holds the free blocks of its size, each once, is    *)
(* linked in both directions and ends at its tail, and the bitmap shows    *)
(* the buckets that are not empty: "List head corrupted" is never reported *)
(* and the unlocked search is not misled.                                  *)
ListsAreSound ==
    \A r \in Allocators : \A i \in Buckets :
        LET list == Walk(heap.head[r][i], Last)
            n    == Cardinality({b \in Free : b[2] = i /\ _get_allocator_from_address(b[1]) = r})
        IN  /\ Len(list) = n
            /\ \A k \in 1..n : heap.idx[list[k]] = i
            /\ \A k \in 1..n : heap.prev[list[k]] = IF k = 1 THEN 0 ELSE list[k - 1]
            /\ heap.tail[r][i] = IF n = 0 THEN 0 ELSE list[n]
            /\ i \in heap.bitmap[r] <=> n # 0

(* No two free buddies stay apart, so that memory that was given back can  *)
(* be asked for in blocks as large as before.  (The merge looks at the     *)
(* index of the block before only to skip a look at the descriptor.)       *)
NoFreeBuddies ==
    \A b \in Free : b[2] < BucketCount - 1 => <<Buddy(b[1], b[2]), b[2]>> \notin Free
=============================================================================
