-------------------------------- MODULE Heap --------------------------------
(***************************************************************************)
(* The heap of user programs, lib/sys/sys/heap/heap.c: blocks with a       *)
(* header, free ones in doubly linked lists by the logarithm of their      *)
(* size, a bitmap of the lists that are not empty, and mappings of their   *)
(* own for large requests.  The heap has no lock and one thread uses it.   *)
(*                                                                         *)
(* Sizes and addresses count units of SYS_HEAP_MIN_ALIGNMENT; a request is *)
(* a number of units.  The size of the block before, which dealloc looks   *)
(* up for a merge that is not written, is left out.                        *)
(***************************************************************************)
EXTENDS Integers, Sequences, FiniteSets, FiniteSetsExt

CONSTANTS
    Header,       \* units of sys_heap_block_header_t: 2
    GrowSize,     \* SYS_HEAP_GROW_SIZE
    BucketCount,  \* SYS_HEAP_BUCKET_COUNT
    PageSize,     \* units of a page
    Requests,     \* sizes asked for
    MaxRegions,   \* mappings made to grow the heap
    MaxBlocks     \* blocks in use at a time

VARIABLES
    block,        \* headers by address: size, used, dedicated, prev, next
    head,         \* heap->buckets
    bitmap,       \* heap->bucket_bitmap, the set of its bits
    regions,      \* mappings made to grow the heap
    held          \* history: what the program holds, by address

vars == <<block, head, bitmap, regions, held>>

NULL == -1
Buckets == 0 .. BucketCount - 1
DedicatedBase == GrowSize * MaxRegions  \* external: where other mappings lie

Init ==
    /\ block = [a \in {} |-> 0] /\ held = [a \in {} |-> 0]
    /\ head = [i \in Buckets |-> NULL] /\ bitmap = {} /\ regions = 0

-----------------------------------------------------------------------------
(* A heap is a record of block, head and bitmap; these operators return    *)
(* the heap after one of the functions of heap.c.                          *)
Heap == [block |-> block, head |-> head, bitmap |-> bitmap]
With(f, a, v) == [b \in DOMAIN f \union {a} |-> IF b = a THEN v ELSE f[b]]
Without(f, a) == [b \in DOMAIN f \ {a} |-> f[b]]
NewHeader(size, used, dedicated) ==
    [size |-> size, used |-> used, dedicated |-> dedicated, prev |-> NULL, next |-> NULL]
AlignUp(n, a) == ((n + a - 1) \div a) * a

BucketIndex(size) ==
    LET log == CHOOSE i \in 0 .. size : 2^i <= size /\ size < 2^(i + 1)
    IN  Min({log, BucketCount - 1})

InsertBlock(h, a) ==
    LET i == BucketIndex(h.block[a].size)
        next == h.head[i]
        linked == [h.block EXCEPT ![a].prev = NULL, ![a].next = next]
    IN  [block |-> IF next = NULL THEN linked ELSE [linked EXCEPT ![next].prev = a],
         head |-> [h.head EXCEPT ![i] = a],
         bitmap |-> h.bitmap \union {i}]

\* Faulty variant: the bitmap keeps the bit of a list that became empty.
RemoveBlockKeepsBit(h, a) ==
    LET i == BucketIndex(h.block[a].size)
        next == h.block[a].next
        prev == h.block[a].prev
        forward == IF next = NULL THEN h.block ELSE [h.block EXCEPT ![next].prev = prev]
    IN  [block |-> IF prev = NULL THEN forward ELSE [forward EXCEPT ![prev].next = next],
         head |-> IF prev = NULL THEN [h.head EXCEPT ![i] = next] ELSE h.head,
         bitmap |-> h.bitmap]

RemoveBlock(h, a) ==
    LET i == BucketIndex(h.block[a].size)
        next == h.block[a].next
        prev == h.block[a].prev
        forward == IF next = NULL THEN h.block ELSE [h.block EXCEPT ![next].prev = prev]
    IN  [block |-> IF prev = NULL THEN forward ELSE [forward EXCEPT ![prev].next = next],
         head |-> IF prev = NULL THEN [h.head EXCEPT ![i] = next] ELSE h.head,
         bitmap |-> IF prev = NULL /\ next = NULL THEN h.bitmap \ {i} ELSE h.bitmap]

(* The blocks of a list, in order                                          *)
Listed(h, i) ==
    LET most == Cardinality(DOMAIN h.block)
        at[n \in 1 .. most] ==
            IF n = 1 THEN h.head[i]
            ELSE LET last == at[n - 1] IN IF last = NULL THEN NULL ELSE h.block[last].next
    IN  SelectSeq([n \in 1 .. most |-> at[n]], LAMBDA a : a # NULL)

(* The label _grow_heap: a mapping between two blocks in use               *)
Grown(h, r) ==
    LET base == r * GrowSize
        free == GrowSize - 2 * Header
        first == With(h.block, base, NewHeader(Header, TRUE, FALSE))
        second == With(first, base + Header, NewHeader(free, FALSE, FALSE))
        third == With(second, base + GrowSize - Header, NewHeader(Header, TRUE, FALSE))
    IN  InsertBlock([h EXCEPT !.block = third], base + Header)

(* The search of sys_heap_alloc: the first block of its own list that is   *)
(* large enough, else the head of the next list that is not empty          *)
Found(h, size) ==
    LET i == BucketIndex(size)
        own == Listed(h, i)
        fit == {n \in DOMAIN own : h.block[own[n]].size >= size}
        above == {j \in h.bitmap : j > i}
    IN  IF i \in h.bitmap /\ fit # {} THEN own[Min(fit)]
        ELSE IF above # {} THEN h.head[Min(above)]
        ELSE NULL

(* The label _header_found                                                 *)
Taken(h, a, size) ==
    LET out == RemoveBlock(h, a)
        total == out.block[a].size
        left == [out EXCEPT !.block = With(@, a + size, NewHeader(total - size, FALSE, FALSE))]
        split == InsertBlock(left, a + size)
    IN  IF total <= size + Header
        THEN [out EXCEPT !.block[a] = NewHeader(total, TRUE, FALSE)]
        ELSE [split EXCEPT !.block[a] = NewHeader(size, TRUE, FALSE)]

IsDedicated(size) == size >= 2^BucketCount

(* sys_heap_alloc of a size with its header: the heap, the address and the *)
(* mappings                                                                *)
Alloc(h, size) ==
    LET grows == Found(h, size) = NULL
        from == IF grows THEN Grown(h, regions) ELSE h
        at == Found(from, size)
    IN  [heap |-> Taken(from, at, size), at |-> at,
         regions |-> IF grows THEN regions + 1 ELSE regions]

(* External: sys_memory_map finds room beside all that is mapped           *)
Mapped(h) ==
    LET room == AlignUp(Max(Requests) + Header, PageSize)
    IN  Min({DedicatedBase + k * room : k \in 0 .. MaxBlocks} \ DOMAIN h.block)
AllocDedicated(h, size) ==
    LET pages == AlignUp(size, PageSize)
    IN  [heap |-> [h EXCEPT !.block = With(@, Mapped(h), NewHeader(pages, TRUE, TRUE))],
         at |-> Mapped(h), regions |-> regions]

\* Faulty variant: the block keeps its size.
MergedShort(h, a) ==
    LET next == a + h.block[a].size
        out == RemoveBlock(h, next)
    IN  IF h.block[next].used THEN h ELSE [out EXCEPT !.block = Without(@, next)]

(* A free block takes in the block after it, when that is free too         *)
Merged(h, a) ==
    LET next == a + h.block[a].size
        out == RemoveBlock(h, next)
    IN  IF h.block[next].used THEN h
        ELSE [out EXCEPT !.block = Without([@ EXCEPT ![a].size = @ + h.block[next].size], next)]

(* sys_heap_dealloc                                                        *)
Dealloc(h, a) ==
    IF h.block[a].dedicated THEN [h EXCEPT !.block = Without(@, a)]
    ELSE InsertBlock(Merged([h EXCEPT !.block[a].used = FALSE], a), a)

(* The part of sys_heap_realloc that makes a block smaller                 *)
Shrunk(h, a, size) ==
    LET rest == a + size
        extra == h.block[a].size - size
        cut == With([h.block EXCEPT ![a].size = size], rest, NewHeader(extra, FALSE, FALSE))
    IN  IF extra <= Header THEN h
        ELSE InsertBlock(Merged([h EXCEPT !.block = cut], rest), rest)

-----------------------------------------------------------------------------
Becomes(h) == block' = h.block /\ head' = h.head /\ bitmap' = h.bitmap

(* What the program holds: the units asked for, those whose contents were  *)
(* brought over and those that had to be                                   *)
Holding(n) == [asked |-> n, copied |-> n, due |-> n]

HeapAlloc(n) ==
    LET size == n + Header
        new == IF IsDedicated(size) THEN AllocDedicated(Heap, size) ELSE Alloc(Heap, size)
    IN  /\ Cardinality(DOMAIN held) < MaxBlocks /\ new.regions <= MaxRegions
        /\ Becomes(new.heap) /\ regions' = new.regions
        /\ held' = With(held, new.at, Holding(n))

HeapDealloc(a) ==
    /\ Becomes(Dealloc(Heap, a)) /\ held' = Without(held, a)
    /\ UNCHANGED regions

(* sys_heap_realloc that moves the block: dedicated blocks, and all blocks *)
(* that grow.  The rest is copied before the old block is freed.           *)
ReallocMoves(a, n) ==
    LET size == n + Header
        old == block[a].size
        dedicated == IsDedicated(size)
        new == IF dedicated THEN AllocDedicated(Heap, size) ELSE Alloc(Heap, size)
        copied == IF block[a].dedicated /\ ~dedicated THEN size - Header ELSE old - Header
    IN  /\ \/ dedicated /\ AlignUp(size, PageSize) > old
           \/ ~dedicated /\ (block[a].dedicated \/ size > old)
        /\ new.regions <= MaxRegions
        /\ Becomes(Dealloc(new.heap, a)) /\ regions' = new.regions
        /\ held' = With(Without(held, a), new.at,
                        [asked |-> n, copied |-> copied, due |-> Min({n, held[a].asked})])

(* sys_heap_realloc in place.  A dedicated block that should shrink to     *)
(* another dedicated size stops the thread instead.                        *)
ReallocStays(a, n) ==
    LET size == n + Header
        old == block[a].size
        pages == AlignUp(size, PageSize)
    IN  /\ \/ IsDedicated(size) /\ pages = old /\ UNCHANGED <<block, head, bitmap>>
           \/ ~IsDedicated(size) /\ ~block[a].dedicated /\ size <= old /\ Becomes(Shrunk(Heap, a, size))
        /\ held' = [held EXCEPT ![a] = Holding(n)] /\ UNCHANGED regions

Next ==
    \/ \E n \in Requests : HeapAlloc(n)
    \/ \E a \in DOMAIN held : \/ HeapDealloc(a)
                              \/ \E n \in Requests : ReallocMoves(a, n) \/ ReallocStays(a, n)

Spec == Init /\ [][Next]_vars

-----------------------------------------------------------------------------
Free(a) == ~block[a].used

(* The blocks of every mapping follow each other without gap or overlap,   *)
(* and each thing the program holds is a block in use with room for it.    *)
HeapIsTiled ==
    /\ \A r \in 0 .. regions - 1 :
          LET own == {a \in DOMAIN block : a >= r * GrowSize /\ a < (r + 1) * GrowSize}
          IN  /\ r * GrowSize \in own
              /\ \A a \in own : a + block[a].size \in own \union {(r + 1) * GrowSize}
              /\ MapThenSumSet(LAMBDA a : block[a].size, own) = GrowSize
    /\ \A a \in DOMAIN held : /\ a \in DOMAIN block /\ block[a].used
                              /\ held[a].asked + Header <= block[a].size

(* A block is free exactly when it is in the list of its size, once, with  *)
(* links that agree; the bitmap has the bits of the lists with blocks.     *)
FreeListsAreExact ==
    LET lists == [i \in Buckets |-> Listed(Heap, i)]
    IN  /\ \A i \in Buckets :
              /\ (i \in bitmap) = (lists[i] # <<>>)
              /\ \A n \in DOMAIN lists[i] :
                    /\ Free(lists[i][n]) /\ BucketIndex(block[lists[i][n]].size) = i
                    /\ block[lists[i][n]].prev = (IF n = 1 THEN NULL ELSE lists[i][n - 1])
        /\ \A a \in DOMAIN block : Free(a) =>
              Cardinality({n \in DOMAIN lists[BucketIndex(block[a].size)] :
                              lists[BucketIndex(block[a].size)][n] = a}) = 1

(* sys_heap_realloc brings over all that both sizes have room for, and     *)
(* writes no further than the new block.                                   *)
ContentsAreKept ==
    \A a \in DOMAIN held : /\ held[a].copied >= held[a].due
                           /\ held[a].copied + Header <= block[a].size
=============================================================================
