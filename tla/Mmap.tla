--------------------------------- MODULE Mmap -------------------------------
(***************************************************************************)
(* The memory map of a process (kernel/mmap/mmap.c) with its page tables   *)
(* (kernel/memory/vmm.c): regions are carved from the heap, which grows    *)
(* down, or from freed regions kept in groups by length; pages are mapped  *)
(* by the faults of the process's threads.  Addresses count pages.         *)
(***************************************************************************)
EXTENDS Integers, Sequences, FiniteSets, FiniteSetsExt, SequencesExt

CONSTANTS
    Bottom, Top,    \* mmap_init: the addresses of the map
    Lengths,        \* lengths that are asked for
    GuardPages,     \* MMAP_STACK_GUARD_PAGE_COUNT
    Threads, None

VARIABLES
    heap,       \* heap_address
    regions,    \* address_tree: address, length and pages of guard before it
    groups,     \* length_tree: by length, the addresses of free regions, newest first
    mapped,     \* pages that are present in the page tables
    fault,      \* the page whose fault a thread has taken, or None
    panicked

vars == <<heap, regions, groups, mapped, fault, panicked>>

Init ==
    /\ heap = Top /\ regions = {} /\ mapped = {}
    /\ groups = [n \in 1..Top - Bottom |-> <<>>]
    /\ fault = [t \in Threads |-> None]
    /\ panicked = FALSE

Pages(r) == r.address .. r.address + r.length - 1
Whole(r) == r.address - r.guard .. r.address + r.length - 1

(* free_address_tree *)
Free(g) == UNION {{[address |-> a, length |-> n] : a \in ToSet(g[n])} : n \in DOMAIN g}

_pop_free_region(g, f) == [g EXCEPT ![f.length] = SelectSeq(@, LAMBDA a : a # f.address)]

(* Only the free region before the new one is merged with it; one at the   *)
(* bottom of the heap becomes heap again.  The result: groups and heap     *)
_push_free_region(g, h, address, length) ==
    LET before == {f \in Free(g) : f.address + f.length = address}
        f == CHOOSE x \in before : TRUE
        merged == before # {}
        a == IF merged THEN f.address ELSE address
        n == IF merged THEN length + f.length ELSE length
        rest == IF merged THEN _pop_free_region(g, f) ELSE g
    IN  IF a = h THEN [groups |-> rest, heap |-> h + n]
        ELSE [groups |-> [rest EXCEPT ![n] = <<a>> \o @], heap |-> h]

-----------------------------------------------------------------------------
(* mmap_alloc from the shortest free region that is long enough, the rest  *)
(* of which is free again ...                                              *)
Fits(n) == {m \in DOMAIN groups : m >= n /\ groups[m] # <<>>}

NewRegion(address, length, guard) ==
    regions' = regions \union {[address |-> address + guard, length |-> length, guard |-> guard]}

AllocFree(length, guard) ==
    LET n == length + guard
    IN  /\ Fits(n) # {}
        /\ LET m == Min(Fits(n))
               address == Head(groups[m])
               popped == _pop_free_region(groups, [address |-> address, length |-> m])
               left == IF m > n THEN _push_free_region(popped, heap, address + n, m - n)
                       ELSE [groups |-> popped, heap |-> heap]
           IN  /\ groups' = left.groups /\ heap' = left.heap
               /\ NewRegion(address, length, guard)
        /\ UNCHANGED <<mapped, fault, panicked>>

(* ... or from the heap, if there is room                                  *)
AllocHeap(length, guard) ==
    LET n == length + guard
    IN  /\ Fits(n) = {} /\ Bottom + n <= heap
        /\ heap' = heap - n
        /\ NewRegion(heap - n, length, guard)
        /\ UNCHANGED <<groups, mapped, fault, panicked>>

(* mmap_dealloc of a whole region (a part of one panics)                   *)
mmap_dealloc(r) ==
    LET freed == _push_free_region(groups, heap, r.address - r.guard, r.length + r.guard)
    IN  /\ regions' = regions \ {r}
        /\ mapped' = mapped \ Pages(r)
        /\ groups' = freed.groups /\ heap' = freed.heap
        /\ UNCHANGED <<fault, panicked>>

(* mmap_deinit, when the process has ended                                 *)
mmap_deinit ==
    /\ \A t \in Threads : fault[t] = None
    /\ regions' = {} /\ mapped' = mapped \ UNION {Pages(r) : r \in regions}
    /\ heap' = Top /\ groups' = [n \in DOMAIN groups |-> <<>>]
    /\ UNCHANGED <<fault, panicked>>

(* A thread uses a page that is not present: the processor raises a fault  *)
Touch(t, page) ==
    /\ fault[t] = None /\ page \notin mapped
    /\ fault' = [fault EXCEPT ![t] = page]
    /\ UNCHANGED <<heap, regions, groups, mapped, panicked>>

(* mmap_handle_pf: a page of a region is mapped, and vmm_map_page refuses  *)
(* one that is present; outside of the regions the fault is an error       *)
mmap_handle_pf(t) ==
    /\ fault[t] # None
    /\ fault' = [fault EXCEPT ![t] = None]
    /\ IF \E r \in regions : fault[t] \in Pages(r)
       THEN mapped' = mapped \union {fault[t]} /\ panicked' = (fault[t] \in mapped)
       ELSE UNCHANGED <<mapped, panicked>>
    /\ UNCHANGED <<heap, regions, groups>>

(* mmap_unmap_address *)
mmap_unmap_address(page) ==
    /\ page \in mapped
    /\ mapped' = mapped \ {page}
    /\ UNCHANGED <<heap, regions, groups, fault, panicked>>

Next ==
    /\ ~panicked
    /\ \/ \E n \in Lengths, guard \in {0, GuardPages} : AllocFree(n, guard) \/ AllocHeap(n, guard)
       \/ \E r \in regions : mmap_dealloc(r)
       \/ \E t \in Threads : mmap_handle_pf(t) \/ \E page \in Bottom..Top - 1 : Touch(t, page)
       \/ \E page \in mapped : mmap_unmap_address(page)
       \/ mmap_deinit

Spec == Init /\ [][Next]_vars

-----------------------------------------------------------------------------
(* Regions with their guards and free regions share no page and together   *)
(* are exactly the memory above heap_address: nothing is lost or given     *)
(* twice however regions are split, freed and merged.                      *)
RegionsTile ==
    LET spans == {Whole(r) : r \in regions} \union {f.address .. f.address + f.length - 1 : f \in Free(groups)}
        count == Cardinality(regions) + Cardinality(Free(groups))
    IN  /\ UNION spans = heap .. Top - 1
        /\ Cardinality(spans) = count
        /\ \A s1, s2 \in spans : s1 # s2 => s1 \intersect s2 = {}

(* No page stays mapped after its region, and none of a guard ever is.     *)
MappedInRegions == mapped \subseteq UNION {Pages(r) : r \in regions}

(* "memory mapping already present" (vmm.c:265): a page is not mapped a    *)
(* second time.                                                            *)
NeverMappedTwice == ~panicked
=============================================================================
