-------------------------------- MODULE Vmm --------------------------------
(***************************************************************************)
(* The page tables of kernel/memory/vmm.c: a tree of four levels whose     *)
(* tables are allocated when a page is mapped and freed when the count     *)
(* kept in the entry that points to them falls to zero.  Every operation   *)
(* holds the lock of the page map, so that it is one action.               *)
(*                                                                         *)
(* An entry is named by its path: the indices into the tables from the     *)
(* top level to it.  A path of length four names the entry of a page, of   *)
(* length three one of a table of pages or of a large page, of length two  *)
(* one of a table above or of an extra large page.  A virtual address is a *)
(* path of length four.  The upper half, which all page maps share, is     *)
(* left out.                                                               *)
(***************************************************************************)
EXTENDS Integers, Sequences, FiniteSets, SequencesExt

CONSTANTS
    Indices,   \* the indices in use at every level: four sets
    Sizes,     \* the lengths of the paths that are mapped: 2, 3 and 4
    Frames     \* physical pages that are mapped

VARIABLES
    entry,     \* every entry of the tables
    mapping,   \* history: what each address was mapped to
    alive,     \* the page map has not been deleted
    strayed    \* history: flags were adjusted where no page is mapped

vars == <<entry, mapping, alive, strayed>>

Addresses == {<<i, j, k, l>> : i \in Indices[1], j \in Indices[2], k \in Indices[3], l \in Indices[4]}
Prefix(a, n) == SubSeq(a, 1, n)
Paths == {Prefix(a, n) : a \in Addresses, n \in 1 .. 4}
Below(p) == {q \in Paths : Len(q) > Len(p) /\ Prefix(q, Len(p)) = p}
Entries(p) == {q \in Below(p) : Len(q) = Len(p) + 1}

Empty == [kind |-> "empty"]
Table(n) == [kind |-> "table", count |-> n]
Page(f, writable) == [kind |-> "page", frame |-> f, writable |-> writable]
NoFrame == 0
Unmapped == <<NoFrame>>
(* An aligned address has index zero at all the levels below its entry     *)
Rest(a, n) == SubSeq(a, n + 1, 4)
Aligned(a, n) == \A i \in 1 .. Len(Rest(a, n)) : Rest(a, n)[i] = 0

(* vmm_pagemap_init                                                        *)
Init ==
    /\ entry = [p \in Paths |-> Empty]
    /\ mapping = [a \in Addresses |-> Unmapped]
    /\ alive = TRUE /\ strayed = FALSE

(* The top level has no count: its entry is not marked present.            *)
IncreaseLength(e, p) ==
    IF p # <<>> /\ e[p].kind = "table" THEN [e EXCEPT ![p].count = @ + 1] ELSE e

\* Faulty variant: a new table is not counted in the one above.
GetChildTableUncounted(e, p) ==
    IF e[p] # Empty THEN e ELSE [e EXCEPT ![p] = Table(0)]

(* _get_child_table, allocate_if_not_present                               *)
GetChildTable(e, p) ==
    IF e[p] # Empty THEN e ELSE [IncreaseLength(e, Front(p)) EXCEPT ![p] = Table(0)]

(* _decrease_length: a page that is freed loses its entries.               *)
Freed(e, p) == [q \in Paths |-> IF q = p \/ q \in Below(p) THEN Empty ELSE e[q]]
DecreaseLength(e, p) ==
    LET count == (e[p].count - 1) % 2^11
    IN  IF e[p].kind # "table" THEN [entries |-> e, freed |-> FALSE]
        ELSE IF count > 0 THEN [entries |-> [e EXCEPT ![p].count = count], freed |-> FALSE]
        ELSE [entries |-> Freed(e, p), freed |-> TRUE]

(* The entry is cleared; a table that became empty is freed, which clears  *)
(* its entry in the table above.                                           *)
Cleared(e, p) ==
    LET n == Len(p)
        up[m \in 1 .. n] == IF m = n THEN [entries |-> [e EXCEPT ![p] = Empty], freed |-> TRUE]
                            ELSE IF up[m + 1].freed THEN DecreaseLength(up[m + 1].entries, Prefix(p, m))
                            ELSE up[m + 1]
    IN  up[1].entries

(* The leaf that the walk of the tables ends at: its length, zero if there *)
(* is none.                                                                *)
LeafOf(e, a) ==
    LET ends == {n \in 2 .. 4 : /\ \A m \in 1 .. n - 1 : e[Prefix(a, m)].kind = "table"
                                /\ e[Prefix(a, n)].kind = "page"}
    IN  IF ends = {} THEN 0 ELSE CHOOSE n \in ends : TRUE

(* vmm_virtual_to_physical                                                 *)
VirtualToPhysical(a) ==
    LET n == LeafOf(entry, a)
    IN  IF n = 0 \/ entry[Prefix(a, n)].frame = NoFrame THEN Unmapped
        ELSE <<entry[Prefix(a, n)].frame>> \o Rest(a, n)

-----------------------------------------------------------------------------
(* vmm_map_page.  The callers map nothing over or under a mapping: the     *)
(* first is a panic, the second would read a page as a table.              *)
MapPage(a, n, f, writable) ==
    LET p == Prefix(a, n)
        tables[m \in 0 .. n - 1] == IF m = 0 THEN entry ELSE GetChildTable(tables[m - 1], Prefix(a, m))
        counted == IF tables[n - 1][p] = Empty THEN IncreaseLength(tables[n - 1], Front(p))
                   ELSE tables[n - 1]
        covered == {b \in Addresses : Prefix(b, n) = p}
    IN  /\ alive /\ Aligned(a, n)
        /\ \A b \in covered : mapping[b] = Unmapped
        /\ entry' = [counted EXCEPT ![p] = Page(f, writable)]
        /\ mapping' = [b \in Addresses |-> IF b \in covered THEN <<f>> \o Rest(b, n) ELSE mapping[b]]
        /\ UNCHANGED <<alive, strayed>>

(* vmm_unmap_page: nothing for an address inside of a larger page          *)
UnmapPage(a) ==
    LET n == LeafOf(entry, a)
        p == Prefix(a, n)
    IN  /\ alive /\ n > 0 /\ Aligned(a, n)
        /\ entry' = Cleared(entry, p)
        /\ mapping' = [b \in Addresses |-> IF Prefix(b, n) = p THEN Unmapped ELSE mapping[b]]
        /\ UNCHANGED <<alive, strayed>>

(* vmm_adjust_flags of one page, with flags other than present.  The entry *)
(* that _lookup_virtual_address finds need not hold a page, as when elf.c  *)
(* gives a size in bytes for a number of pages; nobody counts what is then *)
(* put in it.                                                              *)
AdjustFlags(a, writable) ==
    LET n == LeafOf(entry, a)
        tables == \A m \in 1 .. 3 : entry[Prefix(a, m)].kind = "table"
    IN  /\ alive
        /\ \/ /\ n > 0 /\ entry' = [entry EXCEPT ![Prefix(a, n)].writable = writable]
              /\ UNCHANGED strayed
           \/ /\ n = 0 /\ tables /\ entry' = [entry EXCEPT ![a] = Page(NoFrame, writable)]
              /\ strayed' = TRUE
        /\ UNCHANGED <<mapping, alive>>

(* vmm_pagemap_deinit.  _delete_pagemap_recursive starts at the address of *)
(* the top level, which is not marked present, and so returns at once: the *)
(* tables of a page map that is gone are never freed.                      *)
PagemapDeinit ==
    /\ alive /\ alive' = FALSE
    /\ UNCHANGED <<entry, mapping, strayed>>

(* Nothing is said about a page map after a stray adjustment.              *)
Next ==
    /\ ~strayed
    /\ \/ \E a \in Addresses, n \in Sizes, f \in Frames, w \in BOOLEAN : MapPage(a, n, f, w)
       \/ \E a \in Addresses : UnmapPage(a) \/ \E w \in BOOLEAN : AdjustFlags(a, w)
       \/ PagemapDeinit

Spec == Init /\ [][Next]_vars

-----------------------------------------------------------------------------
(* vmm_virtual_to_physical finds for every address what it was mapped to   *)
(* last, whatever was mapped and unmapped beside it, until flags are       *)
(* adjusted where no page is.                                              *)
TranslatesAsMapped == strayed \/ \A a \in Addresses : VirtualToPhysical(a) = mapping[a]

(* The count in the entry of a table is the number of its entries in use,  *)
(* so that a table is freed with its last page and not before, until flags *)
(* are adjusted where no page is.                                          *)
TablesAreCounted ==
    \A p \in Paths : entry[p].kind = "table" /\ ~strayed =>
        /\ entry[p].count > 0
        /\ entry[p].count = Cardinality({q \in Entries(p) : entry[q] # Empty})
        /\ \A m \in 1 .. Len(p) : entry[Prefix(p, m)].kind = "table"
=============================================================================
