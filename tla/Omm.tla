--------------------------------- MODULE Omm --------------------------------
(***************************************************************************)
(* The object allocator (kernel/memory/omm.c): slabs ("pages") of          *)
(* max_used_count objects each, on three doubly linked lists by how full   *)
(* they are.  Every call is one step under the allocator's lock.           *)
(***************************************************************************)
EXTENDS Integers, FiniteSets

CONSTANTS PageIds, None, MaxUsedCounts

Lists == {"free", "used", "full"}

VARIABLES
    max_used_count, \* allocator->max_used_count, by the object's size
    head,           \* page_free_head, page_used_head and page_full_head
    page,           \* prev, next and used_count of every page that is mapped
    live            \* history: objects handed out, <<page, slot>>

vars == <<max_used_count, head, page, live>>

Slots == 1..max_used_count
Mapped == DOMAIN page

Init ==
    /\ max_used_count \in MaxUsedCounts
    /\ head = [l \in Lists |-> None]
    /\ page = <<>>
    /\ live = {}

(* The two list helpers, on a record of heads and pages                    *)
Set(h, field, p, v) == IF p = None THEN h ELSE [h EXCEPT !.page[p][field] = v]

_allocator_add_page(h, l, p) ==
    LET linked == Set(Set(h, "prev", p, None), "next", p, h.head[l])
    IN  [Set(linked, "prev", h.head[l], p) EXCEPT !.head[l] = p]

(* Faulty variant: the page after the one removed keeps its link back.     *)
_allocator_remove_page_forward(h, l, p) ==
    IF h.page[p].prev # None THEN Set(h, "next", h.page[p].prev, h.page[p].next)
    ELSE [h EXCEPT !.head[l] = h.page[p].next]

_allocator_remove_page(h, l, p) ==
    LET prev == h.page[p].prev
        next == h.page[p].next
        fore == IF prev # None THEN Set(h, "next", prev, next)
                ELSE [h EXCEPT !.head[l] = next]
    IN  Set(fore, "prev", next, prev)

Move(h, p, from, to) == _allocator_add_page(_allocator_remove_page(h, from, p), to, p)

State == [head |-> head, page |-> page]
Become(h) == head' = h.head /\ page' = h.page

(* omm_alloc, lines 119-132: a new page, all of its objects free           *)
WithPage(h, p) ==
    LET new == [prev |-> None, next |-> None, used_count |-> 0]
    IN  _allocator_add_page(
            [h EXCEPT !.page = [q \in DOMAIN @ \union {p} |-> IF q = p THEN new ELSE @[q]]],
            "free", p)

(* Lines 133-143, with the object taken from the page's list               *)
Taken(h, p) ==
    LET n == h.page[p].used_count + 1
        g == [h EXCEPT !.page[p].used_count = n]
    IN  IF n = max_used_count \div 2 THEN Move(g, p, "free", "used")
        ELSE IF n = max_used_count THEN Move(g, p, "used", "full")
        ELSE g

Candidate == IF head["used"] # None THEN head["used"] ELSE head["free"]

omm_alloc ==
    \E p \in PageIds, s \in Slots :
        /\ IF Candidate # None
           THEN p = Candidate /\ Become(Taken(State, p))
           ELSE p \notin Mapped /\ Become(Taken(WithPage(State, p), p))
        /\ <<p, s>> \notin live
        /\ live' = live \union {<<p, s>>}
        /\ UNCHANGED max_used_count

(* omm_dealloc: the page goes back to the memory manager with its last     *)
(* object                                                                  *)
Without(h, p) == [h EXCEPT !.page = [q \in DOMAIN @ \ {p} |-> @[q]]]

Released(h, p) ==
    LET n == h.page[p].used_count
        m == IF n = max_used_count THEN Move(h, p, "full", "used")
             ELSE IF n = max_used_count \div 2 THEN Move(h, p, "used", "free")
             ELSE h
        g == [m EXCEPT !.page[p].used_count = n - 1]
    IN  IF n = 1 THEN Without(_allocator_remove_page(g, "free", p), p) ELSE g

omm_dealloc(o) ==
    /\ o \in live
    /\ Become(Released(State, o[1]))
    /\ live' = live \ {o}
    /\ UNCHANGED max_used_count

Next == omm_alloc \/ \E o \in live : omm_dealloc(o)

Spec == Init /\ [][Next]_vars

-----------------------------------------------------------------------------
(* The pages of list l, followed from its head                             *)
Follow(l) ==
    LET at[n \in 0..Cardinality(PageIds)] ==
            IF n = 0 THEN head[l]
            ELSE IF at[n - 1] = None THEN None ELSE page[at[n - 1]].next
    IN  {at[n] : n \in DOMAIN at} \ {None}

(* The list that a page belongs to, from the objects it has handed out     *)
ListOf(n) == IF n = max_used_count THEN "full"
             ELSE IF n >= max_used_count \div 2 THEN "used" ELSE "free"

LiveOn(p) == Cardinality({o \in live : o[1] = p})

(* However pages move between the lists, each mapped page is on exactly    *)
(* the list that its objects in use call for, its count is exact and its   *)
(* links agree in both directions; so no page with objects in use is given *)
(* back, no full page is asked for another object, and none is forgotten.  *)
PagesAreFiled ==
    /\ Mapped = {o[1] : o \in live}
    /\ \A l \in Lists :
          /\ Follow(l) = {p \in Mapped : ListOf(LiveOn(p)) = l}
          /\ head[l] # None => page[head[l]].prev = None
    /\ \A p \in Mapped :
          /\ page[p].used_count = LiveOn(p)
          /\ page[p].next # None => page[page[p].next].prev = p
=============================================================================
