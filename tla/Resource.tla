------------------------------ MODULE Resource ------------------------------
(***************************************************************************)
(* The resource manager (kernel/resource/resource.c): the numbers of a     *)
(* range in regions that are in use or free, found in a tree by their      *)
(* first number.  resource_alloc and resource_dealloc hold the manager's   *)
(* lock from beginning to end, so each is one step.                        *)
(***************************************************************************)
EXTENDS Integers

\* The arguments of resource_manager_create, which refuses a range that is empty
\* or has one number only.
CONSTANTS min, max

first == IF min = 0 THEN 1 ELSE min

VARIABLES
    regions,    \* the tree: the regions by rb_node.key
    out,        \* what the last resource_alloc returned
    value       \* resource_manager_delete's variable; 0 before it is called

vars == <<regions, out, value>>

Keys == DOMAIN regions
Region(length, is_used) == [length |-> length, is_used |-> is_used]
Grown(k, n) == Region(regions[k].length + n, regions[k].is_used)
End(k) == k + regions[k].length

\* What rb_tree_lookup_decreasing_node and rb_tree_lookup_increasing_node
\* find: one key or none.
Below(n) == {k \in Keys : k <= n /\ \A j \in Keys : j <= n => j <= k}
Above(n) == {k \in Keys : k >= n /\ \A j \in Keys : j >= n => k <= j}

\* The tree after the regions at the keys of Gone have been removed and those
\* of new have been inserted or changed.
Update(Gone, new) ==
    regions' = [k \in (Keys \ Gone) \cup DOMAIN new |->
                   IF k \in DOMAIN new THEN new[k] ELSE regions[k]]

One(k, r) == [j \in {k} |-> r]
Two(k, r, l, s) == [j \in {k, l} |-> IF j = k THEN r ELSE s]

-----------------------------------------------------------------------------
(* resource_manager_create *)
Init ==
    /\ regions = One(first, Region(max - first + 1, FALSE))
    /\ out = 0
    /\ value = 0

(* resource_alloc takes the first number of the region at f for the used    *)
(* region u, whose key is k; u then meets the region behind a used-up f.    *)
TakeFirst(k, u, f) ==
    \/ /\ regions[f].length > 1
       /\ Update({f}, Two(k, Region(u.length + 1, TRUE), f + 1, Grown(f, -1)))
    \/ /\ regions[f].length = 1
       /\ f + 1 \in Keys
       /\ Update({f, f + 1}, One(k, Region(u.length + 1 + regions[f + 1].length, TRUE)))
    \/ /\ regions[f].length = 1
       /\ f + 1 \notin Keys
       /\ Update({f}, One(k, Region(u.length + 1, TRUE)))

(* resource_alloc *)
\* Faulty variant: the key of the used region is returned.
AllocUsedKey ==
    /\ value = 0
    /\ \E k \in Above(1) :
          \/ /\ ~regions[k].is_used
             /\ TakeFirst(k, Region(0, TRUE), k)
             /\ out' = k
          \/ /\ regions[k].is_used
             /\ End(k) \in Keys
             /\ TakeFirst(k, regions[k], End(k))
             /\ out' = k
          \/ /\ regions[k].is_used
             /\ End(k) \notin Keys
             /\ out' = 0
             /\ UNCHANGED regions
    /\ UNCHANGED value

Alloc ==
    /\ value = 0
    /\ \E k \in Above(1) :
          \/ /\ ~regions[k].is_used
             /\ TakeFirst(k, Region(0, TRUE), k)
             /\ out' = k
          \/ /\ regions[k].is_used
             /\ End(k) \in Keys
             /\ TakeFirst(k, regions[k], End(k))
             /\ out' = End(k)
          \/ /\ regions[k].is_used
             /\ End(k) \notin Keys
             /\ out' = 0
             /\ UNCHANGED regions
    /\ UNCHANGED value

-----------------------------------------------------------------------------
(* resource_dealloc of the first number of the region at n: the region      *)
(* before it grows, or a new one begins, and takes in the region behind n   *)
(* when n was alone.                                                        *)
DeallocFirst(n) ==
    LET prev == Below(n - 1)
        next == Above(n + 1)
        p == IF prev = {} THEN n ELSE CHOOSE k \in prev : TRUE
        by(m) == IF prev = {} THEN Region(m, FALSE) ELSE Grown(p, m) IN
    \/ /\ regions[n].length > 1
       /\ Update({n}, Two(p, by(1), n + 1, Grown(n, -1)))
    \/ /\ regions[n].length = 1
       /\ \E k \in next : Update({n, k}, One(p, by(1 + regions[k].length)))
    \/ /\ regions[n].length = 1
       /\ next = {}
       /\ Update({n}, One(p, by(1)))

(* The last number n of the region at k: the next region, or a new one,     *)
(* begins at n.                                                             *)
DeallocLast(k, n) ==
    Update({n + 1}, Two(k, Grown(k, -1),
                        n, IF n + 1 \in Keys THEN Grown(n + 1, 1) ELSE Region(1, FALSE)))

(* A number in the middle of the region at k, which is split. *)
DeallocMiddle(k, n) ==
    Update({}, [j \in {k, n, n + 1} |->
                   IF j = k THEN Region(n - k, regions[k].is_used)
                   ELSE IF j = n THEN Region(1, FALSE)
                   ELSE Region(End(k) - n - 1, TRUE)])

(* resource_dealloc.  (It refuses 0, a number above max and a number below  *)
(* which it finds no used region, and then changes nothing.)                *)
Dealloc(n) ==
    /\ value = 0
    /\ \E k \in Below(n) :
          /\ regions[k].is_used
          /\ \/ n = k /\ DeallocFirst(n)
             \/ n # k /\ n = End(k) - 1 /\ DeallocLast(k, n)
             \/ n # k /\ n # End(k) - 1 /\ DeallocMiddle(k, n)
    /\ UNCHANGED <<out, value>>

-----------------------------------------------------------------------------
(* resource_manager_delete, called when no other function runs: the call,   *)
(* and the rounds of its loop, which frees one region each.                 *)
CallDelete ==
    /\ value = 0
    /\ value' = 1
    /\ UNCHANGED <<regions, out>>

DeleteRegion ==
    /\ value \in 1 .. max
    /\ \E k \in Above(value) :
          /\ value' = End(k)
          /\ Update({k}, <<>>)
    /\ UNCHANGED out

Next == Alloc \/ (\E n \in 1 .. max : Dealloc(n)) \/ CallDelete \/ DeleteRegion

Spec == Init /\ [][Next]_vars

-----------------------------------------------------------------------------
(* The regions lie in the range and none is empty. *)
TypeOK ==
    /\ Keys \subseteq first .. max
    /\ \A k \in Keys : regions[k].length \in 1 .. max /\ regions[k].is_used \in BOOLEAN
    /\ out \in 0 .. max
    /\ value \in 0 .. max + 1

(* The regions are a partition of the range in which used and free regions  *)
(* alternate, so that every region is as large as it can be.  The           *)
(* assertions of resource_alloc and resource_dealloc, and the joining of    *)
(* regions that are not asked for their kind, rest on this.                 *)
Alternating ==
    value = 0 =>
        /\ first \in Keys
        /\ \A k \in Keys :
              /\ End(k) \in Keys \cup {max + 1}
              /\ End(k) \in Keys => regions[End(k)].is_used # regions[k].is_used
              /\ \A j \in Keys : j > k => j >= End(k)

(* resource_manager_delete finds a region in every round of its loop, and   *)
(* when the loop ends no region is left behind.                             *)
DeletionFreesAll ==
    /\ value \in 1 .. max => Above(value) # {}
    /\ value > max => Keys = {}

(* resource_is_used *)
IsUsed(n) == \E k \in Below(n) : regions[k].is_used

(* The manager implements the pool: resource_is_used tells the numbers in   *)
(* use, an allocation returns the smallest other one, and 0 only when all   *)
(* are in use, and giving a number back frees that number alone.            *)
UsedNumbers == IF value = 0 THEN {n \in first .. max : IsUsed(n)} ELSE {}

Pool == INSTANCE AbstractPool WITH min <- first, used <- UsedNumbers

ImplementsPool == Pool!Spec

=============================================================================
