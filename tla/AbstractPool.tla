---------------------------- MODULE AbstractPool ----------------------------
(***************************************************************************)
(* What a resource manager promises: a pool of numbers, each of which is   *)
(* used or free.  An allocation hands out the smallest free number, and 0  *)
(* when there is none; a number is given back only when it is in use.  A   *)
(* pool that is closed has no number in use.                               *)
(***************************************************************************)
EXTENDS Integers

CONSTANTS min, max

VARIABLES used, out     \* out: the number the last allocation returned

Numbers == min .. max

Init == used = {} /\ out = 0

Alloc ==
    \/ \E n \in Numbers \ used :
          /\ \A m \in Numbers \ used : n <= m
          /\ used' = used \cup {n}
          /\ out' = n
    \/ used = Numbers /\ out' = 0 /\ UNCHANGED used

Dealloc ==
    /\ \E n \in used : used' = used \ {n}
    /\ UNCHANGED out

Close == used' = {} /\ UNCHANGED out

Next == Alloc \/ Dealloc \/ Close

Spec == Init /\ [][Next]_<<used, out>>
=============================================================================
