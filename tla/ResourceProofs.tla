--------------------------- MODULE ResourceProofs ---------------------------
(***************************************************************************)
(* Proofs about Resource, for any range of numbers: the regions remain a   *)
(* partition of the range in which used and free ones alternate, and the   *)
(* manager implements AbstractPool.                                        *)
(***************************************************************************)
EXTENDS Resource, TLAPS

\* The ranges that resource_manager_create accepts.
Setting == min \in Nat /\ max \in Nat /\ min < max

\* A region of the tree R, and the numbers that R has in use.
L(R, k) == R[k].length
Used(R, k) == R[k].is_used = TRUE
E(R, k) == k + L(R, k)
In(R, n) == \E k \in DOMAIN R : k <= n /\ n < E(R, k) /\ Used(R, k)

\* The regions of R are a partition of the range and alternate.
Sized(R) ==
    \A k \in DOMAIN R : /\ k \in first .. max
                        /\ L(R, k) \in Nat \ {0}
                        /\ E(R, k) <= max + 1
Apart(R) == \A j, k \in DOMAIN R : j > k => j >= E(R, k)
Covers(R) == \A n \in first .. max : \E k \in DOMAIN R : k <= n /\ n < E(R, k)
Alternates(R) ==
    \A k \in DOMAIN R : E(R, k) \in DOMAIN R => (Used(R, E(R, k)) <=> ~Used(R, k))
Tiling(R) == Sized(R) /\ Apart(R) /\ Covers(R) /\ Alternates(R)

LEMMA FirstFacts == ASSUME Setting PROVE first \in Nat /\ first > 0 /\ first <= max /\ max \in Nat
BY DEF Setting, first

(* Every region ends where another one begins, or at the end of the range. *)
LEMMA EndIsKey ==
    ASSUME Setting, NEW R, Tiling(R), NEW k \in DOMAIN R
    PROVE  E(R, k) \in DOMAIN R \/ E(R, k) = max + 1
<1> USE FirstFacts
<1>1. /\ k \in first .. max /\ E(R, k) \in Nat /\ E(R, k) > k /\ E(R, k) <= max + 1
  BY DEF Tiling, Sized, E
<1>2. CASE E(R, k) <= max
  <2>1. PICK j \in DOMAIN R : j <= E(R, k) /\ E(R, k) < E(R, j)
    BY <1>1, <1>2 DEF Tiling, Covers
  <2>2. j \in first .. max /\ E(R, j) \in Nat
    BY DEF Tiling, Sized, E
  <2>3. ~(j < k) /\ j # k
    BY <1>1, <2>1, <2>2 DEF Tiling, Apart
  <2>4. j >= E(R, k)
    BY <1>1, <2>2, <2>3 DEF Tiling, Apart
  <2> QED
    BY <1>1, <2>1, <2>2, <2>4
<1> QED
  BY <1>1, <1>2

(* The range begins with a region. *)
LEMMA FirstIsKey ==
    ASSUME Setting, NEW R, Tiling(R)
    PROVE  first \in DOMAIN R
<1> USE FirstFacts
<1>1. PICK j \in DOMAIN R : j <= first /\ first < E(R, j)
  BY DEF Tiling, Covers
<1>2. j \in first .. max
  BY DEF Tiling, Sized
<1> QED
  BY <1>1, <1>2

(* A number lies in one region, which tells whether it is in use. *)
LEMMA InRegion ==
    ASSUME Setting, NEW R, Tiling(R), NEW k \in DOMAIN R, NEW n \in k .. E(R, k) - 1
    PROVE  /\ n \in first .. max
           /\ In(R, n) <=> Used(R, k)
           /\ \A j \in DOMAIN R : j <= n /\ n < E(R, j) => j = k
           /\ \A j \in DOMAIN R : j <= n => j <= k
<1> USE FirstFacts
<1>1. \A j \in DOMAIN R : j \in first .. max /\ E(R, j) \in Nat /\ E(R, j) > j /\ E(R, j) <= max + 1
  BY DEF Tiling, Sized, E
<1>2. n \in first .. max
  BY <1>1
<1>3. ASSUME NEW j \in DOMAIN R, j <= n PROVE j <= k
  BY <1>1, <1>3 DEF Tiling, Apart
<1>4. ASSUME NEW j \in DOMAIN R, j <= n, n < E(R, j) PROVE j = k
  <2>1. ~(j < k)
    BY <1>1, <1>4 DEF Tiling, Apart
  <2> QED
    BY <1>1, <1>3, <1>4, <2>1
<1> QED
  BY <1>1, <1>2, <1>3, <1>4 DEF In

-----------------------------------------------------------------------------
\* S is R with the regions between the keys a and b replaced by the regions at
\* the keys of D.
Outside(R, a, b) == {k \in DOMAIN R : k < a \/ k >= b}

Spliced(R, S, a, b, D) ==
    /\ a \in DOMAIN R /\ a < b /\ b \in DOMAIN R \cup {max + 1}
    /\ DOMAIN S = Outside(R, a, b) \cup D
    /\ \A k \in Outside(R, a, b) : L(S, k) = L(R, k) /\ (Used(S, k) <=> Used(R, k))
    /\ \A k \in D : k \in a .. b - 1 /\ L(S, k) \in Nat \ {0} /\ E(S, k) <= b

\* The new regions are a partition of the numbers from a to b and alternate.
FillsGap(S, a, b, D) ==
    /\ \A j, k \in D : j > k => j >= E(S, k)
    /\ \A n \in a .. b - 1 : \E k \in D : k <= n /\ n < E(S, k)
    /\ \A k \in D : E(S, k) \in D => (Used(S, E(S, k)) <=> ~Used(S, k))

\* They also alternate with the regions before a and behind b: the first one is
\* of the kind of the region it replaces, and so is the last one.
FitsIn(R, S, a, b, D) ==
    /\ a = first \/ (Used(S, a) <=> Used(R, a))
    /\ b = max + 1 \/ \E z \in DOMAIN R : /\ E(R, z) = b
                                          /\ \A k \in D : E(S, k) = b => (Used(S, k) <=> Used(R, z))

(* Regions replaced in such a way are again a partition that alternates. *)
LEMMA Splice ==
    ASSUME Setting, NEW R, NEW S, NEW a, NEW b, NEW D,
           Tiling(R), Spliced(R, S, a, b, D), FillsGap(S, a, b, D), FitsIn(R, S, a, b, D)
    PROVE  Tiling(S)
<1> USE FirstFacts
<1> DEFINE O == Outside(R, a, b)
<1>1. /\ \A k \in DOMAIN R : /\ k \in first .. max /\ L(R, k) \in Nat \ {0}
                             /\ E(R, k) \in Nat /\ E(R, k) > k /\ E(R, k) <= max + 1
      /\ a \in DOMAIN R /\ a \in Nat /\ b \in Nat /\ a < b /\ b <= max + 1
      /\ b \in DOMAIN R \cup {max + 1}
  BY DEF Tiling, Sized, E, Spliced
<1>2. /\ DOMAIN S = O \cup D
      /\ \A k \in O : k \in DOMAIN R /\ (k < a \/ k >= b) /\ L(S, k) = L(R, k)
                      /\ E(S, k) = E(R, k) /\ (Used(S, k) <=> Used(R, k))
      /\ \A k \in D : /\ k \in a .. b - 1 /\ L(S, k) \in Nat \ {0}
                      /\ E(S, k) \in Nat /\ E(S, k) > k /\ E(S, k) <= b
  <2>1. \A k \in D : k \in a .. b - 1 /\ L(S, k) \in Nat \ {0} /\ E(S, k) <= b
    BY DEF Spliced
  <2>2. \A k \in D : E(S, k) \in Nat /\ E(S, k) > k
    BY <1>1, <2>1 DEF E
  <2> QED
    BY <2>1, <2>2 DEF Spliced, Outside, E
<1>3. \A k \in DOMAIN R : (k < a \/ k >= b) => k \in O
  BY DEF Outside
<1> HIDE DEF O
<1>4. Sized(S)
  <2>1. \A k \in O : k \in first .. max /\ L(S, k) \in Nat \ {0} /\ E(S, k) <= max + 1
    BY <1>1, <1>2
  <2>2. \A k \in D : k \in first .. max /\ L(S, k) \in Nat \ {0} /\ E(S, k) <= max + 1
    BY <1>1, <1>2
  <2> QED
    BY <1>2, <2>1, <2>2 DEF Sized
<1>5. \A k \in DOMAIN R : k < a => E(R, k) <= a
  BY <1>1 DEF Tiling, Apart
<1>6. Apart(S)
  <2>1. ASSUME NEW j \in O, NEW k \in O, j > k PROVE j >= E(S, k)
    BY <1>1, <1>2, <2>1 DEF Tiling, Apart
  <2>2. ASSUME NEW j \in O, NEW k \in D, j > k PROVE j >= E(S, k)
    BY <1>1, <1>2, <2>2
  <2>3. ASSUME NEW j \in D, NEW k \in O, j > k PROVE j >= E(S, k)
    BY <1>1, <1>2, <1>5, <2>3
  <2>4. ASSUME NEW j \in D, NEW k \in D, j > k PROVE j >= E(S, k)
    BY <2>4 DEF FillsGap
  <2> QED
    BY <1>2, <2>1, <2>2, <2>3, <2>4 DEF Apart
<1>7. Covers(S)
  <2> SUFFICES ASSUME NEW n \in first .. max
               PROVE  \E k \in DOMAIN S : k <= n /\ n < E(S, k)
    BY DEF Covers
  <2>1. CASE n \in a .. b - 1
    BY <1>2, <2>1 DEF FillsGap
  <2>2. CASE n \notin a .. b - 1
    <3>1. PICK k \in DOMAIN R : k <= n /\ n < E(R, k)
      BY DEF Tiling, Covers
    <3>2. n < a \/ n >= b
      BY <1>1, <2>2
    <3>3. k < a \/ k >= b
      <4>1. CASE n < a
        BY <1>1, <3>1, <4>1
      <4>2. CASE n >= b
        <5>1. b \in DOMAIN R
          BY <1>1, <4>2
        <5>2. ~(k < b)
          BY <1>1, <3>1, <4>2, <5>1 DEF Tiling, Apart
        <5> QED
          BY <1>1, <5>2
      <4> QED
        BY <3>2, <4>1, <4>2
    <3> QED
      BY <1>2, <1>3, <3>1, <3>3
  <2> QED
    BY <2>1, <2>2
<1>8. Alternates(S)
  <2>1. ASSUME NEW k \in O, E(S, k) \in O PROVE Used(S, E(S, k)) <=> ~Used(S, k)
    BY <1>2, <2>1 DEF Tiling, Alternates
  <2>2. ASSUME NEW k \in O, E(S, k) \in D PROVE Used(S, E(S, k)) <=> ~Used(S, k)
    <3>1. k < a /\ E(R, k) = a /\ E(S, k) = a
      <4>1. E(S, k) = E(R, k) /\ E(R, k) \in a .. b - 1 /\ E(R, k) > k
        BY <1>1, <1>2, <2>2
      <4>2. k < a
        BY <1>1, <1>2, <4>1
      <4> QED
        BY <1>1, <1>2, <1>5, <4>1, <4>2
    <3>2. Used(R, a) <=> ~Used(R, k)
      BY <1>1, <1>2, <3>1 DEF Tiling, Alternates
    <3>3. a # first
      BY <1>1, <1>2, <3>1
    <3> QED
      BY <1>2, <3>1, <3>2, <3>3 DEF FitsIn
  <2>3. ASSUME NEW k \in D, E(S, k) \in O PROVE Used(S, E(S, k)) <=> ~Used(S, k)
    <3>1. E(S, k) = b /\ b \in DOMAIN R /\ b # max + 1 /\ b \in O
      BY <1>1, <1>2, <2>3
    <3>2. PICK z \in DOMAIN R : E(R, z) = b /\ (Used(S, k) <=> Used(R, z))
      BY <3>1 DEF FitsIn
    <3>3. Used(R, b) <=> ~Used(R, z)
      BY <3>1, <3>2 DEF Tiling, Alternates
    <3> QED
      BY <1>2, <3>1, <3>2, <3>3
  <2>4. ASSUME NEW k \in D, E(S, k) \in D PROVE Used(S, E(S, k)) <=> ~Used(S, k)
    BY <2>4 DEF FillsGap
  <2> QED
    BY <1>2, <2>1, <2>2, <2>3, <2>4 DEF Alternates
<1> QED
  BY <1>4, <1>6, <1>7, <1>8 DEF Tiling

(* The numbers outside the gap are in use as before. *)
LEMMA SpliceUse ==
    ASSUME Setting, NEW R, NEW S, NEW a, NEW b, NEW D, Tiling(R), Spliced(R, S, a, b, D),
           NEW n \in first .. max, n \notin a .. b - 1
    PROVE  In(S, n) <=> In(R, n)
<1> USE FirstFacts
<1>1. /\ \A k \in DOMAIN R : k \in first .. max /\ E(R, k) \in Nat
      /\ a \in Nat /\ b \in Nat /\ b \in DOMAIN R \cup {max + 1} /\ a \in DOMAIN R /\ a < b
  BY DEF Tiling, Sized, E, Spliced
<1>2. /\ DOMAIN S = Outside(R, a, b) \cup D
      /\ \A k \in Outside(R, a, b) : E(S, k) = E(R, k) /\ (Used(S, k) <=> Used(R, k))
      /\ \A k \in D : k \in a .. b - 1 /\ E(S, k) \in Nat /\ E(S, k) <= b
  <2>1. \A k \in D : k \in a .. b - 1 /\ L(S, k) \in Nat \ {0} /\ E(S, k) <= b
    BY DEF Spliced
  <2> QED
    BY <1>1, <2>1 DEF Spliced, E
<1>3. \A k \in D : ~(k <= n /\ n < E(S, k))
  BY <1>1, <1>2
<1>4. ASSUME NEW k \in DOMAIN R, k <= n, n < E(R, k) PROVE k \in Outside(R, a, b)
  <2>1. CASE n < a
    BY <1>1, <1>4, <2>1 DEF Outside
  <2>2. CASE n >= b
    <3>1. ~(k < b)
      BY <1>1, <1>4, <2>2 DEF Tiling, Apart
    <3> QED
      BY <1>1, <3>1 DEF Outside
  <2> QED
    BY <1>1, <2>1, <2>2
<1>5. \A k \in Outside(R, a, b) : k \in DOMAIN R
  BY DEF Outside
<1> QED
  BY <1>2, <1>3, <1>4, <1>5 DEF In

-----------------------------------------------------------------------------
\* The regions from a to b make place for new.
Replaces(Gone, new, a, b) ==
    /\ a \in Keys /\ b \in Keys \cup {max + 1} /\ a < b
    /\ \A k \in Keys : k \in Gone \cup DOMAIN new <=> a <= k /\ k < b
    /\ \A k \in DOMAIN new : /\ k \in a .. b - 1 /\ new[k].length \in Nat \ {0}
                             /\ k + new[k].length <= b

(* What Update does to the tree, in these terms. *)
LEMMA UpdateShape ==
    ASSUME Setting, Tiling(regions), NEW Gone, NEW new, Update(Gone, new),
           NEW a, NEW b, Replaces(Gone, new, a, b)
    PROVE  /\ Spliced(regions, regions', a, b, DOMAIN new)
           /\ \A k \in DOMAIN new : /\ L(regions', k) = new[k].length
                                    /\ Used(regions', k) <=> new[k].is_used = TRUE
<1> USE FirstFacts DEF Replaces
<1>1. /\ DOMAIN regions' = (Keys \ Gone) \cup DOMAIN new
      /\ \A k \in DOMAIN new : regions'[k] = new[k]
      /\ \A k \in Keys \ Gone : k \notin DOMAIN new => regions'[k] = regions[k]
  BY DEF Update
<1>2. \A k \in Keys : k \in Nat
  BY DEF Tiling, Sized, Keys
<1>3. /\ Outside(regions, a, b) \subseteq Keys \ Gone
      /\ \A k \in Outside(regions, a, b) : k \notin DOMAIN new
      /\ \A k \in Keys \ Gone : k \in Outside(regions, a, b) \/ k \in DOMAIN new
  BY <1>2 DEF Outside, Keys
<1>4. DOMAIN regions' = Outside(regions, a, b) \cup DOMAIN new
  BY <1>1, <1>3
<1>5. \A k \in Outside(regions, a, b) :
         L(regions', k) = L(regions, k) /\ (Used(regions', k) <=> Used(regions, k))
  BY <1>1, <1>3 DEF L, Used
<1>6. \A k \in DOMAIN new : /\ L(regions', k) = new[k].length
                            /\ Used(regions', k) <=> new[k].is_used = TRUE
  BY <1>1 DEF L, Used
<1> QED
  BY <1>4, <1>5, <1>6 DEF Spliced, Keys, E

\* The new regions: from a to b; from a to c and from c to b; and so on.
OneTile(new, a, b, x) == DOMAIN new = {a} /\ new[a].length = b - a /\ new[a].is_used = x
TwoTiles(new, a, c, b, x, y) ==
    /\ DOMAIN new = {a, c}
    /\ new[a].length = c - a /\ new[a].is_used = x
    /\ new[c].length = b - c /\ new[c].is_used = y
ThreeTiles(new, a, c, d, b, x, y) ==
    /\ DOMAIN new = {a, c, d}
    /\ new[a].length = c - a /\ new[a].is_used = x
    /\ new[c].length = d - c /\ new[c].is_used = y
    /\ new[d].length = b - d /\ new[d].is_used = x

\* A new region that begins at a, or ends at b, is of the right kind x there.
Begins(a, x) == a = first \/ (x = TRUE <=> Used(regions, a))
Ends(b, x) == b = max + 1 \/ \E z \in Keys : E(regions, z) = b /\ (x = TRUE <=> Used(regions, z))

\* The regions from a to b are those that are replaced.
Vacates(Gone, D, a, b) == \A k \in Keys : k \in Gone \cup D <=> a <= k /\ k < b

\* What is put there instead: one, two or three regions.
PutsOne(Gone, new, a, b, x) ==
    /\ a \in Keys /\ b \in Keys \cup {max + 1} /\ a < b
    /\ Update(Gone, new) /\ x \in BOOLEAN /\ OneTile(new, a, b, x)
    /\ Vacates(Gone, {a}, a, b) /\ Begins(a, x) /\ Ends(b, x)

PutsTwo(Gone, new, a, c, b, x, y) ==
    /\ a \in Keys /\ b \in Keys \cup {max + 1} /\ c \in Nat /\ a < c /\ c < b
    /\ Update(Gone, new) /\ x \in BOOLEAN /\ y \in BOOLEAN /\ x # y
    /\ TwoTiles(new, a, c, b, x, y)
    /\ Vacates(Gone, {a, c}, a, b) /\ Begins(a, x) /\ Ends(b, y)

PutsThree(Gone, new, a, c, d, b, x, y) ==
    /\ a \in Keys /\ b \in Keys \cup {max + 1}
    /\ c \in Nat /\ d \in Nat /\ a < c /\ c < d /\ d < b
    /\ Update(Gone, new) /\ x \in BOOLEAN /\ y \in BOOLEAN /\ x # y
    /\ ThreeTiles(new, a, c, d, b, x, y)
    /\ Vacates(Gone, {a, c, d}, a, b) /\ Begins(a, x) /\ Ends(b, x)

(* The numbers from a to b become one region. *)
LEMMA PutOne ==
    ASSUME Setting, Tiling(regions), NEW Gone, NEW new, NEW a, NEW b, NEW x,
           PutsOne(Gone, new, a, b, x)
    PROVE  /\ Tiling(regions')
           /\ \A n \in a .. b - 1 : In(regions', n) <=> x = TRUE
           /\ \A n \in first .. max : n \notin a .. b - 1 => (In(regions', n) <=> In(regions, n))
<1>0. /\ a \in Keys /\ b \in Keys \cup {max + 1} /\ a < b
      /\ Update(Gone, new) /\ x \in BOOLEAN /\ OneTile(new, a, b, x)
      /\ Vacates(Gone, {a}, a, b) /\ Begins(a, x) /\ Ends(b, x)
  BY DEF PutsOne
<1> USE FirstFacts, <1>0
<1>1. DOMAIN new = {a} /\ new[a].length = b - a /\ new[a].is_used = x
  BY DEF OneTile
<1>2. a \in Nat /\ b \in Nat
  BY DEF Tiling, Sized, Keys
<1>3. /\ Spliced(regions, regions', a, b, {a})
      /\ L(regions', a) = b - a
      /\ Used(regions', a) <=> x = TRUE
  <2>1. \A k \in Keys : k \in Gone \cup DOMAIN new <=> a <= k /\ k < b
    BY <1>1 DEF Vacates
  <2>2. \A k \in DOMAIN new : /\ k \in a .. b - 1 /\ new[k].length \in Nat \ {0}
                              /\ k + new[k].length <= b
    BY <1>1, <1>2
  <2>3. Replaces(Gone, new, a, b)
    BY <1>0, <1>1, <2>1, <2>2, Zenon DEF Replaces
  <2>4. /\ Spliced(regions, regions', a, b, DOMAIN new)
        /\ \A k \in DOMAIN new : /\ L(regions', k) = new[k].length
                                 /\ Used(regions', k) <=> new[k].is_used = TRUE
    BY <2>3, UpdateShape, Zenon
  <2> QED
    BY <1>1, <2>4
<1>4. E(regions', a) = b
  BY <1>2, <1>3 DEF E
<1>5. FillsGap(regions', a, b, {a})
  BY <1>2, <1>4 DEF FillsGap
<1>6. FitsIn(regions, regions', a, b, {a})
  BY <1>3 DEF FitsIn, Keys, Begins, Ends
<1>7. Tiling(regions')
  BY <1>3, <1>5, <1>6, Splice
<1>8. a \in DOMAIN regions'
  BY <1>3 DEF Spliced
<1>9. \A n \in a .. b - 1 : In(regions', n) <=> x = TRUE
  BY <1>3, <1>4, <1>7, <1>8, InRegion
<1> QED
  BY <1>3, <1>7, <1>9, SpliceUse

(* The numbers from a to c become one region, those from c to b another. *)
LEMMA PutTwo ==
    ASSUME Setting, Tiling(regions), NEW Gone, NEW new, NEW a, NEW c, NEW b, NEW x, NEW y,
           PutsTwo(Gone, new, a, c, b, x, y)
    PROVE  /\ Tiling(regions')
           /\ \A n \in a .. c - 1 : In(regions', n) <=> x = TRUE
           /\ \A n \in c .. b - 1 : In(regions', n) <=> y = TRUE
           /\ \A n \in first .. max : n \notin a .. b - 1 => (In(regions', n) <=> In(regions, n))
<1>0. /\ a \in Keys /\ b \in Keys \cup {max + 1} /\ c \in Nat /\ a < c /\ c < b
      /\ Update(Gone, new) /\ x \in BOOLEAN /\ y \in BOOLEAN /\ x # y
      /\ TwoTiles(new, a, c, b, x, y)
      /\ Vacates(Gone, {a, c}, a, b) /\ Begins(a, x) /\ Ends(b, y)
  BY DEF PutsTwo
<1> USE FirstFacts, <1>0
<1>1. a \in Nat /\ b \in Nat /\ a < b
  BY DEF Tiling, Sized, Keys
<1>2. /\ DOMAIN new = {a, c} /\ new[a].length = c - a /\ new[a].is_used = x
      /\ new[c].length = b - c /\ new[c].is_used = y
  BY DEF TwoTiles
<1>3. /\ Spliced(regions, regions', a, b, {a, c})
      /\ L(regions', a) = c - a /\ (Used(regions', a) <=> x = TRUE)
      /\ L(regions', c) = b - c /\ (Used(regions', c) <=> y = TRUE)
  <2>1. \A k \in Keys : k \in Gone \cup DOMAIN new <=> a <= k /\ k < b
    BY <1>2 DEF Vacates
  <2>2. \A k \in DOMAIN new : /\ k \in a .. b - 1 /\ new[k].length \in Nat \ {0}
                              /\ k + new[k].length <= b
    BY <1>1, <1>2
  <2>3. Replaces(Gone, new, a, b)
    BY <1>0, <1>1, <2>1, <2>2, Zenon DEF Replaces
  <2>4. /\ Spliced(regions, regions', a, b, DOMAIN new)
        /\ \A k \in DOMAIN new : /\ L(regions', k) = new[k].length
                                 /\ Used(regions', k) <=> new[k].is_used = TRUE
    BY <2>3, UpdateShape, Zenon
  <2> QED
    BY <1>2, <2>4
<1>4. E(regions', a) = c /\ E(regions', c) = b
  BY <1>1, <1>3 DEF E
<1>5. x = TRUE <=> ~(y = TRUE)
  OBVIOUS
<1>6. FillsGap(regions', a, b, {a, c})
  <2>1. \A n \in a .. b - 1 : n < c \/ c <= n
    BY <1>1
  <2> QED
    BY <1>1, <1>3, <1>4, <1>5, <2>1 DEF FillsGap
<1>7. FitsIn(regions, regions', a, b, {a, c})
  BY <1>1, <1>3, <1>4 DEF FitsIn, Keys, Begins, Ends
<1>8. Tiling(regions')
  BY <1>3, <1>6, <1>7, Splice
<1>9. a \in DOMAIN regions' /\ c \in DOMAIN regions'
  BY <1>3 DEF Spliced
<1>10. \A n \in a .. c - 1 : In(regions', n) <=> x = TRUE
  BY <1>3, <1>4, <1>8, <1>9, InRegion
<1>11. \A n \in c .. b - 1 : In(regions', n) <=> y = TRUE
  BY <1>3, <1>4, <1>8, <1>9, InRegion
<1> QED
  BY <1>3, <1>8, <1>10, <1>11, SpliceUse

ThreeAre(a, c, d, b, x, y) ==
    /\ \A n \in a .. c - 1 : In(regions', n) <=> x = TRUE
    /\ \A n \in c .. d - 1 : In(regions', n) <=> y = TRUE
    /\ \A n \in d .. b - 1 : In(regions', n) <=> x = TRUE
    /\ \A n \in first .. max : n \notin a .. b - 1 => (In(regions', n) <=> In(regions, n))

(* The numbers from a to c, from c to d and from d to b become regions of   *)
(* alternating kinds.                                                       *)
LEMMA PutThree ==
    ASSUME Setting, Tiling(regions), NEW Gone, NEW new, NEW a, NEW c, NEW d, NEW b, NEW x, NEW y,
           PutsThree(Gone, new, a, c, d, b, x, y)
    PROVE  Tiling(regions') /\ ThreeAre(a, c, d, b, x, y)
<1>0. /\ a \in Keys /\ b \in Keys \cup {max + 1}
      /\ c \in Nat /\ d \in Nat /\ a < c /\ c < d /\ d < b
      /\ Update(Gone, new) /\ x \in BOOLEAN /\ y \in BOOLEAN /\ x # y
      /\ ThreeTiles(new, a, c, d, b, x, y)
      /\ Vacates(Gone, {a, c, d}, a, b) /\ Begins(a, x) /\ Ends(b, x)
  BY DEF PutsThree
<1> USE FirstFacts, <1>0 DEF ThreeTiles
<1>1. a \in Nat /\ b \in Nat /\ a < b
  BY DEF Tiling, Sized, Keys
<1>2. /\ Spliced(regions, regions', a, b, {a, c, d})
      /\ L(regions', a) = c - a /\ (Used(regions', a) <=> x = TRUE)
      /\ L(regions', c) = d - c /\ (Used(regions', c) <=> y = TRUE)
      /\ L(regions', d) = b - d /\ (Used(regions', d) <=> x = TRUE)
  <2>1. \A k \in DOMAIN new : /\ k \in a .. b - 1 /\ new[k].length \in Nat \ {0}
                              /\ k + new[k].length <= b
    BY <1>1
  <2>2. Replaces(Gone, new, a, b)
    BY <1>1, <2>1 DEF Replaces, Vacates
  <2>3. /\ Spliced(regions, regions', a, b, DOMAIN new)
        /\ \A k \in DOMAIN new : /\ L(regions', k) = new[k].length
                                 /\ Used(regions', k) <=> new[k].is_used = TRUE
    BY <2>2, UpdateShape, Zenon
  <2> QED
    BY <2>3
<1>3. E(regions', a) = c /\ E(regions', c) = d /\ E(regions', d) = b
  BY <1>1, <1>2 DEF E
<1>4. x = TRUE <=> ~(y = TRUE)
  OBVIOUS
<1>5. FillsGap(regions', a, b, {a, c, d})
  <2>1. \A n \in a .. b - 1 : n < c \/ (c <= n /\ n < d) \/ d <= n
    BY <1>1
  <2> QED
    BY <1>1, <1>2, <1>3, <1>4, <2>1 DEF FillsGap
<1>6. FitsIn(regions, regions', a, b, {a, c, d})
  BY <1>1, <1>2, <1>3 DEF FitsIn, Keys, Begins, Ends
<1>7. Tiling(regions')
  BY <1>2, <1>5, <1>6, Splice
<1>8. a \in DOMAIN regions' /\ c \in DOMAIN regions' /\ d \in DOMAIN regions'
  BY <1>2 DEF Spliced
<1>9. \A n \in a .. c - 1 : In(regions', n) <=> x = TRUE
  BY <1>2, <1>3, <1>7, <1>8, InRegion
<1>10. \A n \in c .. d - 1 : In(regions', n) <=> y = TRUE
  BY <1>2, <1>3, <1>7, <1>8, InRegion
<1>11. \A n \in d .. b - 1 : In(regions', n) <=> x = TRUE
  BY <1>2, <1>3, <1>7, <1>8, InRegion
<1> QED
  BY <1>2, <1>7, <1>9, <1>10, <1>11, SpliceUse DEF ThreeAre

LEMMA OneTileIs ==
    ASSUME NEW a, NEW b, NEW l, l = b - a, NEW x
    PROVE  OneTile(One(a, Region(l, x)), a, b, x)
BY DEF OneTile, One, Region

\* What PutTwo says of the numbers.
TwoAre(a, c, b, x, y) ==
    /\ \A n \in a .. c - 1 : In(regions', n) <=> x = TRUE
    /\ \A n \in c .. b - 1 : In(regions', n) <=> y = TRUE
    /\ \A n \in first .. max : n \notin a .. b - 1 => (In(regions', n) <=> In(regions, n))

LEMMA PutTwoAre ==
    ASSUME Setting, Tiling(regions), NEW Gone, NEW new, NEW a, NEW c, NEW b, NEW x, NEW y,
           PutsTwo(Gone, new, a, c, b, x, y)
    PROVE  Tiling(regions') /\ TwoAre(a, c, b, x, y)
BY PutTwo, Zenon DEF TwoAre

-----------------------------------------------------------------------------
Bools(R) == \A k \in DOMAIN R : R[k].is_used \in BOOLEAN

LEMMA UpdateBools ==
    ASSUME Bools(regions), NEW Gone, NEW new, Update(Gone, new),
           \A k \in DOMAIN new : new[k].is_used \in BOOLEAN
    PROVE  Bools(regions')
BY DEF Bools, Update, Keys

(* The keys of a region's numbers, and the numbers it has. *)
LEMMA RegionFacts ==
    ASSUME Setting, Tiling(regions), NEW k \in Keys
    PROVE  /\ k \in first .. max /\ L(regions, k) \in Nat \ {0} /\ E(regions, k) \in Nat
           /\ E(regions, k) = k + L(regions, k) /\ E(regions, k) <= max + 1
           /\ End(k) = E(regions, k)
           /\ E(regions, k) \in Keys \cup {max + 1}
           /\ \A j \in Keys : k <= j /\ j < E(regions, k) => j = k
<1> USE FirstFacts
<1>1. /\ k \in first .. max /\ L(regions, k) \in Nat \ {0} /\ E(regions, k) \in Nat
      /\ E(regions, k) = k + L(regions, k) /\ E(regions, k) <= max + 1
  BY DEF Tiling, Sized, E, Keys
<1>2. End(k) = E(regions, k)
  BY DEF End, E, L
<1>3. E(regions, k) \in Keys \cup {max + 1}
  BY EndIsKey DEF Keys
<1>4. ASSUME NEW j \in Keys, k <= j, j < E(regions, k) PROVE j = k
  <2>1. j \in Nat
    BY DEF Tiling, Sized, Keys
  <2> QED
    BY <1>1, <1>4, <2>1 DEF Tiling, Apart, Keys
<1> QED
  BY <1>1, <1>2, <1>3, <1>4

(* The numbers of a region are in use when the region is. *)
LEMMA RegionUse ==
    ASSUME Setting, Tiling(regions), NEW k \in Keys
    PROVE  \A n \in k .. E(regions, k) - 1 : n \in first .. max /\ (In(regions, n) <=> Used(regions, k))
BY InRegion DEF Keys

LEMMA KindOf ==
    ASSUME NEW k \in Keys, Bools(regions)
    PROVE  regions[k].is_used = IF Used(regions, k) THEN TRUE ELSE FALSE
<1>1. regions[k].is_used \in BOOLEAN
  BY DEF Bools, Keys
<1> QED
  BY <1>1, Zenon DEF Used

\* What resource_alloc hands to TakeFirst: the first region, when it is free, or
\* the one behind the first region when that is in use.
Candidate(k, u, f) ==
    /\ k \in Keys /\ f \in Keys /\ ~Used(regions, f)
    /\ \/ k = first /\ f = k /\ u.length = 0
       \/ Used(regions, k) /\ f = E(regions, k) /\ u.length = L(regions, k)

(* TakeFirst puts the number f in use and no other one. *)
LEMMA TakeFirstStep ==
    ASSUME Setting, Tiling(regions), Bools(regions), NEW k, NEW u, NEW f,
           Candidate(k, u, f), TakeFirst(k, u, f)
    PROVE  /\ Tiling(regions') /\ Bools(regions')
           /\ \A n \in first .. max : In(regions', n) <=> In(regions, n) \/ n = f
<1> USE FirstFacts
<1>1. /\ k \in Keys /\ f \in Keys /\ ~Used(regions, f) /\ u.length \in Nat /\ f = k + u.length
      /\ k = first \/ Used(regions, k)
      /\ k = f \/ (Used(regions, k) /\ f = E(regions, k) /\ k < f)
  BY RegionFacts DEF Candidate
<1>2. /\ k \in first .. max /\ f \in first .. max /\ L(regions, f) \in Nat \ {0}
      /\ E(regions, f) \in Nat /\ E(regions, f) = f + L(regions, f)
      /\ E(regions, f) <= max + 1 /\ E(regions, f) \in Keys \cup {max + 1}
      /\ regions[f].length = L(regions, f)
  BY <1>1, RegionFacts DEF L
<1>3. \A j \in Keys : j \in Nat
  BY RegionFacts
<1>4. \A j \in Keys : k <= j /\ j < E(regions, f) <=> j = k \/ j = f
  <2>1. \A j \in Keys : f <= j /\ j < E(regions, f) => j = f
    BY <1>1, RegionFacts
  <2>2. \A j \in Keys : k <= j /\ j < f => j = k
    BY <1>1, <1>3, RegionFacts
  <2> QED
    BY <1>1, <1>2, <1>3, <2>1, <2>2
<1>5. \A n \in k .. f - 1 : In(regions, n)
  BY <1>1, RegionUse
<1>6. \A n \in f .. E(regions, f) - 1 : ~In(regions, n)
  BY <1>1, RegionUse
<1>7. CASE regions[f].length > 1
  <2> DEFINE b == E(regions, f)
             c == f + 1
             new == Two(k, Region(u.length + 1, TRUE), c, Grown(f, -1))
  <2>1. TwoTiles(new, k, c, b, TRUE, FALSE)
    <3>1. regions[f].is_used = FALSE
      BY <1>1, KindOf, Zenon
    <3>2. k # c
      BY <1>1, <1>2
    <3> QED
      BY <1>1, <1>2, <3>1, <3>2 DEF TwoTiles, Two, Region, Grown
  <2>2. Update({f}, new)
    <3>1. regions[f].length # 1
      BY <1>2, <1>7
    <3> QED
      BY <3>1, Zenon DEF TakeFirst
  <2>3. c \in Nat /\ k < c /\ c < b /\ b \in Keys \cup {max + 1}
    BY <1>1, <1>2, <1>7
  <2>4. Vacates({f}, {k, c}, k, b)
    BY <1>1, <1>3, <1>4, <2>3 DEF Vacates
  <2>5. Bools(regions')
    <3>1. \A j \in DOMAIN new : new[j].is_used \in BOOLEAN
      BY <2>1, Zenon DEF TwoTiles
    <3> QED
      BY <2>2, <3>1, UpdateBools, Zenon
  <2> HIDE DEF b, c, new
  <2>6. /\ Tiling(regions')
        /\ \A n \in k .. c - 1 : In(regions', n) <=> TRUE = TRUE
        /\ \A n \in c .. b - 1 : In(regions', n) <=> FALSE = TRUE
        /\ \A n \in first .. max : n \notin k .. b - 1 => (In(regions', n) <=> In(regions, n))
    <3>1. Begins(k, TRUE)
      BY <1>1 DEF Begins
    <3>2. Ends(b, FALSE)
      BY <1>1 DEF b, Ends
    <3> QED
      <4>1. TRUE # FALSE
        OBVIOUS
      <4>2. PutsTwo({f}, new, k, c, b, TRUE, FALSE)
        BY <1>1, <2>1, <2>2, <2>3, <2>4, <3>1, <3>2, <4>1, Zenon DEF PutsTwo
      <4> QED
        BY <4>2, PutTwo, Zenon
  <2>7. \A n \in first .. max : In(regions', n) <=> In(regions, n) \/ n = f
    BY <1>1, <1>2, <1>5, <1>6, <2>6 DEF b, c
  <2> QED
    BY <2>5, <2>6, <2>7
<1>8. CASE regions[f].length = 1 /\ f + 1 \in Keys
  <2> DEFINE g == f + 1
             b == E(regions, g)
             new == One(k, Region(u.length + 1 + regions[g].length, TRUE))
  <2>1. E(regions, f) = g /\ Used(regions, g)
    BY <1>1, <1>2, <1>8 DEF Tiling, Alternates, Keys
  <2>2. /\ L(regions, g) \in Nat \ {0} /\ b \in Nat /\ b = g + L(regions, g) /\ b <= max + 1
        /\ b \in Keys \cup {max + 1} /\ regions[g].length = L(regions, g)
        /\ \A j \in Keys : g <= j /\ j < b => j = g
    BY <1>8, RegionFacts DEF L
  <2>3. Update({f, g}, new) /\ OneTile(new, k, b, TRUE)
    <3>1. u.length + 1 + regions[g].length = b - k
      BY <1>1, <1>2, <2>2
    <3> QED
      BY <1>8, <3>1 DEF TakeFirst, OneTile, One, Region
  <2>4. Vacates({f, g}, {k}, k, b)
    BY <1>1, <1>2, <1>3, <1>4, <1>8, <2>1, <2>2 DEF Vacates
  <2>5. Bools(regions')
    <3>1. \A j \in DOMAIN new : new[j].is_used \in BOOLEAN
      BY <2>3, Zenon DEF OneTile
    <3> QED
      BY <2>3, <3>1, UpdateBools, Zenon
  <2>6. \A n \in g .. b - 1 : In(regions, n)
    BY <1>8, <2>1, RegionUse
  <2>7. k < b
    BY <1>1, <1>2, <2>2
  <2> HIDE DEF b, g, new
  <2>8. /\ Tiling(regions')
        /\ \A n \in k .. b - 1 : In(regions', n) <=> TRUE = TRUE
        /\ \A n \in first .. max : n \notin k .. b - 1 => (In(regions', n) <=> In(regions, n))
    <3>1. Begins(k, TRUE)
      BY <1>1 DEF Begins
    <3>2. Ends(b, TRUE)
      BY <1>8, <2>1 DEF b, g, Ends
    <3> QED
      <4>1. PutsOne({f, g}, new, k, b, TRUE)
        BY <1>1, <2>2, <2>3, <2>4, <2>7, <3>1, <3>2, Zenon DEF PutsOne
      <4> QED
        BY <4>1, PutOne, Zenon
  <2>9. \A n \in first .. max : In(regions', n) <=> In(regions, n) \/ n = f
    BY <1>1, <1>2, <1>5, <2>2, <2>6, <2>8 DEF g
  <2> QED
    BY <2>5, <2>8, <2>9
<1>9. CASE regions[f].length = 1 /\ f + 1 \notin Keys
  <2>1. E(regions, f) = f + 1 /\ f + 1 = max + 1
    BY <1>2, <1>9
  <2> DEFINE new == One(k, Region(u.length + 1, TRUE))
  <2>2. Update({f}, new) /\ OneTile(new, k, max + 1, TRUE)
    <3>1. u.length + 1 = (max + 1) - k
      BY <1>1, <1>2, <2>1
    <3>2. OneTile(new, k, max + 1, TRUE)
      BY <3>1, OneTileIs, Zenon
    <3>3. ~(regions[f].length > 1)
      BY <1>9
    <3>4. Update({f}, new)
      BY <1>9, <3>3, Zenon DEF TakeFirst
    <3> QED
      BY <3>2, <3>4, Zenon
  <2> HIDE DEF new
  <2>3. Vacates({f}, {k}, k, max + 1)
    BY <1>3, <1>4, <2>1 DEF Vacates
  <2>4. Bools(regions')
    <3>1. \A j \in DOMAIN new : new[j].is_used \in BOOLEAN
      BY <2>2, Zenon DEF OneTile
    <3> QED
      BY <2>2, <3>1, UpdateBools, Zenon
  <2>5. /\ Tiling(regions')
        /\ \A n \in k .. (max + 1) - 1 : In(regions', n) <=> TRUE = TRUE
        /\ \A n \in first .. max : n \notin k .. (max + 1) - 1 => (In(regions', n) <=> In(regions, n))
    <3>1. Begins(k, TRUE)
      BY <1>1 DEF Begins
    <3>2. k < max + 1 /\ max + 1 \in Keys \cup {max + 1} /\ Ends(max + 1, TRUE)
      BY <1>2 DEF Ends
    <3> QED
      <4>1. PutsOne({f}, new, k, max + 1, TRUE)
        BY <1>1, <2>2, <2>3, <3>1, <3>2, Zenon DEF PutsOne
      <4> QED
        BY <4>1, PutOne, Zenon
  <2>6. \A n \in first .. max : In(regions', n) <=> In(regions, n) \/ n = f
    BY <1>1, <1>2, <1>5, <2>1, <2>5
  <2> QED
    BY <2>4, <2>5, <2>6
<1> QED
  BY <1>7, <1>8, <1>9, Zenon DEF TakeFirst

-----------------------------------------------------------------------------
\* A step that puts n, the smallest free number, in use; and one that frees n.
Takes(n) ==
    /\ n \in first .. max /\ ~In(regions, n)
    /\ \A m \in first .. max : m < n => In(regions, m)
    /\ \A m \in first .. max : In(regions', m) <=> In(regions, m) \/ m = n

Frees(n) ==
    /\ n \in first .. max /\ In(regions, n)
    /\ \A m \in first .. max : In(regions', m) <=> In(regions, m) /\ m # n

(* resource_alloc starts at the first region. *)
LEMMA AboveOne ==
    ASSUME Setting, Tiling(regions), NEW k \in Above(1)
    PROVE  k = first /\ first \in Keys
<1> USE FirstFacts
<1>1. first \in Keys
  BY FirstIsKey DEF Keys
<1>2. k \in Keys /\ k <= first
  BY <1>1 DEF Above
<1>3. k \in first .. max
  BY <1>2, RegionFacts
<1> QED
  BY <1>1, <1>2, <1>3

(* An allocation takes the smallest free number, if there is one. *)
LEMMA AllocStep ==
    ASSUME Setting, Tiling(regions), Bools(regions), Alloc
    PROVE  /\ Tiling(regions') /\ Bools(regions')
           /\ \/ Takes(out')
              \/ out' = 0 /\ regions' = regions /\ \A m \in first .. max : In(regions, m)
<1> USE FirstFacts
<1>1. PICK k \in Above(1) :
          \/ /\ ~regions[k].is_used
             /\ TakeFirst(k, Region(0, TRUE), k)
             /\ out' = k
          \/ /\ regions[k].is_used
             /\ End(k) \in Keys
             /\ TakeFirst(k, regions[k], End(k))
             /\ out' = End(k)
          \/ /\ regions[k].is_used
             /\ End(k) \notin Keys
             /\ out' = 0
             /\ UNCHANGED regions
  BY Zenon DEF Alloc
<1>2. k = first /\ k \in Keys
  BY AboveOne
<1>3. Used(regions, k) <=> regions[k].is_used
  <2>1. regions[k].is_used \in BOOLEAN
    BY <1>2 DEF Bools, Keys
  <2> QED
    BY <2>1, Zenon DEF Used
<1>4. /\ End(k) = E(regions, k) /\ E(regions, k) \in Keys \cup {max + 1} /\ E(regions, k) \in Nat
      /\ \A n \in k .. E(regions, k) - 1 : In(regions, n) <=> Used(regions, k)
  BY <1>2, RegionFacts, RegionUse
<1>5. ASSUME NEW f, NEW u, Candidate(k, u, f), TakeFirst(k, u, f), out' = f,
             f = first \/ (f = E(regions, k) /\ Used(regions, k))
      PROVE  Tiling(regions') /\ Bools(regions') /\ Takes(out')
  <2>1. /\ Tiling(regions') /\ Bools(regions')
        /\ \A n \in first .. max : In(regions', n) <=> In(regions, n) \/ n = f
    BY <1>5, TakeFirstStep, Zenon
  <2>2. f \in Keys /\ ~Used(regions, f)
    BY <1>5 DEF Candidate
  <2>3. /\ f \in first .. max /\ f \in f .. E(regions, f) - 1
    BY <2>2, RegionFacts
  <2>4. ~In(regions, f)
    BY <2>2, <2>3, RegionUse
  <2>5. \A m \in first .. max : m < f => In(regions, m)
    BY <1>2, <1>4, <1>5, <2>3
  <2> QED
    BY <1>5, <2>1, <2>3, <2>4, <2>5, Zenon DEF Takes
<1>6. CASE /\ ~regions[k].is_used
           /\ TakeFirst(k, Region(0, TRUE), k)
           /\ out' = k
  <2>1. Candidate(k, Region(0, TRUE), k)
    <3>1. Region(0, TRUE).length = 0
      BY DEF Region
    <3> QED
      BY <1>2, <1>3, <1>6, <3>1, Zenon DEF Candidate
  <2> QED
    BY <1>2, <1>5, <1>6, <2>1, Zenon
<1>7. CASE /\ regions[k].is_used
           /\ End(k) \in Keys
           /\ TakeFirst(k, regions[k], End(k))
           /\ out' = End(k)
  <2>1. ~Used(regions, End(k))
    BY <1>2, <1>3, <1>4, <1>7 DEF Tiling, Alternates, Keys
  <2>2. Candidate(k, regions[k], End(k))
    BY <1>2, <1>3, <1>4, <1>7, <2>1, Zenon DEF Candidate, L
  <2> QED
    BY <1>3, <1>4, <1>5, <1>7, <2>2, Zenon
<1>8. CASE /\ regions[k].is_used
           /\ End(k) \notin Keys
           /\ out' = 0
           /\ UNCHANGED regions
  <2>1. E(regions, k) = max + 1
    BY <1>4, <1>8
  <2>2. \A m \in first .. max : In(regions, m)
    BY <1>2, <1>3, <1>4, <1>8, <2>1
  <2> QED
    BY <1>8, <2>2
<1> QED
  BY <1>1, <1>6, <1>7, <1>8, Zenon

-----------------------------------------------------------------------------
(* rb_tree_lookup_decreasing_node finds the region of a number. *)
LEMMA BelowIs ==
    ASSUME Setting, Tiling(regions), NEW n \in Nat, n <= max, NEW k \in Below(n)
    PROVE  k \in Keys /\ n \in first .. max /\ n \in k .. E(regions, k) - 1
<1> USE FirstFacts
<1>1. k \in Keys /\ k <= n /\ \A j \in Keys : j <= n => j <= k
  BY DEF Below
<1>2. k \in first .. max /\ E(regions, k) \in Nat
  BY <1>1, RegionFacts
<1>3. n \in first .. max
  BY <1>1, <1>2
<1>4. PICK j \in Keys : j <= n /\ n < E(regions, j)
  BY <1>3 DEF Tiling, Covers, Keys
<1>5. j \in first .. max /\ E(regions, j) \in Nat /\ j <= k
  BY <1>1, <1>4, RegionFacts
<1>6. ~(j < k)
  BY <1>1, <1>2, <1>4, <1>5 DEF Tiling, Apart, Keys
<1> QED
  BY <1>1, <1>2, <1>3, <1>4, <1>5, <1>6

LEMMA BelowSome ==
    ASSUME Setting, Tiling(regions), NEW n \in first .. max
    PROVE  Below(n) # {}
<1> USE FirstFacts
<1>1. PICK k \in Keys : k <= n /\ n < E(regions, k)
  BY DEF Tiling, Covers, Keys
<1>2. n \in k .. E(regions, k) - 1
  BY <1>1, RegionFacts
<1>3. \A j \in Keys : j <= n => j <= k
  BY <1>2, InRegion DEF Keys
<1> QED
  BY <1>1, <1>3 DEF Below

\* Where the free region in front of the number n begins, when n is the first
\* number of its region: at n itself, when there is none.
Front(n, a) ==
    /\ a \in Keys
    /\ \/ a = n /\ n = first
       \/ a < n /\ E(regions, a) = n /\ ~Used(regions, a)

\* What DeallocFirst does, in these terms.
JoinsFront(n, a) ==
    \/ /\ regions[n].length > 1
       /\ \E new : Update({n}, new) /\ TwoTiles(new, a, n + 1, E(regions, n), FALSE, TRUE)
    \/ /\ regions[n].length = 1
       /\ \E k \in Above(n + 1) : \E new : /\ Update({n, k}, new)
                                           /\ OneTile(new, a, n + 1 + L(regions, k), FALSE)
    \/ /\ regions[n].length = 1
       /\ Above(n + 1) = {}
       /\ \E new : Update({n}, new) /\ OneTile(new, a, n + 1, FALSE)

LEMMA TwoTilesIs ==
    ASSUME NEW a, NEW b, NEW c, NEW x, NEW y, NEW l, NEW m, a # c, l = c - a, m = b - c
    PROVE  TwoTiles(Two(a, Region(l, x), c, Region(m, y)), a, c, b, x, y)
BY DEF TwoTiles, Two, Region

LEMMA DeallocFirstIs ==
    ASSUME Setting, Tiling(regions), Bools(regions),
           NEW n \in Keys, Used(regions, n), DeallocFirst(n)
    PROVE  \E a : Front(n, a) /\ JoinsFront(n, a)
<1> USE FirstFacts
<1>1. /\ n \in first .. max /\ L(regions, n) \in Nat \ {0} /\ regions[n].length = L(regions, n)
      /\ E(regions, n) = n + L(regions, n) /\ regions[n].is_used = TRUE
  BY RegionFacts DEF L, Used
<1>2. Grown(n, -1) = Region(E(regions, n) - (n + 1), TRUE)
  <2>1. regions[n].length + -1 = E(regions, n) - (n + 1)
    BY <1>1
  <2> QED
    BY <1>1, <2>1, Zenon DEF Grown
<1>3. \A k \in Above(n + 1) : k \in Keys /\ regions[k].length = L(regions, k) /\ L(regions, k) \in Nat
  BY RegionFacts DEF Above, L
<1>4. ASSUME Below(n - 1) = {}
      PROVE  Front(n, n) /\ JoinsFront(n, n)
  <2>1. n = first
    BY <1>1, <1>4, BelowSome
  <2>2. \/ /\ regions[n].length > 1
           /\ Update({n}, Two(n, Region(1, FALSE), n + 1, Grown(n, -1)))
        \/ /\ regions[n].length = 1
           /\ \E k \in Above(n + 1) : Update({n, k}, One(n, Region(1 + regions[k].length, FALSE)))
        \/ /\ regions[n].length = 1
           /\ Above(n + 1) = {}
           /\ Update({n}, One(n, Region(1, FALSE)))
    BY <1>4, Zenon DEF DeallocFirst
  <2>3. TwoTiles(Two(n, Region(1, FALSE), n + 1, Grown(n, -1)), n, n + 1, E(regions, n), FALSE, TRUE)
    <3>1. 1 = (n + 1) - n /\ n # n + 1
      BY <1>1
    <3> QED
      BY <1>2, <3>1, TwoTilesIs, Zenon
  <2>4. \A k \in Above(n + 1) : OneTile(One(n, Region(1 + regions[k].length, FALSE)), n, n + 1 + L(regions, k), FALSE)
    <3>1. \A k \in Above(n + 1) : 1 + regions[k].length = (n + 1 + L(regions, k)) - n
      BY <1>1, <1>3
    <3> QED
      BY <3>1, OneTileIs, Zenon
  <2>5. OneTile(One(n, Region(1, FALSE)), n, n + 1, FALSE)
    <3>1. 1 = (n + 1) - n
      BY <1>1
    <3> QED
      BY <3>1, OneTileIs, Zenon
  <2>6. JoinsFront(n, n)
    BY <2>2, <2>3, <2>4, <2>5, Zenon DEF JoinsFront
  <2> QED
    BY <2>1, <2>6 DEF Front
<1>5. ASSUME Below(n - 1) # {}
      PROVE  \E a : Front(n, a) /\ JoinsFront(n, a)
  <2> DEFINE p == CHOOSE k \in Below(n - 1) : TRUE
  <2>1. p \in Below(n - 1)
    BY <1>5
  <2>2. \/ /\ regions[n].length > 1
           /\ Update({n}, Two(p, Grown(p, 1), n + 1, Grown(n, -1)))
        \/ /\ regions[n].length = 1
           /\ \E k \in Above(n + 1) : Update({n, k}, One(p, Grown(p, 1 + regions[k].length)))
        \/ /\ regions[n].length = 1
           /\ Above(n + 1) = {}
           /\ Update({n}, One(p, Grown(p, 1)))
    BY <1>5, Zenon DEF DeallocFirst
  <2> HIDE DEF p
  <2>3. p \in Keys /\ p \in first .. max /\ p < n /\ E(regions, p) = n
    <3>1. p \in Keys /\ n - 1 \in p .. E(regions, p) - 1
      BY <1>1, <2>1, BelowIs
    <3>2. p \in first .. max /\ E(regions, p) \in Nat /\ p < n
      BY <1>1, <3>1, RegionFacts
    <3>3. E(regions, p) <= n
      BY <1>1, <3>1, <3>2 DEF Tiling, Apart, Keys
    <3> QED
      BY <1>1, <3>1, <3>2, <3>3
  <2>4. ~Used(regions, p)
    BY <2>3 DEF Tiling, Alternates, Keys
  <2>5. regions[p].length = n - p /\ regions[p].is_used = FALSE
    <3>1. regions[p].is_used = FALSE
      BY <2>3, <2>4, KindOf, Zenon
    <3> QED
      BY <1>1, <2>3, <3>1, RegionFacts DEF L
  <2>6. \A m \in Nat : Grown(p, m) = Region((n + m) - p, FALSE)
    <3>1. \A m \in Nat : regions[p].length + m = (n + m) - p
      BY <1>1, <2>3, <2>5
    <3> QED
      BY <2>5, <3>1, Zenon DEF Grown
  <2>7. TwoTiles(Two(p, Grown(p, 1), n + 1, Grown(n, -1)), p, n + 1, E(regions, n), FALSE, TRUE)
    <3>1. p # n + 1 /\ 1 \in Nat
      BY <1>1, <2>3
    <3> QED
      BY <1>2, <2>6, <3>1, TwoTilesIs, Zenon
  <2>8. \A k \in Above(n + 1) : OneTile(One(p, Grown(p, 1 + regions[k].length)), p, n + 1 + L(regions, k), FALSE)
    <3>1. \A k \in Above(n + 1) : Grown(p, 1 + regions[k].length) = Region((n + 1 + L(regions, k)) - p, FALSE)
      <4>1. \A k \in Above(n + 1) : 1 + regions[k].length \in Nat /\ n + (1 + regions[k].length) = n + 1 + L(regions, k)
        BY <1>1, <1>3
      <4> QED
        BY <2>6, <4>1, Zenon
    <3> QED
      BY <3>1, OneTileIs, Zenon
  <2>9. OneTile(One(p, Grown(p, 1)), p, n + 1, FALSE)
    BY <2>6, OneTileIs, Zenon
  <2>10. JoinsFront(n, p)
    BY <2>2, <2>7, <2>8, <2>9, Zenon DEF JoinsFront
  <2> QED
    BY <2>3, <2>4, <2>10 DEF Front
<1> QED
  BY <1>4, <1>5

(* resource_dealloc of the first number of a region. *)
LEMMA DeallocFirstStep ==
    ASSUME Setting, Tiling(regions), Bools(regions),
           NEW n \in Keys, Used(regions, n), DeallocFirst(n)
    PROVE  Tiling(regions') /\ Bools(regions') /\ Frees(n)
<1> USE FirstFacts
<1>1. /\ n \in first .. max /\ L(regions, n) \in Nat \ {0} /\ regions[n].length = L(regions, n)
      /\ E(regions, n) \in Nat /\ E(regions, n) = n + L(regions, n)
      /\ E(regions, n) \in Keys \cup {max + 1}
      /\ \A j \in Keys : j \in Nat
      /\ \A j \in Keys : n <= j /\ j < E(regions, n) => j = n
  BY RegionFacts DEF L
<1>2. \A m \in n .. E(regions, n) - 1 : In(regions, m)
  BY RegionUse
<1>3. PICK a : Front(n, a) /\ JoinsFront(n, a)
  BY DeallocFirstIs, Zenon
<1>4. /\ a \in Keys /\ a \in first .. max /\ a <= n
      /\ \A j \in Keys : a <= j /\ j < n => j = a
      /\ \A m \in a .. n - 1 : ~In(regions, m)
      /\ Begins(a, FALSE)
  <2>1. CASE a = n /\ n = first
    BY <1>1, <2>1 DEF Begins
  <2>2. CASE a < n /\ E(regions, a) = n /\ ~Used(regions, a)
    <3>1. a \in Keys
      BY <1>3 DEF Front
    <3> QED
      BY <2>2, <3>1, RegionFacts, RegionUse DEF Begins
  <2> QED
    BY <1>3, <2>1, <2>2, Zenon DEF Front
<1>5. n \in n .. E(regions, n) - 1 /\ In(regions, n)
  BY <1>1, <1>2
<1>6. CASE regions[n].length > 1 /\ \E new : Update({n}, new) /\ TwoTiles(new, a, n + 1, E(regions, n), FALSE, TRUE)
  <2>1. PICK new : Update({n}, new) /\ TwoTiles(new, a, n + 1, E(regions, n), FALSE, TRUE)
    BY <1>6, Zenon
  <2>2. n + 1 \in Nat /\ a < n + 1 /\ n + 1 < E(regions, n)
    BY <1>1, <1>4, <1>6
  <2>3. Vacates({n}, {a, n + 1}, a, E(regions, n))
    BY <1>1, <1>4, <2>2 DEF Vacates
  <2>4. Ends(E(regions, n), TRUE)
    BY DEF Ends
  <2>5. TRUE # FALSE
    OBVIOUS
  <2>6. PutsTwo({n}, new, a, n + 1, E(regions, n), FALSE, TRUE)
    BY <1>1, <1>4, <2>1, <2>2, <2>3, <2>4, <2>5, Zenon DEF PutsTwo
  <2>7. /\ Tiling(regions')
        /\ \A m \in a .. (n + 1) - 1 : In(regions', m) <=> FALSE = TRUE
        /\ \A m \in (n + 1) .. E(regions, n) - 1 : In(regions', m) <=> TRUE = TRUE
        /\ \A m \in first .. max : m \notin a .. E(regions, n) - 1 => (In(regions', m) <=> In(regions, m))
    BY <2>6, PutTwo, Zenon
  <2>8. Bools(regions')
    <3>1. \A j \in DOMAIN new : new[j].is_used \in BOOLEAN
      BY <2>1, Zenon DEF TwoTiles
    <3> QED
      BY <2>1, <3>1, UpdateBools, Zenon
  <2>9. Frees(n)
    BY <1>1, <1>2, <1>4, <1>5, <2>7 DEF Frees
  <2> QED
    BY <2>7, <2>8, <2>9
<1>7. CASE /\ regions[n].length = 1
           /\ \E k \in Above(n + 1) : \E new : /\ Update({n, k}, new)
                                               /\ OneTile(new, a, n + 1 + L(regions, k), FALSE)
  <2>0. PICK k \in Above(n + 1) :
          \E new : Update({n, k}, new) /\ OneTile(new, a, n + 1 + L(regions, k), FALSE)
    BY <1>7, Zenon
  <2>1. PICK new : Update({n, k}, new) /\ OneTile(new, a, n + 1 + L(regions, k), FALSE)
    BY <2>0, Zenon
  <2>2. /\ k \in Keys /\ k \in Nat /\ k >= n + 1
        /\ \A j \in Keys : j >= n + 1 => k <= j
    BY <1>1 DEF Above
  <2>3. k = n + 1 /\ E(regions, n) = k
    <3>1. E(regions, n) = n + 1 /\ k <= max
      BY <1>1, <1>7, <2>2, RegionFacts
    <3>2. n + 1 \in Keys
      BY <1>1, <2>2, <3>1
    <3> QED
      BY <1>1, <2>2, <3>1, <3>2
  <2> DEFINE b == E(regions, k)
  <2>4. /\ L(regions, k) \in Nat \ {0} /\ b \in Nat /\ b = n + 1 + L(regions, k)
        /\ b \in Keys \cup {max + 1} /\ a < b
        /\ \A j \in Keys : k <= j /\ j < b => j = k
        /\ \A m \in k .. b - 1 : In(regions, m) <=> Used(regions, k)
    BY <1>1, <1>4, <2>2, <2>3, RegionFacts, RegionUse
  <2>5. ~Used(regions, k)
    BY <2>2, <2>3 DEF Tiling, Alternates, Keys
  <2>6. Vacates({n, k}, {a}, a, b)
    BY <1>1, <1>4, <2>2, <2>3, <2>4 DEF Vacates
  <2>7. Ends(b, FALSE)
    BY <2>2, <2>5 DEF Ends
  <2> HIDE DEF b
  <2>8. PutsOne({n, k}, new, a, b, FALSE)
    BY <1>4, <2>1, <2>4, <2>6, <2>7, Zenon DEF PutsOne
  <2>9. /\ Tiling(regions')
        /\ \A m \in a .. b - 1 : In(regions', m) <=> FALSE = TRUE
        /\ \A m \in first .. max : m \notin a .. b - 1 => (In(regions', m) <=> In(regions, m))
    BY <2>8, PutOne, Zenon
  <2>10. Bools(regions')
    <3>1. \A j \in DOMAIN new : new[j].is_used \in BOOLEAN
      BY <2>1, Zenon DEF OneTile
    <3> QED
      BY <2>1, <3>1, UpdateBools, Zenon
  <2>11. Frees(n)
    BY <1>1, <1>4, <1>5, <2>3, <2>4, <2>5, <2>9 DEF Frees
  <2> QED
    BY <2>9, <2>10, <2>11
<1>8. CASE /\ regions[n].length = 1
           /\ Above(n + 1) = {}
           /\ \E new : Update({n}, new) /\ OneTile(new, a, n + 1, FALSE)
  <2>1. PICK new : Update({n}, new) /\ OneTile(new, a, n + 1, FALSE)
    BY <1>8, Zenon
  <2>2. E(regions, n) = n + 1 /\ n + 1 = max + 1
    <3>1. E(regions, n) = n + 1
      BY <1>1, <1>8
    <3>2. n + 1 \notin Keys
      BY <1>1, <1>8 DEF Above
    <3> QED
      BY <1>1, <3>1, <3>2
  <2>3. Vacates({n}, {a}, a, n + 1)
    BY <1>1, <1>4, <2>2 DEF Vacates
  <2>4. n + 1 \in Keys \cup {max + 1} /\ a < n + 1 /\ Ends(n + 1, FALSE)
    BY <1>1, <1>4, <2>2 DEF Ends
  <2>5. PutsOne({n}, new, a, n + 1, FALSE)
    BY <1>4, <2>1, <2>3, <2>4, Zenon DEF PutsOne
  <2>6. /\ Tiling(regions')
        /\ \A m \in a .. (n + 1) - 1 : In(regions', m) <=> FALSE = TRUE
        /\ \A m \in first .. max : m \notin a .. (n + 1) - 1 => (In(regions', m) <=> In(regions, m))
    BY <2>5, PutOne, Zenon
  <2>7. Bools(regions')
    <3>1. \A j \in DOMAIN new : new[j].is_used \in BOOLEAN
      BY <2>1, Zenon DEF OneTile
    <3> QED
      BY <2>1, <3>1, UpdateBools, Zenon
  <2>8. Frees(n)
    BY <1>1, <1>4, <1>5, <2>6 DEF Frees
  <2> QED
    BY <2>6, <2>7, <2>8
<1> QED
  BY <1>3, <1>6, <1>7, <1>8, Zenon DEF JoinsFront

(* resource_dealloc of the last number of a region. *)
LEMMA DeallocLastStep ==
    ASSUME Setting, Tiling(regions), Bools(regions), NEW k \in Keys, Used(regions, k),
           NEW n \in k .. E(regions, k) - 1, n # k, n = End(k) - 1, DeallocLast(k, n)
    PROVE  Tiling(regions') /\ Bools(regions') /\ Frees(n)
<1> USE FirstFacts
<1>1. /\ k \in first .. max /\ L(regions, k) \in Nat \ {0} /\ regions[k].length = L(regions, k)
      /\ E(regions, k) \in Nat /\ E(regions, k) = k + L(regions, k) /\ E(regions, k) <= max + 1
      /\ E(regions, k) \in Keys \cup {max + 1}
      /\ \A j \in Keys : j \in Nat
      /\ \A j \in Keys : k <= j /\ j < E(regions, k) => j = k
      /\ End(k) = E(regions, k)
      /\ regions[k].is_used = TRUE
  BY RegionFacts DEF L, Used
<1>2. n + 1 = E(regions, k) /\ n \in Nat /\ n \in first .. max /\ k < n
  BY <1>1
<1>3. \A m \in k .. E(regions, k) - 1 : In(regions, m)
  BY RegionUse
<1>4. Grown(k, -1) = Region(n - k, TRUE)
  <2>1. regions[k].length + -1 = n - k
    BY <1>1, <1>2
  <2> QED
    BY <1>1, <2>1, Zenon DEF Grown
<1>5. Begins(k, TRUE) /\ TRUE # FALSE
  BY DEF Begins
<1>6. ASSUME NEW b \in Keys \cup {max + 1}, NEW r, Update({n + 1}, Two(k, Grown(k, -1), n, r)),
             r = Region(b - n, FALSE), b \in Nat, n < b, Ends(b, FALSE), n + 1 <= b,
             \A j \in Keys : n + 1 <= j /\ j < b <=> j = n + 1,
             \A m \in n + 1 .. b - 1 : ~In(regions, m)
      PROVE  Tiling(regions') /\ Bools(regions') /\ Frees(n)
  <2> DEFINE new == Two(k, Grown(k, -1), n, r)
  <2>1. TwoTiles(new, k, n, b, TRUE, FALSE)
    BY <1>4, <1>6, TwoTilesIs, Zenon
  <2>2. Update({n + 1}, new)
    BY <1>6, Zenon
  <2> HIDE DEF new
  <2>3. Vacates({n + 1}, {k, n}, k, b)
    BY <1>1, <1>2, <1>6 DEF Vacates
  <2>4. PutsTwo({n + 1}, new, k, n, b, TRUE, FALSE)
    BY <1>2, <1>5, <1>6, <2>1, <2>2, <2>3, Zenon DEF PutsTwo
  <2>5. /\ Tiling(regions')
        /\ \A m \in k .. n - 1 : In(regions', m) <=> TRUE = TRUE
        /\ \A m \in n .. b - 1 : In(regions', m) <=> FALSE = TRUE
        /\ \A m \in first .. max : m \notin k .. b - 1 => (In(regions', m) <=> In(regions, m))
    <3>1. Tiling(regions') /\ TwoAre(k, n, b, TRUE, FALSE)
      BY <2>4, PutTwoAre, Zenon
    <3> QED
      BY <3>1, Zenon DEF TwoAre
  <2>6. Bools(regions')
    <3>1. \A j \in DOMAIN new : new[j].is_used \in BOOLEAN
      BY <2>1, Zenon DEF TwoTiles
    <3> QED
      BY <2>2, <3>1, UpdateBools, Zenon
  <2>7. Frees(n)
    BY <1>1, <1>2, <1>3, <1>6, <2>5 DEF Frees
  <2> QED
    BY <2>5, <2>6, <2>7
<1>7. CASE n + 1 \in Keys
  <2> DEFINE b == E(regions, n + 1)
  <2>1. /\ b \in Keys \cup {max + 1} /\ b \in Nat /\ b = n + 1 + L(regions, n + 1)
        /\ L(regions, n + 1) \in Nat \ {0} /\ regions[n + 1].length = L(regions, n + 1)
        /\ \A j \in Keys : n + 1 <= j /\ j < b => j = n + 1
        /\ \A m \in n + 1 .. b - 1 : In(regions, m) <=> Used(regions, n + 1)
    BY <1>7, RegionFacts, RegionUse DEF L
  <2>2. ~Used(regions, n + 1)
    BY <1>2, <1>7 DEF Tiling, Alternates, Keys
  <2>3. regions[n + 1].is_used = FALSE
    BY <1>7, <2>2, KindOf, Zenon
  <2>4. Grown(n + 1, 1) = Region(b - n, FALSE)
    <3>1. regions[n + 1].length + 1 = b - n
      BY <1>2, <2>1
    <3> QED
      BY <2>3, <3>1, Zenon DEF Grown
  <2>5. Update({n + 1}, Two(k, Grown(k, -1), n, Grown(n + 1, 1)))
    BY <1>7, Zenon DEF DeallocLast
  <2>6. Ends(b, FALSE)
    BY <1>7, <2>2 DEF Ends
  <2>7. n < b /\ n + 1 <= b /\ \A j \in Keys : n + 1 <= j /\ j < b <=> j = n + 1
    BY <1>1, <1>2, <2>1
  <2> HIDE DEF b
  <2> QED
    BY <1>6, <2>1, <2>2, <2>4, <2>5, <2>6, <2>7, Zenon
<1>8. CASE n + 1 \notin Keys
  <2>1. n + 1 = max + 1
    BY <1>1, <1>2, <1>8
  <2>2. Update({n + 1}, Two(k, Grown(k, -1), n, Region(1, FALSE)))
    BY <1>8, Zenon DEF DeallocLast
  <2>3. 1 = (n + 1) - n /\ n < n + 1 /\ n + 1 <= n + 1
    BY <1>2
  <2>4. Ends(n + 1, FALSE)
    BY <2>1 DEF Ends
  <2>5. /\ \A j \in Keys : n + 1 <= j /\ j < n + 1 <=> j = n + 1
        /\ \A m \in n + 1 .. (n + 1) - 1 : ~In(regions, m)
        /\ n + 1 \in Keys \cup {max + 1}
        /\ n + 1 \in Nat
    BY <1>1, <1>2, <1>8, <2>1
  <2>6. Region(1, FALSE) = Region((n + 1) - n, FALSE)
    BY <2>3, Zenon
  <2> DEFINE b == n + 1
  <2>7. /\ b \in Keys \cup {max + 1} /\ b \in Nat /\ n < b /\ n + 1 <= b /\ Ends(b, FALSE)
        /\ \A j \in Keys : n + 1 <= j /\ j < b <=> j = n + 1
        /\ \A m \in n + 1 .. b - 1 : ~In(regions, m)
        /\ Region(1, FALSE) = Region(b - n, FALSE)
    BY <2>3, <2>4, <2>5, <2>6, Zenon
  <2> HIDE DEF b
  <2> QED
    BY <1>6, <2>2, <2>7, Zenon
<1> QED
  BY <1>7, <1>8

(* resource_dealloc of a number inside a region. *)
LEMMA DeallocMiddleStep ==
    ASSUME Setting, Tiling(regions), Bools(regions), NEW k \in Keys, Used(regions, k),
           NEW n \in k .. E(regions, k) - 1, n # k, n # End(k) - 1, DeallocMiddle(k, n)
    PROVE  Tiling(regions') /\ Bools(regions') /\ Frees(n)
<1> USE FirstFacts
<1>1. /\ k \in first .. max /\ E(regions, k) \in Nat /\ E(regions, k) <= max + 1
      /\ E(regions, k) \in Keys \cup {max + 1}
      /\ \A j \in Keys : j \in Nat
      /\ \A j \in Keys : k <= j /\ j < E(regions, k) => j = k
      /\ End(k) = E(regions, k)
      /\ regions[k].is_used = TRUE
  <2>1. regions[k].is_used = TRUE
    BY DEF Used
  <2> QED
    BY <2>1, RegionFacts
<1>2. /\ n \in Nat /\ n + 1 \in Nat /\ n \in first .. max
      /\ k < n /\ n < n + 1 /\ n + 1 < E(regions, k)
  BY <1>1
<1>3. \A m \in k .. E(regions, k) - 1 : In(regions, m)
  BY RegionUse
<1> DEFINE b == E(regions, k)
           new == [j \in {k, n, n + 1} |->
                      IF j = k THEN Region(n - k, regions[k].is_used)
                      ELSE IF j = n THEN Region(1, FALSE)
                      ELSE Region(End(k) - n - 1, TRUE)]
<1>4. Update({}, new)
  BY DEF DeallocMiddle
<1>5. ThreeTiles(new, k, n, n + 1, b, TRUE, FALSE)
  <2>1. /\ DOMAIN new = {k, n, n + 1} /\ k # n /\ k # n + 1 /\ n # n + 1
        /\ 1 = (n + 1) - n /\ End(k) - n - 1 = b - (n + 1)
    BY <1>1, <1>2
  <2>2. /\ new[k] = Region(n - k, TRUE)
        /\ new[n] = Region(1, FALSE)
        /\ new[n + 1] = Region(End(k) - n - 1, TRUE)
    BY <1>1, <2>1, Zenon
  <2> HIDE DEF new, b
  <2> QED
    BY <2>1, <2>2 DEF ThreeTiles, Region
<1> HIDE DEF b, new
<1>6. Vacates({}, {k, n, n + 1}, k, b)
  BY <1>1, <1>2 DEF Vacates, b
<1>7. Begins(k, TRUE) /\ Ends(b, TRUE) /\ TRUE # FALSE
  BY DEF Begins, Ends, b
<1>8. PutsThree({}, new, k, n, n + 1, b, TRUE, FALSE)
  <2>1. b \in Keys \cup {max + 1} /\ n + 1 < b
    BY <1>1, <1>2 DEF b
  <2> QED
    BY <1>2, <1>4, <1>5, <1>6, <1>7, <2>1, Zenon DEF PutsThree
<1>9. /\ Tiling(regions')
      /\ \A m \in k .. n - 1 : In(regions', m) <=> TRUE = TRUE
      /\ \A m \in n .. (n + 1) - 1 : In(regions', m) <=> FALSE = TRUE
      /\ \A m \in n + 1 .. b - 1 : In(regions', m) <=> TRUE = TRUE
      /\ \A m \in first .. max : m \notin k .. b - 1 => (In(regions', m) <=> In(regions, m))
  <2>1. Tiling(regions') /\ ThreeAre(k, n, n + 1, b, TRUE, FALSE)
    BY <1>8, PutThree, Zenon
  <2> QED
    BY <2>1, Zenon DEF ThreeAre
<1>10. Bools(regions')
  <2>1. \A j \in DOMAIN new : new[j].is_used \in BOOLEAN
    BY <1>5, Zenon DEF ThreeTiles
  <2> QED
    BY <1>4, <2>1, UpdateBools, Zenon
<1>11. Frees(n)
  BY <1>1, <1>2, <1>3, <1>9 DEF Frees, b
<1> QED
  BY <1>9, <1>10, <1>11

LEMMA DeallocStep ==
    ASSUME Setting, Tiling(regions), Bools(regions), NEW n \in 1 .. max, Dealloc(n)
    PROVE  Tiling(regions') /\ Bools(regions') /\ Frees(n)
<1> USE FirstFacts
<1>1. PICK k \in Below(n) :
          /\ regions[k].is_used
          /\ \/ n = k /\ DeallocFirst(n)
             \/ n # k /\ n = End(k) - 1 /\ DeallocLast(k, n)
             \/ n # k /\ n # End(k) - 1 /\ DeallocMiddle(k, n)
  BY Zenon DEF Dealloc
<1>2. k \in Keys /\ n \in k .. E(regions, k) - 1
  BY BelowIs
<1>3. Used(regions, k)
  <2>1. regions[k].is_used \in BOOLEAN
    BY <1>2 DEF Bools, Keys
  <2> QED
    BY <1>1, <2>1, Zenon DEF Used
<1> QED
  BY <1>1, <1>2, <1>3, DeallocFirstStep, DeallocLastStep, DeallocMiddleStep, Zenon

-----------------------------------------------------------------------------
\* While resource_manager_delete runs, the regions that are left are the last
\* ones of the range, from the one at value, or at first, on.
Reached == IF value <= first THEN first ELSE value

Emptying ==
    /\ value \in 1 .. max + 1
    /\ Sized(regions) /\ Apart(regions)
    /\ \A k \in Keys : k >= Reached /\ E(regions, k) \in Keys \cup {max + 1}
    /\ Reached \in Keys \cup {max + 1}

Inv ==
    /\ Bools(regions)
    /\ value = 0 => Tiling(regions)
    /\ value # 0 => Emptying

LEMMA InitInv == ASSUME Setting, Init PROVE Inv
<1> USE FirstFacts
<1>1. /\ DOMAIN regions = {first} /\ regions[first].length = max - first + 1
      /\ regions[first].is_used = FALSE /\ value = 0
  BY DEF Init, One, Region
<1>2. L(regions, first) = max - first + 1 /\ E(regions, first) = max + 1
  BY <1>1 DEF L, E
<1>3. Sized(regions) /\ Apart(regions) /\ Covers(regions) /\ Alternates(regions)
  BY <1>1, <1>2 DEF Sized, Apart, Covers, Alternates
<1>4. Bools(regions)
  BY <1>1, Zenon DEF Bools
<1> QED
  BY <1>1, <1>3, <1>4 DEF Inv, Tiling

(* The region that resource_manager_delete finds next. *)
LEMMA NextRegion ==
    ASSUME Setting, Emptying, value <= max
    PROVE  Reached \in Keys /\ Above(value) = {Reached}
<1> USE FirstFacts
<1>1. \A k \in Keys : k \in Nat /\ k >= Reached
  BY DEF Emptying, Sized, Keys
<1>2. value \in Nat /\ Reached \in Nat /\ Reached <= max /\ Reached >= value
  BY DEF Emptying, Reached
<1>3. Reached \in Keys
  BY <1>2 DEF Emptying
<1>4. ASSUME NEW k \in Above(value) PROVE k = Reached
  <2>1. k \in Keys /\ k <= Reached
    BY <1>2, <1>3 DEF Above
  <2> QED
    BY <1>1, <1>2, <2>1
<1>5. Reached \in Above(value)
  BY <1>1, <1>2, <1>3 DEF Above
<1> QED
  BY <1>3, <1>4, <1>5, Zenon

LEMMA DeleteStep ==
    ASSUME Setting, Inv, DeleteRegion
    PROVE  Inv' /\ value # 0 /\ value' # 0
<1> USE FirstFacts
<1>1. value \in 1 .. max /\ value # 0 /\ Emptying /\ Bools(regions)
  BY DEF DeleteRegion, Inv
<1> DEFINE k == Reached
<1>2. k \in Keys /\ value' = End(k) /\ Update({k}, <<>>)
  <2>1. PICK j \in Above(value) : value' = End(j) /\ Update({j}, <<>>)
    BY Zenon DEF DeleteRegion
  <2>2. j = k /\ k \in Keys
    BY <1>1, NextRegion
  <2> QED
    BY <2>1, <2>2, Zenon
<1>3. /\ \A j \in Keys : /\ j \in first .. max /\ L(regions, j) \in Nat \ {0} /\ E(regions, j) \in Nat
                         /\ E(regions, j) > j /\ E(regions, j) <= max + 1 /\ j >= k
                         /\ E(regions, j) \in Keys \cup {max + 1}
      /\ \A i, j \in Keys : j > i => j >= E(regions, i)
  BY <1>1 DEF Emptying, Sized, Apart, E, Keys
<1> HIDE DEF k
<1>4. value' = E(regions, k)
  BY <1>2 DEF End, E, L
<1>5. DOMAIN regions' = Keys \ {k} /\ \A j \in Keys \ {k} : regions'[j] = regions[j]
  <2>1. DOMAIN <<>> = {}
    OBVIOUS
  <2>2. DOMAIN regions' = (Keys \ {k}) \cup DOMAIN <<>>
    BY <1>2 DEF Update
  <2>3. \A j \in Keys \ {k} : regions'[j] = IF j \in DOMAIN <<>> THEN <<>>[j] ELSE regions[j]
    BY <1>2 DEF Update
  <2> QED
    BY <2>1, <2>2, <2>3
<1>6. \A j \in Keys \ {k} : L(regions', j) = L(regions, j) /\ E(regions', j) = E(regions, j)
  BY <1>5 DEF L, E
<1>7. Reached' = value' /\ value' \in 1 .. max + 1
  BY <1>2, <1>3, <1>4 DEF Reached
<1>8. Keys' = Keys \ {k}
  BY <1>5 DEF Keys
<1>9. \A j \in Keys' : j \in Keys /\ j > k
  <2>1. \A j \in Keys : j \in Nat /\ j >= k
    BY <1>3
  <2>2. \A j \in Keys : j # k => j > k
    BY <1>2, <2>1
  <2> QED
    BY <1>8, <2>2, Zenon
<1>10. Sized(regions') /\ Apart(regions')
  <2>1. Sized(regions')
    BY <1>3, <1>5, <1>6 DEF Sized
  <2>2. Apart(regions')
    BY <1>3, <1>5, <1>6 DEF Apart
  <2> QED
    BY <2>1, <2>2
<1>11. \A j \in Keys' : j >= Reached' /\ E(regions', j) \in Keys' \cup {max + 1}
  <2> SUFFICES ASSUME NEW j \in Keys'
               PROVE  j >= Reached' /\ E(regions', j) \in Keys' \cup {max + 1}
    OBVIOUS
  <2>1. j >= Reached'
    BY <1>2, <1>3, <1>4, <1>7, <1>9
  <2>2. E(regions, j) # k
    BY <1>2, <1>3, <1>9
  <2> QED
    BY <1>3, <1>6, <1>8, <1>9, <2>1, <2>2
<1>12. Reached' \in Keys' \cup {max + 1}
  BY <1>2, <1>3, <1>4, <1>7, <1>8
<1>13. Emptying'
  BY <1>7, <1>10, <1>11, <1>12 DEF Emptying
<1>14. Bools(regions')
  BY <1>1, <1>5 DEF Bools, Keys
<1>15. value' # 0
  BY <1>7
<1> QED
  BY <1>1, <1>13, <1>14, <1>15 DEF Inv

LEMMA CallDeleteStep ==
    ASSUME Setting, Inv, CallDelete
    PROVE  Inv'
<1> USE FirstFacts
<1>1. value = 0 /\ value' = 1 /\ regions' = regions /\ Bools(regions) /\ Tiling(regions)
  BY DEF CallDelete, Inv
<1>2. Reached' = first
  BY <1>1 DEF Reached
<1>3. Keys' = Keys
  BY <1>1 DEF Keys
<1>4. first \in Keys
  BY <1>1, FirstIsKey DEF Keys
<1>5. \A k \in Keys : k >= first /\ E(regions, k) \in Keys \cup {max + 1}
  BY <1>1, RegionFacts
<1>6. Emptying'
  BY <1>1, <1>2, <1>3, <1>4, <1>5 DEF Emptying, Tiling
<1> QED
  BY <1>1, <1>6 DEF Inv

LEMMA NextInv == ASSUME Setting, Inv, [Next]_vars PROVE Inv'
<1>1. CASE Alloc
  <2>1. value = 0 /\ value' = 0
    BY <1>1 DEF Alloc
  <2>2. Bools(regions) /\ Tiling(regions)
    BY <2>1 DEF Inv
  <2> QED
    BY <1>1, <2>1, <2>2, AllocStep DEF Inv
<1>2. ASSUME NEW n \in 1 .. max, Dealloc(n) PROVE Inv'
  <2>1. value = 0 /\ value' = 0
    BY <1>2 DEF Dealloc
  <2>2. Bools(regions) /\ Tiling(regions)
    BY <2>1 DEF Inv
  <2> QED
    BY <1>2, <2>1, <2>2, DeallocStep DEF Inv
<1>3. CASE CallDelete
  BY <1>3, CallDeleteStep
<1>4. CASE DeleteRegion
  BY <1>4, DeleteStep
<1>5. CASE UNCHANGED vars
  BY <1>5 DEF vars, Inv, Emptying, Reached, Keys
<1> QED
  BY <1>1, <1>2, <1>3, <1>4, <1>5 DEF Next

(* In every reachable state the regions are a partition that alternates, or *)
(* what resource_manager_delete has left of one.                            *)
THEOREM InductiveInvariant == ASSUME Setting PROVE Spec => []Inv
<1>1. Init => Inv
  BY InitInv
<1>2. Inv /\ [Next]_vars => Inv'
  BY NextInv
<1> QED
  BY <1>1, <1>2, PTL DEF Spec

-----------------------------------------------------------------------------
(* Alternating, for every range: resource_alloc and resource_dealloc, which *)
(* join regions without asking for their kind, always leave regions that    *)
(* cover the range, do not overlap and alternate.                           *)
THEOREM RegionsAlternate == ASSUME Setting PROVE Spec => []Alternating
<1>1. ASSUME Inv PROVE Alternating
  <2> SUFFICES ASSUME value = 0
               PROVE  /\ first \in Keys
                      /\ \A k \in Keys :
                            /\ End(k) \in Keys \cup {max + 1}
                            /\ End(k) \in Keys => regions[End(k)].is_used # regions[k].is_used
                            /\ \A j \in Keys : j > k => j >= End(k)
    BY Zenon DEF Alternating
  <2>1. Tiling(regions) /\ Bools(regions)
    BY <1>1 DEF Inv
  <2>2. first \in Keys
    BY <2>1, FirstIsKey DEF Keys
  <2>3. ASSUME NEW k \in Keys
        PROVE  /\ End(k) \in Keys \cup {max + 1}
               /\ End(k) \in Keys => regions[End(k)].is_used # regions[k].is_used
               /\ \A j \in Keys : j > k => j >= End(k)
    <3>1. End(k) = E(regions, k) /\ E(regions, k) \in Keys \cup {max + 1}
      BY <2>1, RegionFacts
    <3>2. ASSUME End(k) \in Keys PROVE regions[End(k)].is_used # regions[k].is_used
      <4>1. Used(regions, End(k)) <=> ~Used(regions, k)
        BY <2>1, <3>1, <3>2 DEF Tiling, Alternates, Keys
      <4> QED
        BY <4>1, Zenon DEF Used
    <3>3. \A j \in Keys : j > k => j >= End(k)
      BY <2>1, <3>1 DEF Tiling, Apart, Keys
    <3> QED
      BY <3>1, <3>2, <3>3
  <2> QED
    BY <2>2, <2>3
<1> QED
  BY <1>1, InductiveInvariant, PTL

(* DeletionFreesAll, for every range: the loop of resource_manager_delete   *)
(* always finds the region it looks for, and leaves none behind.            *)
THEOREM DeletionIsComplete == ASSUME Setting PROVE Spec => []DeletionFreesAll
<1>1. ASSUME Inv PROVE DeletionFreesAll
  <2> USE FirstFacts
  <2>1. ASSUME value \in 1 .. max PROVE Above(value) # {}
    <3>1. Emptying /\ value <= max
      BY <1>1, <2>1 DEF Inv
    <3> QED
      BY <3>1, NextRegion
  <2>2. ASSUME value > max PROVE Keys = {}
    <3>1. Emptying
      BY <1>1, <2>2 DEF Inv
    <3>2. value \in Nat /\ Reached = value
      BY <2>2, <3>1 DEF Emptying, Reached
    <3>3. \A k \in Keys : k \in first .. max /\ k >= value
      BY <3>1, <3>2 DEF Emptying, Sized, Keys
    <3> QED
      BY <2>2, <3>2, <3>3
  <2> QED
    BY <2>1, <2>2 DEF DeletionFreesAll
<1> QED
  BY <1>1, InductiveInvariant, PTL

-----------------------------------------------------------------------------
(* resource_is_used tells whether a number is in use. *)
LEMMA IsUsedIs ==
    ASSUME Setting, Tiling(regions), Bools(regions), NEW n \in first .. max
    PROVE  IsUsed(n) <=> In(regions, n)
<1> USE FirstFacts
<1>1. PICK k \in Below(n) : TRUE
  BY BelowSome
<1>2. k \in Keys /\ n \in k .. E(regions, k) - 1
  BY BelowIs
<1>3. \A j \in Below(n) : j = k
  <2>1. \A j \in Below(n) : j \in Keys /\ j <= k /\ k <= j
    BY <1>1 DEF Below
  <2>2. \A j \in Keys : j \in Nat
    BY RegionFacts
  <2> QED
    BY <2>1, <2>2
<1>4. In(regions, n) <=> Used(regions, k)
  BY <1>2, RegionUse
<1>5. Used(regions, k) <=> regions[k].is_used
  <2>1. regions[k].is_used \in BOOLEAN
    BY <1>2 DEF Bools, Keys
  <2> QED
    BY <2>1, Zenon DEF Used
<1> QED
  BY <1>1, <1>3, <1>4, <1>5, Zenon DEF IsUsed

LEMMA UsedNumbersAre ==
    ASSUME Setting, Inv, value = 0
    PROVE  UsedNumbers = {n \in first .. max : In(regions, n)}
<1>1. Tiling(regions) /\ Bools(regions)
  BY DEF Inv
<1> QED
  BY <1>1, IsUsedIs, Zenon DEF UsedNumbers

LEMMA UsedNumbersAreNext ==
    ASSUME Setting
    PROVE  (Inv /\ value = 0 => UsedNumbers = {n \in first .. max : In(regions, n)})'
<1>1. Inv /\ value = 0 => UsedNumbers = {n \in first .. max : In(regions, n)}
  BY UsedNumbersAre
<1> QED
  BY <1>1, PTL

(* What a step that hands out or takes back a number does to UsedNumbers. *)
LEMMA AllocRefines ==
    ASSUME Setting, Inv, Inv', Alloc
    PROVE  Pool!Alloc
<1> USE FirstFacts
<1>1. value = 0 /\ value' = 0 /\ Tiling(regions) /\ Bools(regions)
  BY DEF Alloc, Inv
<1> DEFINE U == {n \in first .. max : In(regions, n)}
           V == {n \in first .. max : In(regions', n)}
<1>2. UsedNumbers = U
  BY <1>1, UsedNumbersAre
<1>3. UsedNumbers' = V
  BY <1>1, UsedNumbersAreNext
<1>4. \/ Takes(out')
      \/ out' = 0 /\ regions' = regions /\ \A m \in first .. max : In(regions, m)
  BY <1>1, AllocStep, Zenon
<1>5. CASE Takes(out')
  <2>1. out' \in (first .. max) \ U
    BY <1>5 DEF Takes
  <2>2. \A m \in (first .. max) \ U : out' <= m
    BY <1>5 DEF Takes
  <2>3. V = U \cup {out'}
    BY <1>5, Zenon DEF Takes
  <2> HIDE DEF U, V
  <2> QED
    BY <1>2, <1>3, <2>1, <2>2, <2>3, Zenon DEF Pool!Alloc, Pool!Numbers
<1>6. CASE out' = 0 /\ regions' = regions /\ \A m \in first .. max : In(regions, m)
  <2>1. U = first .. max /\ V = U
    BY <1>6, Zenon
  <2> HIDE DEF U, V
  <2> QED
    BY <1>2, <1>3, <1>6, <2>1, Zenon DEF Pool!Alloc, Pool!Numbers
<1> QED
  BY <1>4, <1>5, <1>6

LEMMA DeallocRefines ==
    ASSUME Setting, Inv, Inv', NEW n \in 1 .. max, Dealloc(n)
    PROVE  Pool!Dealloc
<1>1. value = 0 /\ value' = 0 /\ Tiling(regions) /\ Bools(regions) /\ out' = out
  BY DEF Dealloc, Inv
<1> DEFINE U == {m \in first .. max : In(regions, m)}
           V == {m \in first .. max : In(regions', m)}
<1>2. UsedNumbers = U
  BY <1>1, UsedNumbersAre
<1>3. UsedNumbers' = V
  BY <1>1, UsedNumbersAreNext
<1>4. Frees(n)
  BY <1>1, DeallocStep, Zenon
<1>5. n \in U
  BY <1>4 DEF Frees
<1>6. V = U \ {n}
  BY <1>4, Zenon DEF Frees
<1> HIDE DEF U, V
<1> QED
  BY <1>1, <1>2, <1>3, <1>5, <1>6, Zenon DEF Pool!Dealloc

(* ImplementsPool, for every range: an allocation returns the smallest free *)
(* number and puts that one in use, or returns 0 when there is none; giving *)
(* a number back frees that number alone.                                   *)
THEOREM Refinement == ASSUME Setting PROVE Spec => ImplementsPool
<1>1. ASSUME Init PROVE Pool!Init
  <2> USE FirstFacts
  <2>1. Inv /\ value = 0 /\ out = 0
    BY <1>1, InitInv DEF Init
  <2>2. UsedNumbers = {n \in first .. max : In(regions, n)}
    BY <2>1, UsedNumbersAre
  <2>3. DOMAIN regions = {first} /\ regions[first].is_used = FALSE
    BY <1>1 DEF Init, One, Region
  <2>4. \A n \in first .. max : ~In(regions, n)
    BY <2>3, Zenon DEF In, Used
  <2> QED
    BY <2>1, <2>2, <2>4, Zenon DEF Pool!Init
<1>2. ASSUME Inv, Inv', [Next]_vars PROVE [Pool!Next]_<<UsedNumbers, out>>
  <2>1. CASE Alloc
    BY <1>2, <2>1, AllocRefines, Zenon DEF Pool!Next
  <2>2. ASSUME NEW n \in 1 .. max, Dealloc(n) PROVE Pool!Next
    BY <1>2, <2>2, DeallocRefines, Zenon DEF Pool!Next
  <2>3. CASE CallDelete
    <3>1. UsedNumbers' = {} /\ out' = out
      BY <2>3 DEF CallDelete, UsedNumbers
    <3> QED
      BY <3>1, Zenon DEF Pool!Next, Pool!Close
  <2>4. CASE DeleteRegion
    <3>1. value # 0 /\ value' # 0 /\ out' = out
      BY <1>2, <2>4, DeleteStep, Zenon DEF DeleteRegion
    <3>2. UsedNumbers' = UsedNumbers
      BY <3>1, Zenon DEF UsedNumbers
    <3> QED
      BY <3>1, <3>2
  <2>5. CASE UNCHANGED vars
    <3>1. regions' = regions /\ out' = out /\ value' = value
      BY <2>5 DEF vars
    <3>2. UsedNumbers' = UsedNumbers
      BY <3>1 DEF UsedNumbers, IsUsed, Below, Keys
    <3> QED
      BY <3>1, <3>2
  <2> QED
    BY <1>2, <2>1, <2>2, <2>3, <2>4, <2>5 DEF Next
<1> QED
  BY <1>1, <1>2, InductiveInvariant, PTL DEF Spec, ImplementsPool, Pool!Spec

=============================================================================
