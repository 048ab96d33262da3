----------------------------- MODULE Kfs2Bitmap -----------------------------
(***************************************************************************)
(* The allocation bitmaps of the KFS2 file system (common/kfs2/bitmap.c,   *)
(* format.c): a tree of words of Radix bits.  A bit of the lowest level is *)
(* set when its item is free, one of a higher level when the word below it *)
(* is not empty.  The block cache of a level is written through and is     *)
(* left out.                                                               *)
(***************************************************************************)
EXTENDS Integers, FiniteSets, FiniteSetsExt

CONSTANTS
    Radix,          \* bits of a word (64)
    LevelCount,     \* KFS2_BITMAP_LEVEL_COUNT
    Count           \* the number of inodes or of data blocks

VARIABLES
    level,      \* the words of every level: sets of bits
    highest,    \* highest_level_offset
    out         \* what the last kfs2_bitmap_alloc returned

vars == <<level, highest, out>>

Levels == 1..LevelCount
(* The numbers that are handed out: one too many when the last word lacks  *)
(* a single bit, see InitialWord                                           *)
Items == IF Count % Radix = Radix - 1 THEN 0..Count ELSE 0..Count - 1

(* _compute_bitmap_lengths: the words of a level                           *)
Length[i \in 0..LevelCount] == IF i = 0 THEN Count ELSE (Length[i - 1] + Radix - 1) \div Radix

(* _init_bitmap; the shift of 1ull by 64 or more takes its low bits.  The  *)
(* comparison takes a word that lacks one bit for a full one.              *)
InitialWord(i, j) ==
    LET count == Length[i - 1]
    IN  IF j * Radix + Radix - 1 <= count THEN 0..Radix - 1
        ELSE {b \in 0..Radix - 1 : j * Radix + b < count}

_find_next_highest_level_offset(top, from) ==
    Min({j \in from..Length[LevelCount] - 1 : top[j] # {}} \union {Length[LevelCount]})

(* format and kfs2_bitmap_init                                             *)
Init ==
    /\ level = [i \in Levels |-> [j \in 0..Length[i] - 1 |-> InitialWord(i, j)]]
    /\ highest = 0
    /\ out = 0

-----------------------------------------------------------------------------
(* The way down: the word of each level that holds the lowest free item    *)
Path == LET p[i \in 0..LevelCount] ==
                IF i = LevelCount THEN highest ELSE p[i + 1] * Radix + Min(level[i + 1][p[i + 1]])
        IN  p

(* ... and up again: a word that has become empty clears its bit above     *)
Emptied(i, p) == \A k \in 1..i : Cardinality(level[k][p[k]]) = 1

kfs2_bitmap_alloc ==
    IF highest = Length[LevelCount]
    THEN out' = 0 /\ UNCHANGED <<level, highest>>
    ELSE LET p == Path
         IN  /\ out' = p[0]
             /\ level' = [i \in Levels |->
                            IF Emptied(i - 1, p) THEN [level[i] EXCEPT ![p[i]] = @ \ {Min(@)}]
                            ELSE level[i]]
             /\ highest' = IF Emptied(LevelCount, p)
                           THEN _find_next_highest_level_offset(level'[LevelCount], highest + 1)
                           ELSE highest

(* Faulty variant: only the lowest level is set.                           *)
kfs2_bitmap_dealloc_lowest(item) ==
    /\ level' = [level EXCEPT ![1][item \div Radix] = @ \union {item % Radix}]
    /\ UNCHANGED <<highest, out>>

(* Bits are set up to the first level where one is set already; the index  *)
(* that is compared with highest_level_offset is that of the level reached *)
kfs2_bitmap_dealloc(item) ==
    LET word(i) == item \div Radix ^ i
        bit(i) == (item \div Radix ^ (i - 1)) % Radix
        present == {i \in Levels : bit(i) \in level[i][word(i)]}
        reached == Min(present \union {LevelCount})
    IN  /\ level' = [i \in Levels |->
                        IF \A k \in present : i < k THEN [level[i] EXCEPT ![word(i)] = @ \union {bit(i)}]
                        ELSE level[i]]
        /\ highest' = IF word(reached) < highest THEN word(reached) ELSE highest
        /\ UNCHANGED out

Free == {item \in Items : item % Radix \in level[1][item \div Radix]}

Next ==
    \/ kfs2_bitmap_alloc
    \/ \E item \in Items \ Free : kfs2_bitmap_dealloc(item)

Spec == Init /\ [][Next]_vars

-----------------------------------------------------------------------------
(* Every allocation returns the lowest free item, or 0 when there is none, *)
(* and every deallocation frees exactly its item: the levels and           *)
(* highest_level_offset never hide a free item or show one that is taken.  *)
(* The item beyond the last one is in the pool when Count + 1 is a         *)
(* multiple of Radix.                                                      *)
Pool == INSTANCE AbstractPool WITH min <- 0, max <- Max(Items), used <- Items \ Free, out <- out

PoolInit == Pool!Init
PoolStep == [Pool!Next]_<<Items \ Free, out>>
=============================================================================
