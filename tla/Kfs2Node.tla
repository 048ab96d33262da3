------------------------------ MODULE Kfs2Node ------------------------------
(***************************************************************************)
(* The data of KFS2 files (common/kfs2/api.c, chunk.c, module/kfs2/fs.c).  *)
(* Sizes count words of eight bytes: an inode has Slots words of data,     *)
(* which hold the file itself (inline), the blocks of the file (single) or *)
(* in the first word the block of a table of blocks (double).  A block has *)
(* BlockSize words.  0 stands for no block, although kfs2_bitmap_alloc     *)
(* (Kfs2Bitmap) hands out block 0 first.  Words that are in no file (of a  *)
(* free block, or of an inode beyond its data) are never read as anything  *)
(* but unwritten data, and are kept as 0.                                  *)
(***************************************************************************)
EXTENDS Integers, Sequences, FiniteSets, FiniteSetsExt, SequencesExt

CONSTANTS
    Slots,          \* words of kfs2_node_data_t (6)
    BlockSize,      \* KFS2_BLOCK_SIZE in words (512)
    BlockCount,     \* data blocks of the file system
    Nodes,          \* numbers of the inodes
    Sizes(_),       \* sizes that are asked for, by inode
    FirstBlock,     \* 1 once an installed file has taken block 0 for its table, 0 before
    AlignedShrink   \* are files shrunk to a multiple of the block size

VARIABLES
    node,       \* kfs2_node_t by inode
    free,       \* the free data blocks
    disk,       \* the words of the data blocks
    written,    \* the words of a file that have been written since they exist
    panic,      \* why the kernel has panicked, or "no"
    full        \* history: kfs2_bitmap_alloc had no block left and returned 0

vars == <<node, free, disk, written, panic, full>>

Words == 0..BlockSize - 1
Zero == [i \in Words |-> 0]
Installed == [i \in Words |-> BlockCount + i]
Mark(n, offset) == 1000 * n + offset

Blank == [live |-> FALSE, size |-> 0, storage |-> "inline", data |-> [i \in 0..Slots - 1 |-> 0]]

Storage(size) ==
    CASE size <= Slots -> "inline"
      [] size > Slots /\ size <= Slots * BlockSize -> "single"
      [] size > Slots * BlockSize /\ size <= BlockSize * BlockSize -> "double"
      [] OTHER -> "triple"

Init ==
    /\ node = [n \in Nodes |-> Blank]
    /\ free = FirstBlock..BlockCount - 1
    /\ disk = [b \in 0..BlockCount - 1 |-> IF b < FirstBlock THEN Installed ELSE Zero]
    /\ written = [n \in Nodes |-> {}]
    /\ panic = "no" /\ full = FALSE

(* kfs2_node_create of a file, kfs2_node_delete when its last name is gone *)
kfs2_node_create(n) ==
    /\ ~node[n].live
    /\ node' = [node EXCEPT ![n].live = TRUE]
    /\ UNCHANGED <<free, disk, written, panic, full>>

(* kfs2_bitmap_dealloc of a set of blocks                                  *)
Deallocated(blocks, freed, rest) ==
    /\ free' = rest \union freed
    /\ disk' = [b \in DOMAIN blocks |-> IF b \in freed THEN Zero ELSE blocks[b]]

SingleBlocks(n) == {node[n].data[i] : i \in 0..Slots - 1} \ {0}

kfs2_node_delete(n) ==
    /\ IF node[n].storage = "double" THEN panic' = "unsupported" ELSE UNCHANGED panic
    /\ Deallocated(disk, IF node[n].storage = "single" THEN SingleBlocks(n) ELSE {}, free)
    /\ node' = [node EXCEPT ![n] = Blank]
    /\ written' = [written EXCEPT ![n] = {}]
    /\ UNCHANGED full

-----------------------------------------------------------------------------
(* The blocks of a file by position                                        *)
Entries(n) ==
    CASE node[n].storage = "inline" -> [i \in Words |-> 0]
      [] node[n].storage = "single" -> [i \in Words |-> IF i < Slots THEN node[n].data[i] ELSE 0]
      [] node[n].storage = "double" -> disk[node[n].data[0]]

(* kfs2_bitmap_alloc, several times: the lowest free blocks, then 0        *)
Allocated(k) ==
    [i \in 1..k |-> IF i <= Cardinality(free)
                    THEN CHOOSE b \in free : Cardinality({c \in free : c < b}) = i - 1 ELSE 0]

(* The positions a size needs get the blocks they lack, in order; those it *)
(* does not need give theirs back                                          *)
Resized(entries, size, new) ==
    LET lacks(i) == i * BlockSize < size /\ entries[i] = 0
    IN  [i \in Words |-> CASE i * BlockSize >= size -> 0
                           [] lacks(i) -> new[Cardinality({j \in 0..i : lacks(j)})]
                           [] OTHER -> entries[i]]

Missing(entries, size) == Cardinality({i \in Words : i * BlockSize < size /\ entries[i] = 0})

(* The rest of the block a file now ends in is cleared; if it ends at the  *)
(* end of a block the next position is looked up, which has no block, and  *)
(* the block cleared is block 0                                            *)
ClearTail(blocks, entries, size) ==
    LET b == IF size \div BlockSize \in DOMAIN entries THEN entries[size \div BlockSize] ELSE 0
    IN  [blocks EXCEPT ![b] = [i \in Words |-> IF i < size % BlockSize THEN @[i] ELSE 0]]

-----------------------------------------------------------------------------
(* _node_resize_data_* and the end of _node_resize                         *)
Store(n, size, storage, data) ==
    /\ node' = [node EXCEPT ![n].size = size, ![n].storage = storage, ![n].data = data]
    /\ written' = [written EXCEPT ![n] = @ \intersect 0..size - 1]

InlineInline(n, size) ==
    /\ Store(n, size, "inline",
             [i \in 0..Slots - 1 |-> IF i >= node[n].size \/ i >= size THEN 0 ELSE node[n].data[i]])
    /\ UNCHANGED <<free, disk, panic, full>>

(* Faulty variant: the blocks are not given back.                          *)
SingleInlineKeeping(n, size) ==
    LET first == disk[node[n].data[0]]
    IN  /\ Store(n, size, "inline", [i \in 0..Slots - 1 |-> IF i < size THEN first[i] ELSE 0])
        /\ UNCHANGED <<free, disk, panic, full>>

SingleInline(n, size) ==
    LET first == disk[node[n].data[0]]
    IN  /\ Store(n, size, "inline", [i \in 0..Slots - 1 |-> IF i < size THEN first[i] ELSE 0])
        /\ Deallocated(disk, SingleBlocks(n), free)
        /\ UNCHANGED <<panic, full>>

(* To blocks: a table is taken first and given back first                  *)
ToBlocks(n, size, storage) ==
    LET old == node[n]
        entries == Entries(n)
        table == IF storage = "double" /\ old.storage # "double" THEN 1 ELSE 0
        new == Allocated(table + Missing(entries, size))
        resized == Resized(entries, size, SubSeq(new, table + 1, Len(new)))
        where == IF table = 1 THEN new[1] ELSE old.data[0]
        data == IF storage = "single" THEN [i \in 0..Slots - 1 |-> resized[i]]
                ELSE [i \in 0..Slots - 1 |-> IF i = 0 THEN where ELSE 0]
        tabled == IF storage = "double" THEN [disk EXCEPT ![where] = resized] ELSE disk
        kept == IF old.storage = "inline"
                THEN [tabled EXCEPT ![resized[0]] = [i \in Words |-> IF i < old.size THEN old.data[i] ELSE 0]]
                ELSE tabled
        surplus == {entries[i] : i \in Words} \ ({resized[i] : i \in Words} \union {0})
    IN  /\ Store(n, size, storage, data)
        /\ Deallocated(IF size < old.size
                       THEN ClearTail(kept, IF storage = "single" THEN data ELSE resized, size) ELSE kept,
                       surplus \union IF old.storage = "double" /\ storage = "single" THEN {old.data[0]} ELSE {},
                       free \ ToSet(new))
        /\ full' = (Len(new) > Cardinality(free))
        /\ UNCHANGED panic

(* To or from the larger storages, and from a table to the inode           *)
Unsupported == panic' = "unsupported" /\ UNCHANGED <<node, free, disk, written, full>>

_node_resize(n, size) ==
    LET old == node[n].storage
        new == Storage(size)
    IN  /\ size # node[n].size
        /\ (size < node[n].size /\ new # "inline" /\ size % BlockSize = 0) => AlignedShrink
        /\ \/ old = "inline" /\ new = "inline" /\ InlineInline(n, size)
           \/ old = "single" /\ new = "inline" /\ SingleInline(n, size)
           \/ new \in {"single", "double"} /\ ToBlocks(n, size, new)
           \/ (new = "triple" \/ (old = "double" /\ new = "inline")) /\ Unsupported

-----------------------------------------------------------------------------
(* kfs2_chunk_read: the block that holds a word, which must not be 0       *)
Block(n, offset) == Entries(n)[offset \div BlockSize]
OutOfBounds(n, offset) == node[n].storage # "inline" /\ Block(n, offset) = 0

Word(n, offset) ==
    IF node[n].storage = "inline" THEN node[n].data[offset]
    ELSE disk[Block(n, offset)][offset % BlockSize]

(* kfs2_node_write of the words from an offset to the end of the file      *)
kfs2_node_write(n, offset) ==
    LET range == offset..node[n].size - 1
    IN  /\ offset < node[n].size
        /\ IF \E o \in range : OutOfBounds(n, o)
           THEN panic' = "out of bounds" /\ UNCHANGED <<node, free, disk, written, full>>
           ELSE /\ IF node[n].storage = "inline"
                   THEN /\ node' = [node EXCEPT ![n].data = [i \in 0..Slots - 1 |->
                                        IF i \in range THEN Mark(n, i) ELSE @[i]]]
                        /\ UNCHANGED disk
                   ELSE /\ disk' = [b \in DOMAIN disk |-> [w \in Words |->
                                        LET at == {o \in range : Block(n, o) = b /\ o % BlockSize = w}
                                        IN  IF at # {} THEN Mark(n, Max(at)) ELSE disk[b][w]]]
                        /\ UNCHANGED node
                /\ written' = [written EXCEPT ![n] = @ \union range]
                /\ UNCHANGED <<free, panic, full>>

(* After a resize for which there are too few blocks a file has block 0 in *)
(* places, which it overwrites and where it cannot be read: nothing is     *)
(* said of such a disk.                                                    *)
Next ==
    /\ panic = "no" /\ ~full
    /\ \E n \in Nodes :
          \/ kfs2_node_create(n)
          \/ /\ node[n].live
             /\ \/ kfs2_node_delete(n)
                \/ \E size \in Sizes(n) : _node_resize(n, size)
                \/ \E offset \in {0, node[n].size - 1} : offset >= 0 /\ kfs2_node_write(n, offset)

Spec == Init /\ [][Next]_vars

-----------------------------------------------------------------------------
(* What was written to a file and not cut off is still there, through      *)
(* every change of storage of this file and of the others, and the table   *)
(* of the installed file is intact, as long as there are blocks enough.    *)
ContentIsKept == full \/
    /\ \A n \in Nodes : node[n].live => \A o \in written[n] : Word(n, o) = Mark(n, o)
    /\ FirstBlock = 1 => disk[0] = Installed

(* A data block is free or belongs to one place of one file: none is lost  *)
(* and none is given to two files, as long as there are enough.            *)
BlocksOwnedOnce ==
    LET live == {n \in Nodes : node[n].live}
        tables == {<<n, node[n].data[0]>> : n \in {m \in live : node[m].storage = "double"}}
        places == {<<n, i>> \in live \X Words : Entries(n)[i] # 0}
        owned == {t[2] : t \in tables} \union {Entries(p[1])[p[2]] : p \in places}
    IN  panic = "no" /\ ~full =>
          /\ owned = (FirstBlock..BlockCount - 1) \ free
          /\ Cardinality(owned) = Cardinality(tables) + Cardinality(places)

(* "I/O out of bounds" (chunk.c:94) never comes up: the words of a file    *)
(* have a block, if block 0 is in use, as 0 means that there is none, and  *)
(* as long as there are blocks enough.                                     *)
InBounds == panic # "out of bounds"
=============================================================================
