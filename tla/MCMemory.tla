------------------------------ MODULE MCMemory ------------------------------
(* Memory and storage on small instances: the red-black tree with ten      *)
(* keys; the buddy allocator of pages with two regions of eight; the       *)
(* clearing of pages with two callers and the reset thread; the object     *)
(* allocator with three pages; a memory map of five pages; of the KFS2     *)
(* file system the bitmaps, the blocks of two files and one directory; and *)
(* the nodes of the virtual file system with two descriptors; page tables  *)
(* with up to two entries each; the heap of a program with two blocks; and *)
(* the compressor on all inputs of eight bits.  `part` says which of them  *)
(* a behaviour is about; the others stay in their initial states.          *)
EXTENDS RBTree, Sequences

CONSTANTS
    None,
    Created     \* the files that are created

VARIABLES part,
    heap, balancer, proc, owned,
    release, prompt, free, cookie, content, rproc, reset,
    max_used_count, head, page, live,
    heap_address, regions, groups, mapped, fault, panicked,
    level, highest, out,
    node, nfree, disk, written, panic, full,
    size, entries, rc, dpanicked,
    sys, fd, lost, creates,
    entry, mapping, alive, strayed,
    block, bucket, bitmap, uregions, held,
    data, compression, offset, non_match_length, stream, rdi, rdx, memory, base, phase

MCKeys == 1 .. 10

\* A hole below the first range; the second one begins a region.
Pmm == INSTANCE Pmm WITH
    BucketCount <- 3, Regions <- 2, LowRegions <- 1, Ranges <- {<<2, 8>>, <<8, 10>>},
    Procs <- {1}, Counts <- {1, 2, 3}
pmmVars == <<heap, balancer, proc, owned>>

PageReset == INSTANCE PageReset WITH Pages <- 0 .. 1, Procs <- {1, 2}, Counts <- {1, 2}, proc <- rproc
resetVars == <<release, prompt, free, cookie, content, rproc, reset>>

Omm == INSTANCE Omm WITH PageIds <- {1, 2, 3}, MaxUsedCounts <- {2, 3, 4}
ommVars == <<max_used_count, head, page, live>>

Mmap == INSTANCE Mmap WITH
    Bottom <- 0, Top <- 5, Lengths <- {1, 2}, GuardPages <- 1, Threads <- {1}, heap <- heap_address
mmapVars == <<heap_address, regions, groups, mapped, fault, panicked>>

\* Words of three bits; the last one has one bit, or lacks one.
Bitmap == INSTANCE Kfs2Bitmap WITH Radix <- 3, LevelCount <- 2, Count <- 10
LongBitmap == INSTANCE Kfs2Bitmap WITH Radix <- 3, LevelCount <- 2, Count <- 8
bitmapVars == <<level, highest, out>>

\* Two words in an inode, three in a block: sizes of every kind of storage, and
\* fewer blocks than the two files may need.
NodeSizes(n) == IF n = 1 THEN {0, 2, 4, 7, 8} ELSE {2, 5, 8}
Files == INSTANCE Kfs2Node WITH
    Slots <- 2, BlockSize <- 3, BlockCount <- 6, Nodes <- {1, 2}, Sizes <- NodeSizes,
    FirstBlock <- 1, AlignedShrink <- FALSE, free <- nfree
fileVars == <<node, nfree, disk, written, panic, full>>

\* Names of three lengths; a directory that does not fill its block.
NameSize(name) == CASE name \in {"a", "b"} -> 3 [] name = "c" -> 4 [] name = "d" -> 5
Directory == INSTANCE Kfs2Directory WITH
    Names <- {"a", "b", "c", "d"}, EntrySize <- NameSize, InlineSize <- 12, BlockSize <- 32,
    MinEntry <- 3, Free <- None, panicked <- dpanicked
directoryVars == <<size, entries, rc, dpanicked>>

\* A directory with one file; another file is created in the root, or there.
InRoot == {<<"f">>}
InDirectory == {<<"d", "f">>}
Vfs == INSTANCE Vfs WITH
    Paths <- {<<"d">>, <<"d", "g">>} \union Created, Entries <- {<<1, "d", 2>>, <<2, "g", 3>>},
    Creatable <- Created, Temporary <- InRoot, NodeIds <- 1 .. 6, Fds <- {1, 2},
    RootRefs <- 3, MaxCreates <- 2
vfsVars == <<sys, fd, lost, creates>>

Vmm == INSTANCE Vmm WITH
    Indices <- <<{0}, {0}, {0, 1}, {0, 1}>>, Sizes <- {2, 3, 4}, Frames <- {1}
vmmVars == <<entry, mapping, alive, strayed>>

\* Three buckets, and two sizes of mappings of their own.
Heap == INSTANCE Heap WITH
    Header <- 2, GrowSize <- 12, BucketCount <- 3, PageSize <- 16, Requests <- {1, 3, 20, 40},
    MaxRegions <- 2, MaxBlocks <- 2, head <- bucket, regions <- uregions
heapVars == <<block, bucket, bitmap, uregions, held>>

\* Limits below the length of the data, and fields that need all their bits.
Compressor == INSTANCE Compressor WITH
    Inputs <- {<<>>} \union [1 .. 8 -> 0 .. 1], Word <- 2, MinMatch <- 2, MaxNonMatch <- 5,
    MaxMatch <- 5, WindowSize <- 5, MaxPreprocessed <- 3, LowLength <- 4, HighLength <- 2,
    LowOffset <- 2, LowNonMatch <- 4, Alignments <- {0, 1}, level <- compression
compressorVars == <<data, compression, offset, non_match_length, stream, rdi, rdx, memory, base, phase>>

mcvars == <<part, vars, pmmVars, resetVars, ommVars, mmapVars, bitmapVars, fileVars, directoryVars,
            vfsVars, vmmVars, heapVars, compressorVars>>

MCInit ==
    /\ part \in {"tree", "pmm", "reset", "omm", "mmap", "bitmap", "long bitmap", "files",
                "directory", "vfs", "vmm", "heap", "compressor"}
    /\ Init /\ Pmm!Init /\ PageReset!Init /\ Omm!Init /\ Mmap!Init
    /\ \/ part = "long bitmap" /\ LongBitmap!Init
       \/ part # "long bitmap" /\ Bitmap!Init
    /\ Files!Init /\ Directory!Init /\ Vfs!Init
    /\ part = "reset" \/ (~release /\ ~prompt)
    /\ part = "omm" \/ max_used_count = 2
    /\ Vmm!Init /\ Heap!Init /\ Compressor!Init
    /\ part = "compressor" \/ (data = <<>> /\ compression = "none" /\ base = 0)

MCNext ==
    /\ UNCHANGED part
    /\ \/ part = "tree" /\ Next
       \/ part # "tree" /\ UNCHANGED vars
    /\ \/ part = "pmm" /\ Pmm!Next
       \/ part # "pmm" /\ UNCHANGED pmmVars
    /\ \/ part = "reset" /\ PageReset!Next
       \/ part # "reset" /\ UNCHANGED resetVars
    /\ \/ part = "omm" /\ Omm!Next
       \/ part # "omm" /\ UNCHANGED ommVars
    /\ \/ part = "mmap" /\ Mmap!Next
       \/ part # "mmap" /\ UNCHANGED mmapVars
    /\ \/ part = "bitmap" /\ Bitmap!Next
       \/ part = "long bitmap" /\ LongBitmap!Next
       \/ part \notin {"bitmap", "long bitmap"} /\ UNCHANGED bitmapVars
    /\ \/ part = "files" /\ Files!Next
       \/ part # "files" /\ UNCHANGED fileVars
    /\ \/ part = "directory" /\ Directory!Next
       \/ part # "directory" /\ UNCHANGED directoryVars
    /\ \/ part = "vfs" /\ Vfs!Next
       \/ part # "vfs" /\ UNCHANGED vfsVars
    /\ \/ part = "vmm" /\ Vmm!Next
       \/ part # "vmm" /\ UNCHANGED vmmVars
    /\ \/ part = "heap" /\ Heap!Next
       \/ part # "heap" /\ UNCHANGED heapVars
    /\ \/ part = "compressor" /\ Compressor!Next
       \/ part # "compressor" /\ UNCHANGED compressorVars

MCSpec == MCInit /\ [][MCNext]_mcvars

\* The nodes of the virtual file system alone.
VfsSpec == MCInit /\ part = "vfs" /\ [][MCNext]_mcvars

(* The tree is balanced after every operation, and its lookups and its     *)
(* iteration agree with the set of its keys (rb_tree.c).                   *)
TreeIsRight == part = "tree" => Balanced /\ LookupsAgree

(* Every page of memory is in one block, free or handed out (pmm.c), and   *)
(* every page of a process's map in one region, mapped only if the region  *)
(* is in use (mmap.c); the blocks of a program's heap fill its mappings    *)
(* (heap.c).                                                               *)
MemoryIsTiled ==
    /\ part = "pmm" => Pmm!BlocksTile
    /\ part = "mmap" => Mmap!RegionsTile /\ Mmap!MappedInRegions
    /\ part = "heap" => Heap!HeapIsTiled

(* The bucket lists of pmm.c hold the free blocks and no two buddies; the  *)
(* lists of omm.c file every page by how many of its objects are in use,   *)
(* and those of heap.c every free block by its size.                       *)
FreeListsAreExact ==
    /\ part = "pmm" => Pmm!ListsAreSound /\ Pmm!NoFreeBuddies
    /\ part = "omm" => Omm!PagesAreFiled
    /\ part = "heap" => Heap!FreeListsAreExact

(* An owner finds its pages as it asked for them, whenever the reset       *)
(* thread ran, and a debug build never takes its own writes for a use      *)
(* after free (pmm.c, pmm_alloc against _pmm_memory_reset_thread).  An     *)
(* address translates to the page it was mapped to last, and a page table  *)
(* is freed with its last entry and not before, until flags are adjusted   *)
(* where no page is mapped (vmm.c).                                        *)
PagesAreRight ==
    /\ part = "reset" => PageReset!PagesAreRight /\ PageReset!NoUseAfterFree
    /\ part = "vmm" => Vmm!TranslatesAsMapped /\ Vmm!TablesAreCounted

(* What was stored comes back: the contents of a block of the heap that is *)
(* resized (heap.c), and the bytes that were compressed, with the longest  *)
(* matches there are (compressor.c, decompressor.asm).                     *)
DataIsRestored ==
    /\ part = "heap" => Heap!ContentsAreKept
    /\ part = "compressor" => Compressor!DataIsRestored /\ Compressor!MatchIsLongest

(* A bitmap of KFS2 hands out the smallest free number, and none twice     *)
(* (bitmap.c).  The numbers are those of the items, and one more when the  *)
(* last word lacks a single bit (format.c:40).                             *)
ImplementsPool ==
    /\ (part = "bitmap" => Bitmap!PoolInit) /\ (part = "long bitmap" => LongBitmap!PoolInit)
    /\ [][/\ part = "bitmap" => Bitmap!PoolStep
          /\ part = "long bitmap" => LongBitmap!PoolStep]_mcvars

(* A file keeps the words that were written, however it is resized, and    *)
(* every data block belongs to one place of one file or is free, until a   *)
(* resize finds the disk full (KFS2's api.c, _node_resize and              *)
(* kfs2_node_delete); the node and the inode of an open file exist however *)
(* it is unlinked, and those of no other unlinked file do, except below a  *)
(* directory that was unlinked with entries in it (node.c, fd.c).          *)
FilesAreKept ==
    /\ part = "files" => Files!ContentIsKept /\ Files!BlocksOwnedOnce /\ Files!InBounds
    /\ part = "vfs" => Vfs!HeldIsAlive /\ Vfs!NoPanic /\ Vfs!NoLeak

(* A linked name is found, and no other, in a directory on disk (KFS2's    *)
(* api.c, _attach_child and kfs2_node_unlink) and among the cached nodes   *)
(* (node.c, vfs_node_lookup and vfs_node_unlink).                          *)
NamesAreFound ==
    /\ part = "directory" => Directory!NamesAreFound
    /\ part = "vfs" => Vfs!CacheAgrees

(* No node is freed that has cached children: the panic of vfs_node_delete *)
(* is never met (node.c).                                                  *)
NoPanic == Vfs!NoPanic
=============================================================================
