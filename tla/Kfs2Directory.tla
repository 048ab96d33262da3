--------------------------- MODULE Kfs2Directory ----------------------------
(***************************************************************************)
(* A KFS2 directory (common/kfs2/api.c): a run of entries with their       *)
(* sizes, in the inode while it is small and then in one block.  Sizes are *)
(* in units of four bytes.  An entry without a name is free; it is split   *)
(* when it is used and never joined with its neighbours.                   *)
(***************************************************************************)
EXTENDS Integers, Sequences, FiniteSetsExt, Functions

CONSTANTS
    Names,          \* names that are linked and unlinked
    EntrySize(_),   \* size of the entry of a name (new_entry_size)
    InlineSize,     \* 48 bytes
    BlockSize,      \* KFS2_BLOCK_SIZE
    MinEntry,       \* 12 bytes, the smallest rest that becomes an entry
    Free            \* stands for no name

VARIABLES
    size,       \* parent->size
    entries,    \* the entries in their order
    rc,         \* kfs2_node_t.rc of the inode behind a name
    panicked    \* "_attach_child: update large parent"

vars == <<size, entries, rc, panicked>>

Entry(n, name) == [size |-> n, name |-> name]

(* kfs2_node_create of the directory                                       *)
Init ==
    /\ size = InlineSize
    /\ entries = <<Entry(InlineSize, Free)>>
    /\ rc = [name \in Names |-> 0]
    /\ panicked = FALSE

Offset(i) == SumFunction([k \in 1..i - 1 |-> entries[k].size])

(* The loops over offset<parent->size                                      *)
Visited == {i \in DOMAIN entries : Offset(i) < size}

(* kfs2_node_lookup, kfs2_node_iterate                                     *)
Lookup(name) == {i \in Visited : entries[i].name = name}

-----------------------------------------------------------------------------
(* _attach_child: the first free entry that is large enough ...            *)
Fits(name) == {i \in Visited : entries[i].name = Free /\ entries[i].size >= EntrySize(name)}

Used(i, name) ==
    LET rest == entries[i].size - EntrySize(name)
    IN  SubSeq(entries, 1, i - 1)
        \o (IF rest >= MinEntry THEN <<Entry(EntrySize(name), name), Entry(rest, Free)>>
            ELSE <<Entry(entries[i].size, name)>>)
        \o SubSeq(entries, i + 1, Len(entries))

(* ... or, the first time there is none, the end of a new block: the last  *)
(* entry is extended if it is free, by the block's size from its own start *)
Grown(name) ==
    LET n == Len(entries)
        start == Offset(n)
        need == EntrySize(name)
    IN  IF entries[n].name = Free
        THEN SubSeq(entries, 1, n - 1)
             \o <<Entry(need, name), Entry(entries[n].size + BlockSize - start - need, Free)>>
        ELSE entries \o <<Entry(need, name), Entry(BlockSize - (start + entries[n].size) - need, Free)>>

(* Faulty variant: the directory's size is not updated.                    *)
_attach_child_unsized(name) ==
    /\ rc' = [rc EXCEPT ![name] = @ + 1]
    /\ UNCHANGED size
    /\ IF Fits(name) # {}
       THEN entries' = Used(Min(Fits(name)), name) /\ UNCHANGED panicked
       ELSE IF size = InlineSize
       THEN entries' = Grown(name) /\ UNCHANGED panicked
       ELSE panicked' = TRUE /\ UNCHANGED entries

_attach_child(name) ==
    /\ rc' = [rc EXCEPT ![name] = @ + 1]
    /\ IF Fits(name) # {}
       THEN entries' = Used(Min(Fits(name)), name) /\ UNCHANGED <<size, panicked>>
       ELSE IF size = InlineSize
       THEN entries' = Grown(name) /\ size' = BlockSize /\ UNCHANGED panicked
       ELSE panicked' = TRUE /\ UNCHANGED <<size, entries>>

(* kfs2_node_create of a name that a lookup has not found                  *)
kfs2_node_create(name) ==
    /\ Lookup(name) = {}
    /\ _attach_child(name)

kfs2_node_unlink(name) ==
    /\ Lookup(name) # {}
    /\ entries' = [entries EXCEPT ![Min(Lookup(name))].name = Free]
    /\ rc' = [rc EXCEPT ![name] = @ - 1]
    /\ UNCHANGED <<size, panicked>>

Next ==
    /\ ~panicked
    /\ \E name \in Names : kfs2_node_create(name) \/ kfs2_node_unlink(name)

Spec == Init /\ [][Next]_vars

-----------------------------------------------------------------------------
(* An inode has as many references as the directory has entries for it, a  *)
(* lookup reaches every entry, and every entry in use lies in the part of  *)
(* the directory that is stored.                                           *)
NamesAreFound ==
    ~panicked =>
      /\ \A name \in Names : rc[name] = Len(SelectSeq(entries, LAMBDA e : e.name = name))
      /\ \A i \in DOMAIN entries : entries[i].name # Free =>
            /\ i \in Visited
            /\ Offset(i) + EntrySize(entries[i].name) <= size
=============================================================================
