--------------------------------- MODULE Vfs --------------------------------
(***************************************************************************)
(* Nodes of the virtual file system (kernel/vfs/node.c, vfs.c), the file   *)
(* descriptors and iterators that refer to them (kernel/fd/fd.c), and the  *)
(* entries and inodes of a KFS2 file system below (module/kfs2/fs.c): how  *)
(* nodes are cached, referenced, unlinked and freed.  Two levels of        *)
(* directories, paths from the root, ordinary permissions, no links and no *)
(* mount points; every call is one step.                                   *)
(***************************************************************************)
EXTENDS Integers, Sequences, FiniteSets, SequencesExt

CONSTANTS
    Paths,      \* sequences of one or two names that are opened
    Entries,    \* the entries on disk at first, <<directory, name, inode>>
    Creatable,  \* those of Paths that FD_FLAG_CREATE is used with
    Temporary,  \* those that FD_FLAG_DELETE_ON_EXIT is used with
    NodeIds,    \* addresses of vfs_node_t
    Fds,        \* descriptors and iterators
    RootRefs,   \* references of the mount and of processes to the root
    MaxCreates  \* bound on the calls that create a file, or fail to

VARIABLES
    sys,     \* nodes in memory; entries and inodes on disk, those of them with
             \* a count; a panic; history: what was below an unlinked directory
    fd,      \* the node of every open descriptor, 0 when closed
    lost,    \* history: nodes of which fd_open forgot a reference
    creates  \* history: the number of calls that created a file, or failed to

vars == <<sys, fd, lost, creates>>

Root == 100
Nobody == 0
Ids == NodeIds \union {Root}
Live(s) == DOMAIN s.node

(* Directories are named by their inodes; 1 is the root                    *)
Entry(s, dir, name) == {e \in s.entries : e[1] = dir /\ e[2] = name}
HasEntry(s, inode) == inode = 1 \/ \E e \in s.entries : e[3] = inode
Below(s, dir) == {e[3] : e \in {d \in s.entries : d[1] = dir}}
NewInode(s) == CHOOSE i \in 1 .. Cardinality(s.inodes) + 1 : i \notin s.inodes

(* _init_node: one reference, for the caller                               *)
NewNode(name, inode) ==
    [name |-> name, inode |-> inode, rc |-> 1, parent |-> Nobody, children |-> <<>>, temporary |-> FALSE]

Put(s, n, record) == [s EXCEPT !.node = [k \in DOMAIN @ \union {n} |-> IF k = n THEN record ELSE @[k]]]
Address(s) == CHOOSE n \in NodeIds \ Live(s) : \A m \in NodeIds \ Live(s) : n <= m

-----------------------------------------------------------------------------
(* Faulty variant: the inode is never freed.                               *)
DeleteKeepingInode(s, n) ==
    IF s.node[n].children # <<>> THEN [s EXCEPT !.panicked = TRUE]
    ELSE [s EXCEPT !.node = [k \in DOMAIN @ \ {n} |-> @[k]]]

(* vfs_node_delete, and _kfs2_delete and kfs2_node_delete: an inode whose  *)
(* count is 0 is freed too, with the entries that are still in it.         *)
Delete(s, n) ==
    LET i == s.node[n].inode
        t == [s EXCEPT !.node = [k \in DOMAIN @ \ {n} |-> @[k]]]
    IN  IF s.node[n].children # <<>> THEN [s EXCEPT !.panicked = TRUE]
        ELSE IF i \in s.counted THEN t
        ELSE [t EXCEPT !.inodes = @ \ {i}, !.entries = {e \in @ : e[1] # i}, !.orphans = @ \ {i}]

Ref(s, n) == [s EXCEPT !.node[n].rc = @ + 1]

RECURSIVE Unref(_, _)

(* vfs_node_dettach_child *)
Detach(s, n) ==
    IF s.node[n].parent = Nobody THEN s
    ELSE LET p == s.node[n].parent
         IN  [Unref([s EXCEPT !.node[p].children = SelectSeq(@, LAMBDA c : c # n)], p)
                EXCEPT !.node[n].parent = Nobody]

(* vfs_node_unref and _vfs_node_process_unref.  rc is a u64: a negative    *)
(* number stands for one that wrapped around.                              *)
Unref(s, n) ==
    LET t == [s EXCEPT !.node[n].rc = @ - 1]
    IN  IF t.node[n].rc # 0 THEN t
        ELSE IF t.node[n].parent = Nobody THEN Delete(t, n)
        ELSE IF t.node[n].temporary THEN Delete(Detach(t, n), n)
        ELSE t

(* vfs_node_attach_child, and the same lines of vfs_node_lookup            *)
Attach(s, p, n) == [Ref([s EXCEPT !.node[n].parent = p], p) EXCEPT !.node[p].children = <<n>> \o @]

(* vfs_node_lookup and _kfs2_lookup: the node, and the new state           *)
Lookup(s, p, name) ==
    LET cached == {c \in ToSet(s.node[p].children) : s.node[c].name = name}
        onDisk == Entry(s, s.node[p].inode, name)
    IN  IF cached # {} THEN LET c == CHOOSE c \in cached : TRUE IN <<Ref(s, c), c>>
        ELSE IF onDisk = {} THEN <<s, Nobody>>
        ELSE LET n == Address(s)
             IN  <<Attach(Put(s, n, NewNode(name, (CHOOSE e \in onDisk : TRUE)[3])), p, n), n>>

(* vfs_lookup_for_creation: the node that was found, or the directory to   *)
(* create it in.  That directory is returned without a reference.          *)
Found(s, n) == [sys |-> s, node |-> n, parent |-> Nobody]
Missing(s, dir, isLast) ==
    [sys |-> Unref(s, dir), node |-> Nobody, parent |-> IF isLast THEN dir ELSE Nobody]

Walk(s, path) ==
    LET one == Lookup(Ref(s, Root), Root, path[1])
        two == Lookup(one[1], one[2], path[2])
    IN  IF one[2] = Nobody THEN Missing(one[1], Root, Len(path) = 1)
        ELSE IF Len(path) = 1 THEN Found(Unref(one[1], Root), one[2])
        ELSE LET t == [two EXCEPT ![1] = Unref(@, Root)]
             IN  IF two[2] = Nobody THEN Missing(t[1], one[2], TRUE)
                 ELSE Found(Unref(t[1], one[2]), two[2])

(* vfs_node_create and _kfs2_create                                        *)
Create(s, p, name) ==
    LET n == Address(s)
        i == NewInode(s)
    IN  <<Attach(Put([s EXCEPT !.inodes = @ \union {i}, !.counted = @ \union {i},
                               !.entries = @ \union {<<s.node[p].inode, name, i>>}],
                     n, NewNode(name, i)), p, n), n>>

(* fd_from_node, and the vfs_node_unref that follows in syscall_fd_open    *)
FromNode(s, n, temporary) ==
    Unref([Ref(s, n) EXCEPT !.node[n].temporary = @ \/ temporary], n)

-----------------------------------------------------------------------------
Init ==
    /\ sys = [node |-> [n \in {Root} |-> [NewNode("", 1) EXCEPT !.rc = RootRefs]],
              entries |-> Entries, inodes |-> {1} \union {e[3] : e \in Entries},
              counted |-> {1} \union {e[3] : e \in Entries}, orphans |-> {}, panicked |-> FALSE]
    /\ fd = [f \in Fds |-> Nobody]
    /\ lost = {} /\ creates = 0

Closed(f) == fd[f] = Nobody /\ \A g \in Fds : g < f => fd[g] # Nobody
\* Bound on the nodes in memory.
Room == Cardinality(Live(sys) \ {Root}) + 2 <= Cardinality(NodeIds)

(* syscall_fd_open without FD_FLAG_CREATE                                  *)
Open(f, path, temporary) ==
    LET r == Walk(sys, path)
    IN  /\ ~sys.panicked /\ Closed(f) /\ Room
        /\ IF r.node = Nobody
           THEN sys' = r.sys /\ UNCHANGED fd
           ELSE sys' = FromNode(r.sys, r.node, temporary) /\ fd' = [fd EXCEPT ![f] = r.node]
        /\ UNCHANGED <<lost, creates>>

(* syscall_fd_open with it: the parent, which was returned without a       *)
(* reference, loses one at line 213, also if there is no inode left for    *)
(* the file (others, which are not modelled, have them); a node that       *)
(* exists already and was asked for exclusively is forgotten.              *)
OpenCreate(f, path, exclusive) ==
    LET r == Walk(sys, path)
        c == Create(r.sys, r.parent, path[Len(path)])
    IN  /\ ~sys.panicked /\ Closed(f) /\ Room
        /\ IF r.node = Nobody /\ r.parent # Nobody
           THEN /\ creates < MaxCreates /\ creates' = creates + 1
                /\ \/ /\ sys' = FromNode(Unref(c[1], r.parent), c[2], FALSE)
                      /\ fd' = [fd EXCEPT ![f] = c[2]]
                   \/ /\ sys' = Unref(r.sys, r.parent)
                      /\ UNCHANGED fd
                /\ UNCHANGED lost
           ELSE IF r.node = Nobody THEN sys' = r.sys /\ UNCHANGED <<fd, lost, creates>>
           ELSE IF exclusive
           THEN /\ r.node \notin lost /\ lost' = lost \union {r.node}
                /\ sys' = r.sys /\ UNCHANGED <<fd, creates>>
           ELSE /\ sys' = FromNode(r.sys, r.node, FALSE)
                /\ fd' = [fd EXCEPT ![f] = r.node]
                /\ UNCHANGED <<lost, creates>>

(* syscall_fd_close, _fd_handle_destructor; syscall_fd_iter_stop, or the   *)
(* last syscall_fd_iter_next, and _fd_iterator_handle_destructor           *)
Close(f) ==
    /\ ~sys.panicked /\ fd[f] # Nobody
    /\ sys' = Unref(sys, fd[f])
    /\ fd' = [fd EXCEPT ![f] = Nobody]
    /\ UNCHANGED <<lost, creates>>

(* syscall_fd_dup and fd_get_node; syscall_fd_iter_start, whose iterator   *)
(* holds the directory in the same way                                     *)
Dup(f, g) ==
    /\ ~sys.panicked /\ fd[f] # Nobody /\ Closed(g)
    /\ sys' = Ref(sys, fd[f])
    /\ fd' = [fd EXCEPT ![g] = fd[f]]
    /\ UNCHANGED <<lost, creates>>

(* Faulty variant: the node stays in its parent's list.                    *)
UnlinkAttached(f) ==
    LET n == fd[f]
    IN  /\ ~sys.panicked /\ n # Nobody /\ sys.node[n].parent # Nobody
        /\ sys' = [sys EXCEPT !.entries = {e \in @ : e[3] # sys.node[n].inode},
                               !.counted = @ \ {sys.node[n].inode}]
        /\ UNCHANGED <<fd, lost, creates>>

(* syscall_fd_unlink, vfs_node_unlink and _kfs2_unlink; nothing asks if a  *)
(* directory is empty                                                      *)
Unlink(f) ==
    LET n == fd[f]
        i == sys.node[n].inode
        orphans == IF Below(sys, i) = {} THEN {} ELSE {i} \union Below(sys, i)
        entries == Entry(sys, sys.node[sys.node[n].parent].inode, sys.node[n].name)
    IN  /\ ~sys.panicked /\ n # Nobody /\ sys.node[n].parent # Nobody
        /\ \E e \in entries : e[3] = i
        /\ sys' = Detach([sys EXCEPT !.entries = @ \ entries, !.counted = @ \ {i},
                                      !.orphans = @ \union orphans], n)
        /\ UNCHANGED <<fd, lost, creates>>

Next ==
    \E f \in Fds :
        \/ \E path \in Paths : Open(f, path, FALSE)
        \/ \E path \in Temporary : Open(f, path, TRUE)
        \/ \E path \in Creatable, exclusive \in BOOLEAN : OpenCreate(f, path, exclusive)
        \/ Close(f) \/ Unlink(f)
        \/ \E g \in Fds : Dup(f, g)

Spec == Init /\ [][Next]_vars

-----------------------------------------------------------------------------
(* The node of an open descriptor and its inode exist, whoever unlinks,    *)
(* closes or opens what else, in whatever order.                           *)
HeldIsAlive ==
    \A f \in Fds : fd[f] # Nobody =>
        fd[f] \in Live(sys) /\ sys.node[fd[f]].inode \in sys.inodes

(* vfs_node_delete never meets a node that has children (node.c:127).      *)
NoPanic == ~sys.panicked

(* What nobody can reach any more is freed: a node that is in no directory *)
(* is held by a descriptor, or fd_open forgot its reference, and an inode  *)
(* has an entry or a node.  That is not so for a directory that is         *)
(* unlinked with entries in it, and for what is below it.                  *)
NoLeak ==
    /\ \A n \in Live(sys) \ {Root} :
          \/ sys.node[n].parent # Nobody \/ sys.node[n].inode \in sys.orphans
          \/ n \in lost \/ \E f \in Fds : fd[f] = n
    /\ \A i \in sys.inodes \ sys.orphans :
          HasEntry(sys, i) \/ \E n \in Live(sys) : sys.node[n].inode = i

(* The cached nodes agree with the disk: a directory holds one node for a  *)
(* name, which is the entry's, and no node of an entry that is gone.       *)
CacheAgrees ==
    \A n \in Live(sys) : LET p == sys.node[n].parent IN p # Nobody =>
        /\ p \in Live(sys) /\ Len(SelectSeq(sys.node[p].children, LAMBDA c : c = n)) = 1
        /\ Entry(sys, sys.node[p].inode, sys.node[n].name)
              = {<<sys.node[p].inode, sys.node[n].name, sys.node[n].inode>>}
        /\ \A m \in Live(sys) \ {n} : sys.node[m].parent = p => sys.node[m].name # sys.node[n].name
=============================================================================
