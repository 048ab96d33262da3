---------------------------------- MODULE Acl -------------------------------
(***************************************************************************)
(* An access control list (kernel/acl/acl.c): permissions by process in a  *)
(* tree, in front of it a cache that several processes share, and the      *)
(* system calls that read, grant and request permissions of an object.     *)
(* Every call on the list is one step under its lock; the system call that *)
(* grants reads the caller's own permissions in a call of its own.         *)
(***************************************************************************)
EXTENDS Integers, FiniteSets, TLAPS

CONSTANTS
    Processes,      \* indices of process handles; 0 is the kernel process
    Root,           \* processes with ID_FLAG_ROOT_ACL
    Permissions,    \* bits of ACL_PERMISSION_MASK
    CacheSize       \* ACL_PROCESS_CACHE_SIZE

VARIABLES
    tree,       \* the permissions of every process with a node in acl->tree
    cache,      \* acl->cache: pairs of a key, 0 when empty, and flags
    call,       \* every process's syscall_acl_set_permissions in progress
    granted     \* history: what the creator had and what root or a user allowed

vars == <<tree, cache, call, granted>>

Callers == Processes \ {0}
NoCall == [pc |-> "idle", target |-> 0, clear |-> {}, set |-> {}]

(* acl_create, and the acl_set with which every creator gets permissions   *)
Init ==
    /\ tree = <<>> /\ granted = {}
    /\ cache = [i \in 0..CacheSize - 1 |-> [key |-> 0, flags |-> {}]]
    /\ call = [p \in Callers |-> NoCall]

SlotOf(key) == key % CacheSize
InTree(key) == key \in DOMAIN tree

(* acl_get: the value, and what it leaves in the cache                     *)
Value(key) ==
    IF key = 0 THEN Permissions
    ELSE IF cache[SlotOf(key)].key = key THEN cache[SlotOf(key)].flags
    ELSE IF InTree(key) THEN tree[key] ELSE {}

Cached(key) ==
    IF cache[SlotOf(key)].key # key /\ InTree(key)
    THEN [cache EXCEPT ![SlotOf(key)] = [key |-> key, flags |-> tree[key]]]
    ELSE cache

(* acl_set: a node without permissions is removed, and the cache follows   *)
NewFlags(key, clear, set) == IF InTree(key) THEN (tree[key] \ clear) \union set ELSE set
Without(f, key) == [k \in DOMAIN f \ {key} |-> f[k]]
With(f, key, v) == [k \in DOMAIN f \union {key} |-> IF k = key THEN v ELSE f[k]]

(* Faulty variant: an entry survives the removal of its node.              *)
CacheAfterSetKept(key, flags) ==
    IF flags # {} /\ cache[SlotOf(key)].key \in {0, key}
    THEN [cache EXCEPT ![SlotOf(key)] = [key |-> key, flags |-> flags]]
    ELSE cache

CacheAfterSet(key, flags) ==
    LET entry == cache[SlotOf(key)]
    IN  IF flags # {} /\ entry.key \in {0, key}
        THEN [cache EXCEPT ![SlotOf(key)] = [key |-> key, flags |-> flags]]
        ELSE IF flags = {} /\ entry.key = key
        THEN [cache EXCEPT ![SlotOf(key)].key = 0]
        ELSE cache

acl_set(key, clear, set) ==
    IF key = 0 THEN UNCHANGED <<tree, cache>>
    ELSE LET flags == NewFlags(key, clear, set)
         IN  /\ tree' = IF flags = {} THEN Without(tree, key) ELSE With(tree, key, flags)
             /\ cache' = CacheAfterSet(key, flags)

-----------------------------------------------------------------------------
(* The creator of the object *)
Create(p, flags) ==
    /\ granted = {} /\ flags # {}
    /\ acl_set(p, {}, flags) /\ granted' = flags
    /\ UNCHANGED call

(* syscall_acl_get_permissions, and acl_get wherever a right is checked    *)
Get(p) ==
    /\ cache' = Cached(p)
    /\ UNCHANGED <<tree, call, granted>>

(* Faulty variant: the flags are not limited to the caller's.              *)
SetBeginUnlimited(p, target, clear, set) ==
    /\ call[p].pc = "idle"
    /\ call' = [call EXCEPT ![p] =
                  [pc |-> "set", target |-> target, clear |-> clear, set |-> set]]
    /\ granted' = IF p \in Root THEN granted \union set ELSE granted
    /\ UNCHANGED <<tree, cache>>

(* syscall_acl_set_permissions: without root's flag only permissions that  *)
(* the caller has now ...                                                  *)
SetBegin(p, target, clear, set) ==
    /\ call[p].pc = "idle"
    /\ call' = [call EXCEPT ![p] =
                  [pc |-> "set", target |-> target, clear |-> clear,
                   set |-> IF p \in Root THEN set ELSE set \intersect Value(p)]]
    /\ cache' = IF p \in Root THEN cache ELSE Cached(p)
    /\ granted' = IF p \in Root THEN granted \union set ELSE granted
    /\ UNCHANGED tree

(* ... are given to the target, in a second call on the list               *)
SetEnd(p) ==
    /\ call[p].pc = "set"
    /\ acl_set(call[p].target, call[p].clear, call[p].set)
    /\ call' = [call EXCEPT ![p] = NoCall]
    /\ UNCHANGED granted

(* syscall_acl_request_permissions, when the callback allows it            *)
Request(p, flags) ==
    /\ acl_set(p, {}, flags) /\ granted' = granted \union flags
    /\ UNCHANGED call

(* To clear what is also set comes to setting it or, if the caller may    *)
(* not, to clearing it.                                                    *)
Sets == SUBSET Permissions

Next ==
    \E p \in Callers :
        \/ \E f \in Sets : Create(p, f) \/ Request(p, f)
        \/ Get(p) \/ SetEnd(p)
        \/ \E target \in Processes, set \in Sets : \E clear \in SUBSET (Permissions \ set) :
              SetBegin(p, target, clear, set)

Spec == Init /\ [][Next]_vars

-----------------------------------------------------------------------------
(* The cache, of which several processes share an entry, never answers     *)
(* anything but what the tree holds, also after permissions were taken     *)
(* away or a node was removed.                                             *)
CacheAgrees ==
    \A i \in DOMAIN cache : cache[i].key # 0 =>
        /\ SlotOf(cache[i].key) = i
        /\ InTree(cache[i].key) /\ cache[i].flags = tree[cache[i].key]

(* A permission that neither the creator nor root nor a user's consent     *)
(* brought into being is held by nobody, although the caller's own         *)
(* permissions are read in one call and passed on in another.              *)
NoPermissionFromNothing ==
    /\ UNION {tree[k] : k \in DOMAIN tree} \subseteq granted
    /\ \A k \in DOMAIN tree : tree[k] # {}

-----------------------------------------------------------------------------
(***************************************************************************)
(* Proofs, for any processes, permissions and size of the cache: the cache *)
(* answers what the tree holds, and no permission is held that nobody      *)
(* brought into being.                                                     *)
(***************************************************************************)
Slots == 0 .. CacheSize - 1

\* What acl.h says of the constants: 0 is the kernel's index.
Sized == CacheSize \in Nat \ {0} /\ Processes \subseteq Nat /\ 0 \in Processes

TypeOK ==
    /\ DOMAIN tree \subseteq Callers
    /\ \A k \in DOMAIN tree : tree[k] \in Sets
    /\ cache \in [Slots -> [key : Processes, flags : Sets]]
    /\ call \in [Callers -> [pc : {"idle", "set"}, target : Processes, clear : Sets, set : Sets]]
    /\ granted \in Sets

\* Permissions that a call has found its caller to have are under way.
PassedOnIsGranted == \A p \in Callers : call[p].pc = "set" => call[p].set \subseteq granted
HeldIsGranted == \A k \in DOMAIN tree : tree[k] # {} /\ tree[k] \subseteq granted

IInv == TypeOK /\ CacheAgrees /\ PassedOnIsGranted /\ HeldIsGranted

-----------------------------------------------------------------------------
(* Every index has a slot of the cache (acl.c, the remainder that both     *)
(* functions compute).                                                     *)
LEMMA SlotInCache ==
    ASSUME Sized, NEW key \in Processes PROVE SlotOf(key) \in Slots
<1>1. \A k \in Nat, n \in Nat \ {0} : k % n \in 0 .. n - 1
  OBVIOUS
<1> QED BY <1>1 DEF Sized, SlotOf, Slots

(* acl_get leaves the cache in agreement with the tree.                    *)
LEMMA CachedAgrees ==
    ASSUME Sized, TypeOK, CacheAgrees, NEW p \in Callers,
           tree' = tree, cache' = Cached(p)
    PROVE  /\ CacheAgrees'
           /\ cache' \in [Slots -> [key : Processes, flags : Sets]]
<1> DEFINE s == SlotOf(p)
<1>1. s \in Slots /\ p \in Processes /\ p # 0
  BY SlotInCache DEF Callers
<1>2. CASE cache[s].key # p /\ InTree(p)
  <2>1. cache' = [cache EXCEPT ![s] = [key |-> p, flags |-> tree[p]]]
    BY <1>2 DEF Cached
  <2>2. tree[p] \in Sets
    BY <1>2 DEF TypeOK, InTree
  <2>3. cache' \in [Slots -> [key : Processes, flags : Sets]]
    BY <1>1, <2>1, <2>2 DEF TypeOK
  <2>4. ASSUME NEW i \in DOMAIN cache', cache'[i].key # 0
        PROVE  SlotOf(cache'[i].key) = i /\ InTree(cache'[i].key) /\ cache'[i].flags = tree[cache'[i].key]
    <3>1. i \in Slots /\ DOMAIN cache = Slots
      BY <2>3, <2>4 DEF TypeOK
    <3>2. CASE i = s
      BY <1>1, <1>2, <2>1, <3>1, <3>2 DEF TypeOK
    <3>3. CASE i # s
      <4>1. cache'[i] = cache[i]
        BY <2>1, <3>1, <3>3 DEF TypeOK
      <4> QED BY <2>4, <3>1, <4>1 DEF CacheAgrees
    <3> QED BY <3>2, <3>3
  <2> QED BY <2>3, <2>4 DEF CacheAgrees, InTree, SlotOf
<1>3. CASE ~(cache[s].key # p /\ InTree(p))
  <2>1. cache' = cache
    BY <1>3 DEF Cached
  <2> QED BY <2>1 DEF TypeOK, CacheAgrees, InTree, SlotOf
<1> QED BY <1>2, <1>3

(* What acl_get answers is what the tree holds.                            *)
LEMMA ValueIsOfTree ==
    ASSUME Sized, TypeOK, CacheAgrees, NEW p \in Callers
    PROVE  Value(p) = IF InTree(p) THEN tree[p] ELSE {}
<1>1. SlotOf(p) \in DOMAIN cache /\ p # 0
  BY SlotInCache DEF Callers, TypeOK
<1> QED BY <1>1 DEF Value, CacheAgrees

(* acl_set keeps the cache in agreement with the tree, and the tree within *)
(* what has been granted.                                                  *)
LEMMA AclSetKeeps ==
    ASSUME Sized, TypeOK, CacheAgrees, HeldIsGranted, NEW key \in Processes,
           NEW clear \in Sets, NEW set \in Sets, acl_set(key, clear, set),
           granted' \in Sets, granted \subseteq granted', set \subseteq granted'
    PROVE  /\ CacheAgrees' /\ HeldIsGranted'
           /\ DOMAIN tree' \subseteq Callers
           /\ \A k \in DOMAIN tree' : tree'[k] \in Sets
           /\ cache' \in [Slots -> [key : Processes, flags : Sets]]
<1>1. CASE key = 0
  BY <1>1 DEF acl_set, CacheAgrees, HeldIsGranted, TypeOK, InTree, SlotOf
<1>2. CASE key # 0
  <2> DEFINE f == NewFlags(key, clear, set)
             s == SlotOf(key)
  <2>1. s \in Slots /\ key \in Callers
    BY <1>2, SlotInCache DEF Callers
  <2>2. f \in Sets /\ f \subseteq granted'
    BY DEF NewFlags, Sets, InTree, TypeOK, HeldIsGranted
  <2>3. /\ tree' = IF f = {} THEN Without(tree, key) ELSE With(tree, key, f)
        /\ cache' = CacheAfterSet(key, f)
    BY <1>2 DEF acl_set
  <2>4. /\ DOMAIN tree' = IF f = {} THEN DOMAIN tree \ {key} ELSE DOMAIN tree \union {key}
        /\ \A k \in DOMAIN tree' : tree'[k] = IF k = key THEN f ELSE tree[k]
    BY <2>3 DEF With, Without
  <2> HIDE DEF f
  <2>5. /\ DOMAIN tree' \subseteq Callers
        /\ \A k \in DOMAIN tree' : tree'[k] \in Sets
    BY <2>1, <2>2, <2>4 DEF TypeOK
  <2>6. HeldIsGranted'
    BY <2>2, <2>4 DEF HeldIsGranted
  <2>7. CASE f # {} /\ cache[s].key \in {0, key}
    <3>1. cache' = [cache EXCEPT ![s] = [key |-> key, flags |-> f]]
      BY <2>3, <2>7 DEF CacheAfterSet
    <3>2. cache' \in [Slots -> [key : Processes, flags : Sets]]
      BY <2>1, <2>2, <3>1 DEF TypeOK
    <3>3. ASSUME NEW i \in DOMAIN cache', cache'[i].key # 0
          PROVE  SlotOf(cache'[i].key) = i /\ cache'[i].key \in DOMAIN tree'
                 /\ cache'[i].flags = tree'[cache'[i].key]
      <4>1. i \in Slots /\ DOMAIN cache = Slots
        BY <3>2, <3>3 DEF TypeOK
      <4>2. CASE i = s
        BY <2>1, <2>4, <2>7, <3>1, <4>1, <4>2 DEF TypeOK
      <4>3. CASE i # s
        <5>1. cache'[i] = cache[i]
          BY <3>1, <4>1, <4>3 DEF TypeOK
        <5>2. SlotOf(cache[i].key) = i /\ cache[i].key \in DOMAIN tree
              /\ cache[i].flags = tree[cache[i].key]
          BY <3>3, <4>1, <5>1 DEF CacheAgrees, InTree
        <5>3. cache[i].key # key
          BY <4>3, <5>2
        <5> QED BY <2>4, <5>1, <5>2, <5>3
      <4> QED BY <4>2, <4>3
    <3> QED BY <2>5, <2>6, <3>2, <3>3 DEF CacheAgrees, InTree, SlotOf
  <2>8. CASE f = {} /\ cache[s].key = key
    <3>1. cache' = [cache EXCEPT ![s].key = 0]
      BY <1>2, <2>3, <2>8 DEF CacheAfterSet
    <3>2. cache' \in [Slots -> [key : Processes, flags : Sets]]
      BY <2>1, <3>1 DEF TypeOK, Sized
    <3>3. ASSUME NEW i \in DOMAIN cache', cache'[i].key # 0
          PROVE  SlotOf(cache'[i].key) = i /\ cache'[i].key \in DOMAIN tree'
                 /\ cache'[i].flags = tree'[cache'[i].key]
      <4>1. i \in Slots /\ DOMAIN cache = Slots
        BY <3>2, <3>3 DEF TypeOK
      <4>2. i # s
        BY <2>1, <3>1, <3>3, <4>1 DEF TypeOK
      <4>3. cache'[i] = cache[i]
        BY <3>1, <4>1, <4>2 DEF TypeOK
      <4>4. SlotOf(cache[i].key) = i /\ cache[i].key \in DOMAIN tree
            /\ cache[i].flags = tree[cache[i].key]
        BY <3>3, <4>1, <4>3 DEF CacheAgrees, InTree
      <4>5. cache[i].key # key
        BY <4>2, <4>4
      <4> QED BY <2>4, <4>3, <4>4, <4>5
    <3> QED BY <2>5, <2>6, <3>2, <3>3 DEF CacheAgrees, InTree, SlotOf
  <2>9. CASE ~(f # {} /\ cache[s].key \in {0, key}) /\ ~(f = {} /\ cache[s].key = key)
    <3>1. cache' = cache /\ cache[s].key # key
      BY <2>3, <2>9 DEF CacheAfterSet
    <3>2. ASSUME NEW i \in DOMAIN cache, cache[i].key # 0
          PROVE  SlotOf(cache[i].key) = i /\ cache[i].key \in DOMAIN tree'
                 /\ cache[i].flags = tree'[cache[i].key]
      <4>1. SlotOf(cache[i].key) = i /\ cache[i].key \in DOMAIN tree
            /\ cache[i].flags = tree[cache[i].key]
        BY <3>2 DEF CacheAgrees, InTree
      <4>2. cache[i].key # key
        BY <3>1, <4>1
      <4> QED BY <2>4, <4>1, <4>2
    <3> QED BY <2>5, <2>6, <3>1, <3>2 DEF CacheAgrees, InTree, SlotOf, TypeOK
  <2> QED BY <2>7, <2>8, <2>9
<1> QED BY <1>1, <1>2

-----------------------------------------------------------------------------
(* The list of a new object satisfies the invariant (acl_create).          *)
LEMMA Initially == ASSUME Sized, Init PROVE IInv
<1>1. tree = <<>> /\ DOMAIN tree = {} /\ granted = {}
  BY DEF Init
<1>2. cache \in [Slots -> [key : Processes, flags : Sets]]
      /\ \A i \in DOMAIN cache : cache[i].key = 0
  BY DEF Init, Slots, Sets, Sized
<1>3. NoCall \in [pc : {"idle", "set"}, target : Processes, clear : Sets, set : Sets]
  BY DEF NoCall, Sets, Sized
<1>4. call \in [Callers -> [pc : {"idle", "set"}, target : Processes, clear : Sets, set : Sets]]
      /\ \A p \in Callers : call[p].pc = "idle"
  BY <1>3 DEF Init, NoCall
<1>5. TypeOK
  BY <1>1, <1>2, <1>4 DEF TypeOK, Sets
<1> QED BY <1>1, <1>2, <1>4, <1>5 DEF IInv, CacheAgrees, PassedOnIsGranted, HeldIsGranted

(* Every call on the list preserves the invariant.                         *)
LEMMA Inductive == ASSUME Sized, IInv, [Next]_vars PROVE IInv'
<1> USE DEF IInv
<1>1. ASSUME NEW p \in Callers, NEW f \in Sets, Create(p, f) PROVE IInv'
  <2>1. acl_set(p, {}, f) /\ granted = {} /\ granted' = f /\ call' = call
    BY <1>1 DEF Create
  <2>2. p \in Processes /\ {} \in Sets
    BY DEF Callers, Sets
  <2>3. /\ CacheAgrees' /\ HeldIsGranted'
        /\ DOMAIN tree' \subseteq Callers
        /\ \A k \in DOMAIN tree' : tree'[k] \in Sets
        /\ cache' \in [Slots -> [key : Processes, flags : Sets]]
    BY <2>1, <2>2, AclSetKeeps
  <2>4. PassedOnIsGranted'
    BY <2>1 DEF PassedOnIsGranted
  <2> QED BY <2>1, <2>3, <2>4 DEF TypeOK
<1>2. ASSUME NEW p \in Callers, NEW f \in Sets, Request(p, f) PROVE IInv'
  <2>1. acl_set(p, {}, f) /\ granted' = granted \union f /\ call' = call
    BY <1>2 DEF Request
  <2>2. p \in Processes /\ {} \in Sets /\ granted' \in Sets
    BY <2>1 DEF Callers, Sets, TypeOK
  <2>3. /\ CacheAgrees' /\ HeldIsGranted'
        /\ DOMAIN tree' \subseteq Callers
        /\ \A k \in DOMAIN tree' : tree'[k] \in Sets
        /\ cache' \in [Slots -> [key : Processes, flags : Sets]]
    BY <2>1, <2>2, AclSetKeeps
  <2>4. PassedOnIsGranted'
    BY <2>1 DEF PassedOnIsGranted
  <2> QED BY <2>1, <2>2, <2>3, <2>4 DEF TypeOK
<1>3. ASSUME NEW p \in Callers, Get(p) PROVE IInv'
  <2>1. cache' = Cached(p) /\ tree' = tree /\ call' = call /\ granted' = granted
    BY <1>3 DEF Get
  <2>2. CacheAgrees' /\ cache' \in [Slots -> [key : Processes, flags : Sets]]
    BY <2>1, CachedAgrees
  <2> QED BY <2>1, <2>2 DEF TypeOK, PassedOnIsGranted, HeldIsGranted
<1>4. ASSUME NEW p \in Callers, SetEnd(p) PROVE IInv'
  <2>1. /\ call[p].pc = "set" /\ acl_set(call[p].target, call[p].clear, call[p].set)
        /\ call' = [call EXCEPT ![p] = NoCall] /\ granted' = granted
    BY <1>4 DEF SetEnd
  <2>2. /\ call[p].target \in Processes /\ call[p].clear \in Sets /\ call[p].set \in Sets
        /\ call[p].set \subseteq granted /\ granted \in Sets
    BY <2>1 DEF TypeOK, PassedOnIsGranted
  <2>3. /\ CacheAgrees' /\ HeldIsGranted'
        /\ DOMAIN tree' \subseteq Callers
        /\ \A k \in DOMAIN tree' : tree'[k] \in Sets
        /\ cache' \in [Slots -> [key : Processes, flags : Sets]]
    BY <2>1, <2>2, AclSetKeeps
  <2>4. NoCall \in [pc : {"idle", "set"}, target : Processes, clear : Sets, set : Sets]
    BY DEF NoCall, Sets, Sized
  <2>5. PassedOnIsGranted'
    BY <2>1 DEF PassedOnIsGranted, TypeOK, NoCall
  <2> QED BY <2>1, <2>3, <2>4, <2>5 DEF TypeOK
<1>5. ASSUME NEW p \in Callers, NEW target \in Processes, NEW set \in Sets, NEW clear \in Sets,
             SetBegin(p, target, clear, set)
      PROVE  IInv'
  <2> DEFINE passed == IF p \in Root THEN set ELSE set \intersect Value(p)
  <2>1. /\ call' = [call EXCEPT ![p] = [pc |-> "set", target |-> target, clear |-> clear, set |-> passed]]
        /\ cache' = IF p \in Root THEN cache ELSE Cached(p)
        /\ granted' = IF p \in Root THEN granted \union set ELSE granted
        /\ tree' = tree
    BY <1>5 DEF SetBegin
  <2>2. Value(p) = IF InTree(p) THEN tree[p] ELSE {}
    BY ValueIsOfTree
  <2>3. passed \in Sets /\ passed \subseteq granted'
    BY <2>1, <2>2 DEF Sets, InTree, HeldIsGranted
  <2> HIDE DEF passed
  <2>4. granted' \in Sets /\ granted \subseteq granted'
    BY <2>1 DEF Sets, TypeOK
  <2>5. CacheAgrees' /\ cache' \in [Slots -> [key : Processes, flags : Sets]]
    <3>1. CASE p \in Root
      BY <2>1, <3>1 DEF CacheAgrees, InTree, SlotOf, TypeOK
    <3>2. CASE p \notin Root
      BY <2>1, <3>2, CachedAgrees
    <3> QED BY <3>1, <3>2
  <2>6. call' \in [Callers -> [pc : {"idle", "set"}, target : Processes, clear : Sets, set : Sets]]
    BY <2>1, <2>3 DEF TypeOK
  <2>7. PassedOnIsGranted'
    BY <2>1, <2>3, <2>4 DEF PassedOnIsGranted, TypeOK
  <2>8. HeldIsGranted'
    BY <2>1, <2>4 DEF HeldIsGranted
  <2> QED BY <2>1, <2>4, <2>5, <2>6, <2>7, <2>8 DEF TypeOK
<1>6. CASE UNCHANGED vars
  BY <1>6 DEF vars, TypeOK, CacheAgrees, PassedOnIsGranted, HeldIsGranted, InTree, SlotOf
<1>7. ASSUME NEW set \in Sets, NEW clear \in SUBSET (Permissions \ set) PROVE clear \in Sets
  BY DEF Sets
<1> QED BY <1>1, <1>2, <1>3, <1>4, <1>5, <1>6, <1>7 DEF Next

(* acl_get never answers from a stale entry: whatever is granted, taken    *)
(* away and looked up, the cache agrees with the tree, for any number of   *)
(* processes that share its entries.                                       *)
THEOREM CacheIsNeverStale == ASSUME Sized PROVE Spec => []CacheAgrees
<1>1. Init => IInv
  BY Initially
<1>2. IInv /\ [Next]_vars => IInv'
  BY Inductive
<1>3. IInv => CacheAgrees
  BY DEF IInv
<1> QED BY <1>1, <1>2, <1>3, PTL DEF Spec

(* Nobody holds a permission that neither the creator nor root nor a       *)
(* user's consent brought into being, although                             *)
(* syscall_acl_set_permissions reads its caller's permissions in one call  *)
(* and passes them on in another.                                          *)
THEOREM PermissionsAreGranted == ASSUME Sized PROVE Spec => []NoPermissionFromNothing
<1>1. Init => IInv
  BY Initially
<1>2. IInv /\ [Next]_vars => IInv'
  BY Inductive
<1>3. IInv => NoPermissionFromNothing
  BY DEF IInv, HeldIsGranted, NoPermissionFromNothing
<1> QED BY <1>1, <1>2, <1>3, PTL DEF Spec
=============================================================================
