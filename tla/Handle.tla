------------------------------- MODULE Handle -------------------------------
(***************************************************************************)
(* Reference-counted handles of one type (kernel/handle/handle.c and the   *)
(* inline functions of handle.h): the count of an object, the tree under   *)
(* which the type's objects are found, and the destructor.                 *)
(*                                                                         *)
(* The count is an atomic variable outside any lock; the tree is protected *)
(* by the descriptor's lock.  A section of that lock that is not nested in *)
(* another one is one step, taken when no reader is inside the lock;       *)
(* handle_iter_next keeps the read side over several steps.  Each user     *)
(* (a thread) works with one object at a time.                             *)
(***************************************************************************)
EXTENDS Integers, FiniteSets

CONSTANTS
    Users,
    Finders,       \* the users that find objects by their identifier
    Iterators,     \* the users that walk over all objects of the type
    Destroyers,    \* the users that call handle_destroy
    Quiet,         \* assumption: see Undisturbed
    MaxObjects,    \* bound on handle_descriptor->count
    None

ASSUME HandleAssumption ==
    /\ IsFiniteSet(Users)
    /\ MaxObjects \in Nat
    /\ None \notin Nat
    /\ Quiet \in BOOLEAN

VARIABLES
    rc,          \* handle->rc
    tree,        \* handle_descriptor->tree: the objects that can be found
    count,       \* handle_descriptor->count: identifiers given so far
    active,      \* handle_descriptor->active_count
    readers,     \* the users inside the read side of handle_descriptor->lock
    destroyed,   \* how many times the destructor has run on an object
    pc, obj      \* where each user stands, and the object it works with

vars == <<rc, tree, count, active, readers, destroyed, pc, obj>>

Objects == 0 .. MaxObjects - 1

Locations == {"idle", "held", "iterating", "test", "check", "remove", "callback",
              "move", "wait", "zero"}

Goto(u, l) == pc' = [pc EXCEPT ![u] = l]

Take(u, o, l) ==
    /\ rc' = [rc EXCEPT ![o] = @ + 1]
    /\ obj' = [obj EXCEPT ![u] = o]
    /\ Goto(u, l)

Forget(u) ==
    /\ obj' = [obj EXCEPT ![u] = None]
    /\ Goto(u, "idle")

\* The callers of handle_destroy rely on nobody looking for objects meanwhile:
\* a lookup between the owner's last look at the count and the removal would
\* return an object that is being destroyed.  With Quiet = TRUE this is assumed.
Undisturbed == Quiet => \A u \in Users : pc[u] \notin {"wait", "zero"}
NoIteration == Quiet => readers = {} /\ \A u \in Users : pc[u] # "iterating"

-----------------------------------------------------------------------------
(* handle_alloc *)
Init ==
    /\ rc = [o \in Objects |-> 0]
    /\ tree = {}
    /\ count = 0
    /\ active = 0
    /\ readers = {}
    /\ destroyed = [o \in Objects |-> 0]
    /\ pc = [u \in Users |-> "idle"]
    /\ obj = [u \in Users |-> None]

(* handle_new: the creator has the first reference. *)
New(u) ==
    /\ pc[u] = "idle"
    /\ count < MaxObjects
    /\ readers = {}
    /\ Take(u, count, "held")
    /\ tree' = tree \cup {count}
    /\ count' = count + 1
    /\ active' = active + 1
    /\ UNCHANGED <<readers, destroyed>>

(* handle_lookup_and_acquire, for an object that is found. *)
Lookup(u) ==
    /\ pc[u] = "idle"
    /\ u \in Finders
    /\ Undisturbed
    /\ \E o \in tree : Take(u, o, "held")
    /\ UNCHANGED <<tree, count, active, readers, destroyed>>

(* handle_acquire: a user with a reference makes one for somebody else. *)
Acquire(u) ==
    /\ pc[u] = "held"
    /\ \E v \in Users :
          /\ pc[v] = "idle"
          /\ Take(v, obj[u], "held")
    /\ UNCHANGED <<tree, count, active, readers, destroyed>>

-----------------------------------------------------------------------------
(* handle_release: the count is decremented and read again, by two atomic   *)
(* operations; _handle_delete_internal reads it twice more.                 *)
Release(u) ==
    /\ pc[u] = "held"
    /\ rc' = [rc EXCEPT ![obj[u]] = @ - 1]
    /\ Goto(u, "test")
    /\ UNCHANGED <<tree, count, active, readers, destroyed, obj>>

\* handle_release and _handle_delete_internal return: to handle_iter_next when
\* it is the caller.
Return(u) == IF u \in readers THEN Goto(u, "move") /\ UNCHANGED obj ELSE Forget(u)

\* Faulty variant: a count of 1 is taken for the last one.
TestOne(u) ==
    /\ pc[u] = "test"
    /\ IF rc[obj[u]] = 1 THEN Goto(u, "check") /\ UNCHANGED obj ELSE Return(u)
    /\ UNCHANGED <<rc, tree, count, active, readers, destroyed>>

Test(u) ==
    /\ pc[u] = "test"
    /\ IF rc[obj[u]] = 0 THEN Goto(u, "check") /\ UNCHANGED obj ELSE Return(u)
    /\ UNCHANGED <<rc, tree, count, active, readers, destroyed>>

Check(u) ==
    /\ pc[u] = "check"
    /\ IF rc[obj[u]] = 0 THEN Goto(u, "remove") /\ UNCHANGED obj ELSE Return(u)
    /\ UNCHANGED <<rc, tree, count, active, readers, destroyed>>

\* Faulty variant: the count is not read again under the lock.
RemoveUnchecked(u) ==
    /\ pc[u] = "remove"
    /\ readers = {}
    /\ tree' = tree \ {obj[u]}
    /\ Goto(u, "callback")
    /\ UNCHANGED <<rc, count, active, readers, destroyed, obj>>

Remove(u) ==
    /\ pc[u] = "remove"
    /\ readers = {}
    /\ IF rc[obj[u]] = 0
       THEN tree' = tree \ {obj[u]} /\ Goto(u, "callback") /\ UNCHANGED obj
       ELSE Return(u) /\ UNCHANGED tree
    /\ UNCHANGED <<rc, count, active, readers, destroyed>>

Callback(u) ==
    /\ pc[u] = "callback"
    /\ active' = active - 1
    /\ destroyed' = [destroyed EXCEPT ![obj[u]] = @ + 1]
    /\ Forget(u)
    /\ UNCHANGED <<rc, tree, count, readers>>

(* handle_destroy: the owner waits until its reference is the only one, and *)
(* then, in a second step, sets the count to 0.                             *)
Destroy(u) ==
    /\ pc[u] = "held"
    /\ u \in Destroyers
    /\ NoIteration
    /\ Goto(u, "wait")
    /\ UNCHANGED <<rc, tree, count, active, readers, destroyed, obj>>

\* Faulty variant: the other references are not waited for.
WaitAloneNot(u) ==
    /\ pc[u] = "wait"
    /\ Goto(u, "zero")
    /\ UNCHANGED <<rc, tree, count, active, readers, destroyed, obj>>

WaitAlone(u) ==
    /\ pc[u] = "wait"
    /\ rc[obj[u]] \in {0, 1}
    /\ Goto(u, "zero")
    /\ UNCHANGED <<rc, tree, count, active, readers, destroyed, obj>>

Zero(u) ==
    /\ pc[u] = "zero"
    /\ rc' = [rc EXCEPT ![obj[u]] = 0]
    /\ Goto(u, "check")
    /\ UNCHANGED <<tree, count, active, readers, destroyed, obj>>

-----------------------------------------------------------------------------
(* HANDLE_FOREACH: handle_iter_start, the loop's body (location             *)
(* "iterating") and handle_iter_next, which releases the object it comes    *)
(* from with the descriptor's lock held for reading.                        *)
IsFirst(o, S) == \A p \in S : o <= p

IterStart(u) ==
    /\ pc[u] = "idle"
    /\ u \in Iterators
    /\ Undisturbed
    /\ \E o \in tree : IsFirst(o, tree) /\ Take(u, o, "iterating")
    /\ UNCHANGED <<tree, count, active, readers, destroyed>>

IterNext(u) ==
    /\ pc[u] = "iterating"
    /\ readers' = readers \cup {u}
    /\ rc' = [rc EXCEPT ![obj[u]] = @ - 1]
    /\ Goto(u, "test")
    /\ UNCHANGED <<tree, count, active, destroyed, obj>>

IterMove(u) ==
    LET later == {o \in tree : o > obj[u]} IN
    /\ pc[u] = "move"
    /\ readers' = readers \ {u}
    /\ \/ \E o \in later : IsFirst(o, later) /\ Take(u, o, "iterating")
       \/ later = {} /\ Forget(u) /\ UNCHANGED rc
    /\ UNCHANGED <<tree, count, active, destroyed>>

-----------------------------------------------------------------------------
Next ==
    \E u \in Users :
        \/ New(u) \/ Lookup(u) \/ Acquire(u)
        \/ Release(u) \/ Test(u) \/ Check(u) \/ Remove(u) \/ Callback(u)
        \/ Destroy(u) \/ WaitAlone(u) \/ Zero(u)
        \/ IterStart(u) \/ IterNext(u) \/ IterMove(u)

Spec == Init /\ [][Next]_vars

-----------------------------------------------------------------------------
Holds(u, o) == pc[u] \in {"held", "iterating", "wait", "zero"} /\ obj[u] = o
Holders(o) == {u \in Users : Holds(u, o)}
Releasing(o) == {u \in Users : obj[u] = o /\ ~Holds(u, o)}

(* Types of the variables; the count, a 64-bit atomic in the code, never     *)
(* goes below 0.                                                            *)
TypeOK ==
    /\ rc \in [Objects -> Nat]
    /\ tree \subseteq Objects
    /\ count \in 0 .. MaxObjects
    /\ active \in Int
    /\ readers \subseteq Users
    /\ destroyed \in [Objects -> Nat]
    /\ pc \in [Users -> Locations]
    /\ obj \in [Users -> Objects \cup {None}]

(* An object is not destroyed while somebody has a reference to it, and it  *)
(* can still be found: a lookup that comes between the release of the last  *)
(* reference and its removal rescues the object.                            *)
HeldIsAlive ==
    \A u \in Users, o \in Objects : Holds(u, o) => o \in tree /\ destroyed[o] = 0

(* No object is leaked: once the last reference is gone and every release   *)
(* of it has returned, the object has left the tree and its destructor has  *)
(* run, whatever the order in which the releases saw the count.             *)
NoLeak ==
    \A o \in 0 .. count - 1 :
        Holders(o) \cup Releasing(o) = {} => o \notin tree /\ destroyed[o] > 0

(* The lock profiler reports a thread that acquires a lock it already       *)
(* holds; no user waits for the write side of the descriptor's lock while   *)
(* it is inside the read side.                                              *)
NoSelfDeadlock ==
    \A u \in Users : pc[u] = "remove" => u \notin readers

-----------------------------------------------------------------------------
(* The invariant behind HeldIsAlive, inductive when handle_destroy is not    *)
(* disturbed: the count is the number of references, an object outside the  *)
(* tree has none, only such an object is destroyed, and an owner that is    *)
(* about to overwrite the count has the last reference.                     *)
CountIsExact ==
    /\ \A o \in Objects : rc[o] = Cardinality(Holders(o))
    /\ \A o \in Objects : o \notin tree => rc[o] = 0
    /\ tree \subseteq 0 .. count - 1
    /\ \A u \in Users : pc[u] = "callback" => obj[u] \notin tree
    /\ \A o \in Objects : destroyed[o] > 0 => o \notin tree /\ o < count
    /\ \A u \in Users : pc[u] = "idle" <=> obj[u] = None
    /\ \A u \in Users : obj[u] # None => obj[u] < count
    /\ \A u \in Users : pc[u] = "move" => u \in readers
    /\ \A u \in Users : pc[u] \in {"wait", "zero"} => u \in Destroyers /\ NoIteration
    /\ \A u \in Users : pc[u] = "zero" => rc[obj[u]] = 1

=============================================================================
