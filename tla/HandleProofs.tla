---------------------------- MODULE HandleProofs ----------------------------
(***************************************************************************)
(* Proofs about Handle: for any number of users that look objects up, walk *)
(* over them, share, release and destroy them, in any interleaving of the  *)
(* decrements, tests and removals, the count is exact, an object that      *)
(* somebody holds is alive, and one that nobody holds is destroyed or on   *)
(* the way to it.  handle_destroy overwrites the count, so the theorems    *)
(* assume that it is not disturbed or not used (Orderly).                  *)
(***************************************************************************)
EXTENDS Handle, FiniteSetTheorems, TLAPS

Orderly == Quiet \/ Destroyers = {}

Inv == TypeOK /\ CountIsExact

HoldLocations == {"held", "iterating", "wait", "zero"}

(* The references to an object are finitely many. *)
LEMMA HoldersFinite ==
    \A o : IsFiniteSet(Holders(o)) /\ Cardinality(Holders(o)) \in Nat
<1>1. TAKE o
<1>2. Holders(o) \in SUBSET Users
  BY DEF Holders
<1>3. IsFiniteSet(Holders(o))
  BY <1>2, FS_Subset, HandleAssumption
<1> QED
  BY <1>3, FS_CardinalityType

(* A user that takes an object (handle_new, handle_acquire and the lookups) *)
(* adds one reference and one to the count.                                 *)
LEMMA GainHolder ==
    ASSUME Inv, NEW u \in Users, NEW o \in Objects, NEW l \in {"held", "iterating"},
           pc[u] \notin HoldLocations, Take(u, o, l)
    PROVE  /\ rc' \in [Objects -> Nat]
           /\ \A p \in Objects : rc'[p] = Cardinality(Holders(p)')
<1>1. /\ pc' = [pc EXCEPT ![u] = l]
      /\ obj' = [obj EXCEPT ![u] = o]
      /\ rc' = [rc EXCEPT ![o] = @ + 1]
      /\ pc \in [Users -> Locations] /\ obj \in [Users -> Objects \cup {None}]
      /\ rc \in [Objects -> Nat]
  BY DEF Take, Goto, Inv, TypeOK
<1>2. Holders(o)' = Holders(o) \cup {u}
  BY <1>1 DEF Holders, Holds, HoldLocations
<1>3. u \notin Holders(o)
  BY DEF Holders, Holds, HoldLocations
<1>4. Cardinality(Holders(o)') = Cardinality(Holders(o)) + 1
  BY <1>2, <1>3, HoldersFinite, FS_AddElement, Zenon
<1>5. ASSUME NEW p \in Objects, p # o PROVE Holders(p)' = Holders(p)
  BY <1>1, <1>5 DEF Holders, Holds, HoldLocations
<1>6. \A p \in Objects : rc[p] = Cardinality(Holders(p))
  BY DEF Inv, CountIsExact
<1> QED
  BY <1>1, <1>4, <1>5, <1>6

(* A user that begins to release an object takes one reference and one from *)
(* the count, which does not go below zero.                                 *)
LEMMA LoseHolder ==
    ASSUME Inv, NEW u \in Users, pc[u] \in HoldLocations, NEW l \in {"test", "check"},
           rc' = [rc EXCEPT ![obj[u]] = @ - 1], Goto(u, l), obj' = obj
    PROVE  /\ rc' \in [Objects -> Nat]
           /\ \A p \in Objects : rc'[p] = Cardinality(Holders(p)')
<1> DEFINE o == obj[u]
<1>1. /\ pc' = [pc EXCEPT ![u] = l]
      /\ pc \in [Users -> Locations] /\ obj \in [Users -> Objects \cup {None}]
      /\ rc \in [Objects -> Nat]
  BY DEF Goto, Inv, TypeOK
<1>2. o \in Objects
  BY <1>1 DEF Inv, CountIsExact, HoldLocations
<1>3. Holders(o)' = Holders(o) \ {u}
  BY <1>1 DEF Holders, Holds, HoldLocations
<1>4. u \in Holders(o)
  BY DEF Holders, Holds, HoldLocations
<1>5. Cardinality(Holders(o)') = Cardinality(Holders(o)) - 1
  BY <1>3, <1>4, HoldersFinite, FS_RemoveElement, Zenon
<1>6. ASSUME NEW p \in Objects, p # o PROVE Holders(p)' = Holders(p)
  BY <1>1, <1>6 DEF Holders, Holds
<1>7. \A p \in Objects : rc[p] = Cardinality(Holders(p))
  BY DEF Inv, CountIsExact
<1>8. Holders(o) # {}
  BY <1>4
<1>9. Cardinality(Holders(o)) > 0
  BY <1>8, HoldersFinite, FS_EmptySet
<1> QED
  BY <1>1, <1>2, <1>5, <1>6, <1>7, <1>9

(* A step that changes neither the counts nor who holds what. *)
LEMMA KeepHolders ==
    ASSUME Inv, rc' = rc, \A u \in Users, o \in Objects : Holds(u, o)' <=> Holds(u, o)
    PROVE  /\ rc' \in [Objects -> Nat]
           /\ \A p \in Objects : rc'[p] = Cardinality(Holders(p)')
<1>1. \A p \in Objects : Holders(p)' = Holders(p)
  BY DEF Holders
<1> QED
  BY <1>1 DEF Inv, TypeOK, CountIsExact

\* What is left of the invariant once the counts are dealt with.
RestOK ==
    /\ tree \subseteq Objects
    /\ count \in 0 .. MaxObjects
    /\ active \in Int
    /\ readers \subseteq Users
    /\ destroyed \in [Objects -> Nat]
    /\ pc \in [Users -> Locations]
    /\ obj \in [Users -> Objects \cup {None}]
    /\ \A o \in Objects : o \notin tree => rc[o] = 0
    /\ tree \subseteq 0 .. count - 1
    /\ \A u \in Users : pc[u] = "callback" => obj[u] \notin tree
    /\ \A o \in Objects : destroyed[o] > 0 => o \notin tree /\ o < count
    /\ \A u \in Users : pc[u] = "idle" <=> obj[u] = None
    /\ \A u \in Users : obj[u] # None => obj[u] < count
    /\ \A u \in Users : pc[u] = "move" => u \in readers

CountsOK ==
    /\ rc \in [Objects -> Nat]
    /\ \A o \in Objects : rc[o] = Cardinality(Holders(o))

DestroyOK ==
    /\ \A u \in Users : pc[u] \in {"wait", "zero"} => u \in Destroyers /\ NoIteration
    /\ \A u \in Users : pc[u] = "zero" => rc[obj[u]] = 1

LEMMA InvSplit == Inv <=> RestOK /\ CountsOK /\ DestroyOK
BY DEF Inv, TypeOK, CountIsExact, RestOK, CountsOK, DestroyOK

(* An object that some user holds has a count other than 0 and is in the tree. *)
LEMMA HeldInTree ==
    ASSUME Inv, NEW u \in Users, NEW o \in Objects, Holds(u, o)
    PROVE  rc[o] # 0 /\ o \in tree
<1>1. Holders(o) # {}
  BY DEF Holders
<1>2. Cardinality(Holders(o)) # 0
  BY <1>1, HoldersFinite, FS_EmptySet
<1> QED
  BY <1>2 DEF Inv, TypeOK, CountIsExact

(* While an owner is inside handle_destroy nobody walks over the objects. *)
LEMMA Calm ==
    ASSUME Orderly, Inv, NEW w \in Users, pc[w] \in {"wait", "zero"}
    PROVE  /\ Quiet
           /\ readers = {}
           /\ \A v \in Users : pc[v] \notin {"iterating", "move"}
<1>1. w \in Destroyers /\ NoIteration
  BY DEF Inv, CountIsExact
<1>2. Quiet
  BY <1>1 DEF Orderly
<1> QED
  BY <1>1, <1>2 DEF NoIteration, Inv, CountIsExact

(* An owner about to overwrite the count shares its object with nobody. *)
LEMMA OnlyHolder ==
    ASSUME Inv, NEW w \in Users, pc[w] = "zero", NEW v \in Users, Holds(v, obj[w])
    PROVE  v = w
<1>1. obj[w] \in Objects
  BY DEF Inv, TypeOK, CountIsExact
<1>2. Cardinality(Holders(obj[w])) = 1
  BY <1>1 DEF Inv, CountIsExact
<1>3. PICK x : Holders(obj[w]) = {x}
  BY <1>2, HoldersFinite, FS_Singleton, Zenon
<1>4. w \in Holders(obj[w]) /\ v \in Holders(obj[w])
  BY DEF Holders, Holds
<1> QED
  BY <1>3, <1>4

(* A step of a user that neither enters handle_destroy nor starts a walk,   *)
(* and that leaves alone the counts of the objects others are destroying.   *)
LEMMA KeepDestroy ==
    ASSUME Orderly, Inv, NEW u \in Users,
           \A v \in Users : v # u => pc'[v] = pc[v] /\ obj'[v] = obj[v],
           pc'[u] \notin {"wait", "zero", "iterating"},
           readers' = readers,
           \A w \in Users : w # u /\ pc[w] = "zero" => rc'[obj[w]] = rc[obj[w]]
    PROVE  DestroyOK'
<1>1. ASSUME NEW w \in Users, pc'[w] \in {"wait", "zero"}
      PROVE  w \in Destroyers /\ NoIteration'
  <2>1. w # u /\ pc[w] \in {"wait", "zero"}
    BY <1>1
  <2>2. readers = {} /\ \A v \in Users : pc[v] # "iterating"
    BY <2>1, Calm
  <2> QED
    BY <2>1, <2>2 DEF NoIteration, Inv, CountIsExact
<1>2. ASSUME NEW w \in Users, pc'[w] = "zero" PROVE rc'[obj'[w]] = 1
  BY <1>2 DEF Inv, CountIsExact
<1> QED
  BY <1>1, <1>2 DEF DestroyOK

(* A step of a user that does not enter handle_destroy, taken while nobody  *)
(* is inside it.                                                            *)
LEMMA NobodyDestroys ==
    ASSUME pc \in [Users -> Locations], NEW u \in Users, NEW l,
           l \notin {"wait", "zero"}, pc' = [pc EXCEPT ![u] = l],
           \A w \in Users : pc[w] \notin {"wait", "zero"}
    PROVE  DestroyOK'
<1>1. \A w \in Users : pc'[w] = IF w = u THEN l ELSE pc[w]
  OBVIOUS
<1>2. \A w \in Users : pc'[w] \notin {"wait", "zero"}
  BY <1>1
<1> QED
  BY <1>2 DEF DestroyOK

(* A user that takes an object of the tree and goes to hold it, or to visit *)
(* it in a walk, leaves the rest of the invariant as it was.                *)
LEMMA TakeRest ==
    ASSUME RestOK, CountsOK, NEW u \in Users, NEW o \in tree,
           NEW l \in {"held", "iterating"}, Take(u, o, l),
           UNCHANGED <<tree, count, active, destroyed>>,
           readers' \subseteq Users,
           \A w \in Users : w # u /\ w \in readers => w \in readers'
    PROVE  RestOK'
<1>1. /\ pc' = [pc EXCEPT ![u] = l] /\ obj' = [obj EXCEPT ![u] = o]
      /\ rc' = [rc EXCEPT ![o] = @ + 1] /\ rc \in [Objects -> Nat]
  BY DEF Take, Goto, CountsOK
<1>2. /\ tree \subseteq Objects /\ o \in Objects /\ o # None
      /\ pc \in [Users -> Locations] /\ obj \in [Users -> Objects \cup {None}]
  BY HandleAssumption DEF RestOK
<1>3. o < count
  BY DEF RestOK
<1>4. /\ pc' \in [Users -> Locations] /\ obj' \in [Users -> Objects \cup {None}]
  BY <1>1, <1>2 DEF Locations
<1>5. \A p \in Objects : p \notin tree' => rc'[p] = 0
  BY <1>1, <1>2 DEF RestOK
<1>6. /\ pc'[u] = l /\ obj'[u] = o
      /\ \A w \in Users : w # u => pc'[w] = pc[w] /\ obj'[w] = obj[w]
  BY <1>1, <1>2
<1>7. /\ \A w \in Users : pc'[w] = "callback" => obj'[w] \notin tree'
      /\ \A w \in Users : pc'[w] = "idle" <=> obj'[w] = None
  BY <1>2, <1>6 DEF RestOK
<1>8. /\ \A w \in Users : obj'[w] # None => obj'[w] < count'
      /\ \A w \in Users : pc'[w] = "move" => w \in readers'
  BY <1>3, <1>6 DEF RestOK
<1> QED
  BY <1>4, <1>5, <1>7, <1>8 DEF RestOK

(* Every step preserves the invariant. *)
LEMMA InvInductive ==
    ASSUME Orderly, Inv, [Next]_vars
    PROVE  Inv'
<1> USE HandleAssumption
<1>0. RestOK /\ CountsOK /\ DestroyOK
  BY InvSplit
<1> SUFFICES RestOK' /\ CountsOK' /\ DestroyOK'
  BY InvSplit, PTL
<1>1. CASE UNCHANGED vars
  <2>1. RestOK'
    BY <1>0, <1>1 DEF vars, RestOK
  <2>2. CountsOK'
    BY <1>1, KeepHolders DEF vars, CountsOK, Holds
  <2>3. DestroyOK'
    BY <1>0, <1>1 DEF vars, DestroyOK, NoIteration
  <2> QED
    BY <2>1, <2>2, <2>3
<1> SUFFICES ASSUME NEW u \in Users,
                    \/ New(u) \/ Lookup(u) \/ Acquire(u)
                    \/ Release(u) \/ Test(u) \/ Check(u) \/ Remove(u) \/ Callback(u)
                    \/ Destroy(u) \/ WaitAlone(u) \/ Zero(u)
                    \/ IterStart(u) \/ IterNext(u) \/ IterMove(u)
             PROVE  RestOK' /\ CountsOK' /\ DestroyOK'
  BY <1>1 DEF Next
<1>2. CASE New(u)
  <2>1. count \in Objects /\ Take(u, count, "held") /\ pc[u] = "idle"
    BY <1>0, <1>2 DEF New, RestOK, Objects
  <2>2. CountsOK'
    BY <2>1, GainHolder DEF CountsOK, HoldLocations
  <2>3. count \notin tree /\ destroyed[count] = 0
    BY <1>0, <2>1 DEF RestOK, Objects
  <2>4. \A v \in Users : obj[v] # count
    BY <1>0, <2>1 DEF RestOK, Objects
  <2>5. /\ pc' = [pc EXCEPT ![u] = "held"] /\ obj' = [obj EXCEPT ![u] = count]
        /\ rc' = [rc EXCEPT ![count] = @ + 1] /\ tree' = tree \cup {count}
        /\ count' = count + 1 /\ count' \in 0 .. MaxObjects /\ active' \in Int
        /\ UNCHANGED <<readers, destroyed>>
    BY <1>0, <1>2 DEF New, RestOK, Take, Goto
  <2>6. \A v \in Users : pc'[v] = "callback" => obj'[v] \notin tree'
    BY <1>0, <2>1, <2>4, <2>5 DEF RestOK
  <2>7. tree' \subseteq 0 .. count' - 1 /\ tree' \subseteq Objects
    BY <1>0, <2>1, <2>5 DEF RestOK, Objects
  <2>8. \A o \in Objects : destroyed'[o] > 0 => o \notin tree' /\ o < count'
    BY <1>0, <2>1, <2>3, <2>5 DEF RestOK, Objects
  <2>9. RestOK'
    BY <1>0, <2>1, <2>5, <2>6, <2>7, <2>8, SMTT(30) DEF RestOK, Objects, Locations, CountsOK
  <2>10. DestroyOK'
    <3>1. \A w \in Users : w # u => pc'[w] = pc[w] /\ obj'[w] = obj[w] /\ obj[w] # count
      BY <1>0, <2>4, <2>5 DEF RestOK
    <3>2. \A w \in Users : w # u /\ pc[w] = "zero" => rc'[obj[w]] = rc[obj[w]]
      BY <1>0, <2>5, <3>1 DEF RestOK, CountsOK
    <3>3. pc'[u] = "held" /\ readers' = readers
      BY <1>0, <2>5 DEF RestOK
    <3> QED
      BY <3>1, <3>2, <3>3, KeepDestroy
  <2> QED
    BY <2>2, <2>9, <2>10
<1>3. CASE Lookup(u)
  <2>1. PICK o \in tree : Take(u, o, "held")
    BY <1>3 DEF Lookup
  <2>2. o \in Objects /\ pc[u] = "idle" /\ o < count
    BY <1>0, <1>3 DEF Lookup, RestOK
  <2>3. CountsOK'
    BY <2>1, <2>2, GainHolder DEF CountsOK, HoldLocations
  <2>4. RestOK'
    BY <1>0, <1>3, <2>1, TakeRest, SMTT(30) DEF Lookup, RestOK
  <2>5. \A w \in Users : pc[w] \notin {"wait", "zero"}
    BY <1>0, <1>3, Zenon DEF Lookup, Undisturbed, Orderly, DestroyOK
  <2>6. DestroyOK'
    <3>1. pc \in [Users -> Locations] /\ pc' = [pc EXCEPT ![u] = "held"]
      BY <1>0, <2>1 DEF RestOK, Take, Goto
    <3> QED
      BY <2>5, <3>1, NobodyDestroys, Zenon
  <2> QED
    BY <2>3, <2>4, <2>6
<1>4. CASE Acquire(u)
  <2>1. PICK v \in Users : pc[v] = "idle" /\ Take(v, obj[u], "held")
    BY <1>4, Zenon DEF Acquire
  <2>2. obj[u] \in Objects /\ obj[u] < count
    BY <1>0, <1>4 DEF Acquire, RestOK
  <2>3. obj[u] \in tree
    BY <1>4, <2>2, HeldInTree DEF Acquire, Holds
  <2>4. CountsOK'
    BY <2>1, <2>2, GainHolder DEF CountsOK, HoldLocations
  <2>5. RestOK'
    BY <1>0, <1>4, <2>1, <2>3, TakeRest, Zenon DEF Acquire, RestOK
  <2>6. DestroyOK'
    <3>1. \A w \in Users : pc[w] = "zero" => obj[w] # obj[u]
      BY <1>4, OnlyHolder DEF Acquire, Holds
    <3>2. \A w \in Users : w # v => pc'[w] = pc[w] /\ obj'[w] = obj[w]
      BY <1>0, <2>1 DEF RestOK, Take, Goto
    <3>3. pc'[v] = "held" /\ readers' = readers
      BY <1>0, <1>4, <2>1 DEF RestOK, Acquire, Take, Goto
    <3>4. \A w \in Users : w # v /\ pc[w] = "zero" => rc'[obj[w]] = rc[obj[w]]
      BY <1>0, <2>1, <2>2, <3>1, SMTT(30) DEF RestOK, CountsOK, Take
    <3> QED
      BY <3>2, <3>3, <3>4, KeepDestroy, Zenon
  <2> QED
    BY <2>4, <2>5, <2>6
<1>5. CASE Release(u)
  <2>1. CountsOK'
    BY <1>5, LoseHolder, Zenon DEF Release, CountsOK, HoldLocations
  <2>2. obj[u] \in Objects
    BY <1>0, <1>5 DEF Release, RestOK
  <2>3. obj[u] \in tree
    BY <1>5, <2>2, HeldInTree DEF Release, Holds
  <2>4. RestOK'
    BY <1>0, <1>5, <2>2, <2>3, Zenon DEF Release, RestOK, Goto, Locations, CountsOK
  <2>5. DestroyOK'
    <3>1. \A w \in Users : pc[w] = "zero" => obj[w] # obj[u]
      BY <1>5, OnlyHolder DEF Release, Holds
    <3>2. \A w \in Users : w # u => pc'[w] = pc[w] /\ obj'[w] = obj[w]
      BY <1>0, <1>5 DEF RestOK, Release, Goto
    <3>3. pc'[u] = "test" /\ readers' = readers
      BY <1>0, <1>5 DEF RestOK, Release, Goto
    <3>4. \A w \in Users : w # u /\ pc[w] = "zero" => rc'[obj[w]] = rc[obj[w]]
      BY <1>0, <1>5, <2>2, <3>1 DEF RestOK, CountsOK, Release
    <3> QED
      BY <3>2, <3>3, <3>4, KeepDestroy, Zenon
  <2> QED
    BY <2>1, <2>4, <2>5
<1>6. CASE Test(u)
  <2>1. CountsOK'
    BY <1>0, <1>6, KeepHolders DEF Test, CountsOK, RestOK, Holds, Return, Forget, Goto
  <2>2. RestOK'
    BY <1>0, <1>6, SMTT(30) DEF Test, RestOK, Return, Forget, Goto, Locations, CountsOK
  <2>3. DestroyOK'
    <3>1. \A w \in Users : w # u => pc'[w] = pc[w] /\ obj'[w] = obj[w]
      BY <1>0, <1>6 DEF RestOK, Test, Return, Forget, Goto
    <3>2. pc'[u] \notin {"wait", "zero", "iterating"} /\ readers' = readers /\ rc' = rc
      BY <1>0, <1>6 DEF RestOK, Test, Return, Forget, Goto
    <3> QED
      BY <3>1, <3>2, KeepDestroy, Zenon
  <2> QED
    BY <2>1, <2>2, <2>3
<1>7. CASE Check(u)
  <2>1. CountsOK'
    BY <1>0, <1>7, KeepHolders DEF Check, CountsOK, RestOK, Holds, Return, Forget, Goto
  <2>2. RestOK'
    BY <1>0, <1>7, SMTT(30) DEF Check, RestOK, Return, Forget, Goto, Locations, CountsOK
  <2>3. DestroyOK'
    <3>1. \A w \in Users : w # u => pc'[w] = pc[w] /\ obj'[w] = obj[w]
      BY <1>0, <1>7 DEF RestOK, Check, Return, Forget, Goto
    <3>2. pc'[u] \notin {"wait", "zero", "iterating"} /\ readers' = readers /\ rc' = rc
      BY <1>0, <1>7 DEF RestOK, Check, Return, Forget, Goto
    <3> QED
      BY <3>1, <3>2, KeepDestroy, Zenon
  <2> QED
    BY <2>1, <2>2, <2>3
<1>8. CASE Remove(u)
  <2>1. CountsOK'
    BY <1>0, <1>8, KeepHolders, SMTT(30) DEF Remove, CountsOK, RestOK, Holds, Return, Forget, Goto
  <2>2. RestOK'
    <3>1. obj[u] \in Objects /\ obj[u] < count /\ pc[u] = "remove"
      BY <1>0, <1>8 DEF Remove, RestOK
    <3>2. CASE rc[obj[u]] = 0
      <4>1. /\ tree' = tree \ {obj[u]} /\ pc' = [pc EXCEPT ![u] = "callback"]
            /\ UNCHANGED <<rc, count, active, readers, destroyed, obj>>
        BY <1>8, <3>2, Zenon DEF Remove, Goto
      <4>2. \A v \in Users : pc'[v] = "callback" => obj'[v] \notin tree'
        BY <1>0, <3>1, <4>1 DEF RestOK
      <4>3. \A o \in Objects : o \notin tree' => rc'[o] = 0
        BY <1>0, <3>2, <4>1 DEF RestOK
      <4> QED
        BY <1>0, <3>1, <4>1, <4>2, <4>3, Zenon DEF RestOK, Locations
    <3>3. CASE rc[obj[u]] # 0
      <4>1. UNCHANGED <<rc, tree, count, active, readers, destroyed>>
        BY <1>8, <3>3 DEF Remove
      <4>2. \/ u \in readers /\ pc' = [pc EXCEPT ![u] = "move"] /\ obj' = obj
            \/ pc' = [pc EXCEPT ![u] = "idle"] /\ obj' = [obj EXCEPT ![u] = None]
        BY <1>8, <3>3, SMTT(30) DEF Remove, Return, Forget, Goto
      <4> QED
        BY <1>0, <3>1, <4>1, <4>2, Zenon DEF RestOK, Locations
    <3> QED
      BY <3>2, <3>3, Zenon
  <2>3. DestroyOK'
    <3>1. \A w \in Users : w # u => pc'[w] = pc[w] /\ obj'[w] = obj[w]
      BY <1>0, <1>8 DEF RestOK, Remove, Return, Forget, Goto
    <3>2. pc'[u] \notin {"wait", "zero", "iterating"} /\ readers' = readers /\ rc' = rc
      BY <1>0, <1>8 DEF RestOK, Remove, Return, Forget, Goto
    <3> QED
      BY <3>1, <3>2, KeepDestroy, Zenon
  <2> QED
    BY <2>1, <2>2, <2>3
<1>9. CASE Callback(u)
  <2>1. CountsOK'
    BY <1>0, <1>9, KeepHolders DEF Callback, CountsOK, RestOK, Holds, Return, Forget, Goto
  <2>2. RestOK'
    <3>1. obj[u] \in Objects /\ obj[u] < count /\ obj[u] \notin tree
      BY <1>0, <1>9 DEF Callback, RestOK
    <3>2. /\ destroyed' = [destroyed EXCEPT ![obj[u]] = @ + 1] /\ active' = active - 1
          /\ pc' = [pc EXCEPT ![u] = "idle"] /\ obj' = [obj EXCEPT ![u] = None]
          /\ UNCHANGED <<rc, tree, count, readers>>
      BY <1>9 DEF Callback, Forget, Goto
    <3>3. destroyed \in [Objects -> Nat]
      BY <1>0 DEF RestOK
    <3>4. destroyed' \in [Objects -> Nat]
      BY <3>1, <3>2, <3>3
    <3>5. \A o \in Objects : destroyed'[o] > 0 => o \notin tree' /\ o < count'
      BY <1>0, <3>1, <3>2, <3>3, SMTT(30) DEF RestOK
    <3> QED
      BY <1>0, <1>9, <3>2, <3>4, <3>5 DEF Callback, RestOK, Locations
  <2>3. DestroyOK'
    <3>1. \A w \in Users : w # u => pc'[w] = pc[w] /\ obj'[w] = obj[w]
      BY <1>0, <1>9 DEF RestOK, Callback, Forget, Goto
    <3>2. pc'[u] \notin {"wait", "zero", "iterating"} /\ readers' = readers /\ rc' = rc
      BY <1>0, <1>9 DEF RestOK, Callback, Forget, Goto
    <3> QED
      BY <3>1, <3>2, KeepDestroy, Zenon
  <2> QED
    BY <2>1, <2>2, <2>3
<1>10. CASE Destroy(u)
  <2>1. /\ pc' = [pc EXCEPT ![u] = "wait"] /\ pc[u] = "held"
        /\ u \in Destroyers /\ NoIteration
        /\ UNCHANGED <<rc, tree, count, active, readers, destroyed, obj>>
    BY <1>10 DEF Destroy, Goto
  <2>2. RestOK'
    BY <1>0, <2>1 DEF RestOK, Locations
  <2>3. CountsOK'
    BY <1>0, <2>1, KeepHolders, SMTT(30) DEF RestOK, CountsOK, Holds
  <2>4. NoIteration'
    BY <1>0, <2>1 DEF RestOK, NoIteration
  <2>5. DestroyOK'
    BY <1>0, <2>1, <2>4, SMTT(30) DEF RestOK, DestroyOK
  <2> QED
    BY <2>2, <2>3, <2>5
<1>14. CASE WaitAlone(u)
  <2>1. /\ pc' = [pc EXCEPT ![u] = "zero"] /\ pc[u] = "wait" /\ rc[obj[u]] \in {0, 1}
        /\ UNCHANGED <<rc, tree, count, active, readers, destroyed, obj>>
    BY <1>14, Zenon DEF WaitAlone, Goto
  <2>2. RestOK'
    BY <1>0, <2>1 DEF RestOK, Locations
  <2>3. CountsOK'
    BY <1>0, <2>1, KeepHolders, SMTT(30) DEF RestOK, CountsOK, Holds
  <2>4. rc[obj[u]] = 1
    <3>1. obj[u] \in Objects /\ Holds(u, obj[u])
      BY <1>0, <2>1 DEF RestOK, Holds
    <3>2. rc[obj[u]] # 0
      BY <3>1, HeldInTree, Zenon
    <3>3. rc[obj[u]] \in {0, 1}
      BY <2>1, Zenon
    <3> QED
      BY <3>2, <3>3, Zenon
  <2>5. NoIteration'
    BY <1>0, <2>1 DEF RestOK, DestroyOK, NoIteration
  <2>6. DestroyOK'
    BY <1>0, <2>1, <2>4, <2>5 DEF RestOK, DestroyOK
  <2> QED
    BY <2>2, <2>3, <2>6
<1>15. CASE Zero(u)
  <2>1. /\ pc' = [pc EXCEPT ![u] = "check"] /\ pc[u] = "zero"
        /\ rc' = [rc EXCEPT ![obj[u]] = 0]
        /\ UNCHANGED <<tree, count, active, readers, destroyed, obj>>
    BY <1>15 DEF Zero, Goto
  <2>2. obj[u] \in Objects /\ rc[obj[u]] = 1
    BY <1>0, <2>1 DEF RestOK, DestroyOK
  <2>3. rc' = [rc EXCEPT ![obj[u]] = @ - 1]
    BY <1>0, <2>1, <2>2 DEF CountsOK
  <2>4. CountsOK'
    BY <1>15, <2>1, <2>3, LoseHolder, Zenon DEF Zero, CountsOK, HoldLocations
  <2>5. RestOK'
    BY <1>0, <2>1, <2>2, Zenon DEF RestOK, Locations, CountsOK
  <2>6. DestroyOK'
    <3>1. \A w \in Users : w # u /\ pc[w] = "zero" => obj[w] # obj[u]
      BY <2>1, OnlyHolder DEF Holds
    <3>2. \A w \in Users : w # u /\ pc[w] = "zero" => rc'[obj[w]] = rc[obj[w]]
      BY <1>0, <2>1, <2>2, <3>1 DEF RestOK, CountsOK
    <3>3. \A w \in Users : w # u => pc'[w] = pc[w] /\ obj'[w] = obj[w]
      BY <1>0, <2>1 DEF RestOK
    <3>4. pc'[u] = "check" /\ readers' = readers
      BY <1>0, <2>1 DEF RestOK
    <3> QED
      BY <3>2, <3>3, <3>4, KeepDestroy
  <2> QED
    BY <2>4, <2>5, <2>6
<1>11. CASE IterStart(u)
  <2>1. PICK o \in tree : Take(u, o, "iterating")
    BY <1>11 DEF IterStart
  <2>2. o \in Objects /\ pc[u] = "idle" /\ o < count
    BY <1>0, <1>11 DEF IterStart, RestOK
  <2>3. CountsOK'
    BY <2>1, <2>2, GainHolder, Zenon DEF CountsOK, HoldLocations
  <2>4. RestOK'
    BY <1>0, <1>11, <2>1, TakeRest, SMTT(30) DEF IterStart, RestOK
  <2>5. \A w \in Users : pc[w] \notin {"wait", "zero"}
    BY <1>0, <1>11, Zenon DEF IterStart, Undisturbed, Orderly, DestroyOK
  <2>6. DestroyOK'
    <3>1. pc \in [Users -> Locations] /\ pc' = [pc EXCEPT ![u] = "iterating"]
      BY <1>0, <2>1 DEF RestOK, Take, Goto
    <3> QED
      BY <2>5, <3>1, NobodyDestroys, Zenon
  <2> QED
    BY <2>3, <2>4, <2>6
<1>12. CASE IterNext(u)
  <2>1. CountsOK'
    BY <1>12, LoseHolder, Zenon DEF IterNext, CountsOK, HoldLocations
  <2>2. obj[u] \in Objects
    BY <1>0, <1>12 DEF IterNext, RestOK
  <2>3. obj[u] \in tree
    BY <1>12, <2>2, HeldInTree DEF IterNext, Holds
  <2>4. RestOK'
    BY <1>0, <1>12, <2>2, <2>3, Zenon DEF IterNext, RestOK, Goto, Locations, CountsOK
  <2>5. \A w \in Users : pc[w] \notin {"wait", "zero"}
    BY <1>12, Calm DEF IterNext
  <2>6. DestroyOK'
    <3>1. pc \in [Users -> Locations] /\ pc' = [pc EXCEPT ![u] = "test"]
      BY <1>0, <1>12 DEF RestOK, IterNext, Goto
    <3> QED
      BY <2>5, <3>1, NobodyDestroys, Zenon
  <2> QED
    BY <2>1, <2>4, <2>6
<1>13. CASE IterMove(u)
  <2>3. DestroyOK'
    <3>1. \A w \in Users : pc[w] \notin {"wait", "zero"}
      BY <1>13, Calm, Zenon DEF IterMove
    <3>2. PICK l \in {"iterating", "idle"} : pc' = [pc EXCEPT ![u] = l]
      BY <1>13, Zenon DEF IterMove, Take, Forget, Goto
    <3>3. pc \in [Users -> Locations]
      BY <1>0 DEF RestOK
    <3>4. l \notin {"wait", "zero"}
      OBVIOUS
    <3> QED
      BY <3>1, <3>2, <3>3, <3>4, NobodyDestroys, Zenon
  <2>1. CASE \E o \in tree : Take(u, o, "iterating")
    <3>1. PICK o \in tree : Take(u, o, "iterating")
      BY <2>1
    <3>2. o \in Objects /\ pc[u] = "move" /\ o < count
      BY <1>0, <1>13 DEF IterMove, RestOK
    <3>3. CountsOK'
      BY <3>1, <3>2, GainHolder, Zenon DEF CountsOK, HoldLocations
    <3>4. RestOK'
      BY <1>0, <1>13, <3>1, TakeRest, SMTT(30) DEF IterMove, RestOK
    <3> QED
      BY <2>3, <3>3, <3>4
  <2>2. CASE Forget(u) /\ UNCHANGED rc
    <3>1. CountsOK'
      BY <1>0, <1>13, <2>2, KeepHolders, SMTT(30)
         DEF IterMove, CountsOK, RestOK, Holds, Forget, Goto
    <3>2. RestOK'
      BY <1>0, <1>13, <2>2 DEF IterMove, RestOK, Forget, Goto, Locations, CountsOK
    <3> QED
      BY <2>3, <3>1, <3>2
  <2> QED
    BY <1>13, <2>1, <2>2, Zenon DEF IterMove
<1> QED
  BY <1>2, <1>3, <1>4, <1>5, <1>6, <1>7, <1>8, <1>9, <1>10, <1>11, <1>12, <1>13, <1>14, <1>15

LEMMA InvInitial == Init => Inv
<1> SUFFICES ASSUME Init PROVE Inv
  OBVIOUS
<1>1. RestOK
  BY HandleAssumption DEF Init, RestOK, Locations, Objects
<1>2. \A o \in Objects : Holders(o) = {}
  BY DEF Init, Holders, Holds
<1>3. CountsOK
  BY <1>2, FS_EmptySet DEF Init, CountsOK
<1>4. DestroyOK
  BY DEF Init, DestroyOK
<1> QED
  BY <1>1, <1>3, <1>4, InvSplit

(* The inductive invariant holds: the reference count of every object is    *)
(* the number of users that hold it (handle_new, handle_acquire,            *)
(* handle_release, handle_iter_start and handle_iter_next).                 *)
THEOREM ExactCounts == ASSUME Orderly PROVE Spec => [](TypeOK /\ CountIsExact)
<1>1. Spec => []Inv
  BY InvInitial, InvInductive, PTL DEF Spec
<1> QED
  BY <1>1, PTL DEF Inv

(* No object is destroyed, and none leaves the tree, while a user holds it: *)
(* the second look at the count that _handle_delete_internal takes under    *)
(* the lock is enough, for any number of users.                             *)
THEOREM HeldAlive == ASSUME Orderly PROVE Spec => []HeldIsAlive
<1>1. Inv => HeldIsAlive
  <2>1. Inv => \A o \in Objects : o \in tree => destroyed[o] = 0
    BY DEF Inv, TypeOK, CountIsExact
  <2> QED
    BY <2>1, HeldInTree, Zenon DEF HeldIsAlive
<1>2. Spec => []Inv
  BY InvInitial, InvInductive, PTL DEF Spec
<1> QED
  BY <1>1, <1>2, PTL

-----------------------------------------------------------------------------
\* The users that will still look at the count of o, and the ones about to run
\* its destructor.
Looks(u, o) == obj[u] = o /\ pc[u] \in {"test", "check", "remove"}
Destructs(u, o) == obj[u] = o /\ pc[u] = "callback"

(* Why no object is leaked: somebody will still look at a count that is 0   *)
(* while the object can be found, and an object that has left the tree has  *)
(* been destroyed or is about to be.                                        *)
Watched(o) ==
    /\ o \in tree /\ rc[o] = 0 => \E u \in Users : Looks(u, o)
    /\ o \notin tree /\ destroyed[o] = 0 => \E u \in Users : Destructs(u, o)

SomebodyLooks == \A o \in 0 .. count - 1 : Watched(o)

(* A step of one user that leaves the object's tree entry, count and        *)
(* destructor alone, and takes away none of those who attend to it.         *)
LEMMA StillWatched ==
    ASSUME NEW o, Watched(o),
           o \in tree' <=> o \in tree, destroyed'[o] = destroyed[o],
           rc'[o] = 0 => rc[o] = 0,
           rc'[o] = 0 => \A v \in Users : Looks(v, o) => Looks(v, o)',
           \A v \in Users : Destructs(v, o) => Destructs(v, o)'
    PROVE  Watched(o)'
BY DEF Watched

(* A user that takes an object attends to none before, and the object's     *)
(* count is not 0 afterwards.                                               *)
LEMMA TakeWatched ==
    ASSUME Inv, SomebodyLooks, NEW u \in Users, pc[u] \in {"idle", "move"},
           NEW p \in Objects, NEW l, Take(u, p, l),
           UNCHANGED <<tree, count, destroyed>>
    PROVE  SomebodyLooks'
<1>1. /\ \A v \in Users : v # u => pc'[v] = pc[v] /\ obj'[v] = obj[v]
      /\ \A o \in Objects : rc'[o] = 0 => rc[o] = 0
  BY DEF Inv, TypeOK, Take, Goto
<1>2. \A o \in 0 .. count - 1 : o \in Objects
  <2>1. count \in 0 .. MaxObjects
    BY DEF Inv, TypeOK
  <2> QED
    BY <2>1, HandleAssumption DEF Objects
<1>3. ASSUME NEW o \in 0 .. count - 1 PROVE Watched(o)'
  <2>1. /\ \A v \in Users : Looks(v, o) => Looks(v, o)'
        /\ \A v \in Users : Destructs(v, o) => Destructs(v, o)'
    BY <1>1 DEF Looks, Destructs
  <2>2. Watched(o)
    BY DEF SomebodyLooks
  <2> QED
    BY <1>1, <1>2, <2>1, <2>2, StillWatched
<1> QED
  BY <1>3 DEF SomebodyLooks

(* A user that looks at the count and goes on only when it is 0 is missed   *)
(* by nobody: when it turns back the count is not 0.                        *)
LEMMA LookWatched ==
    ASSUME Inv, SomebodyLooks, NEW u \in Users,
           pc[u] \in {"test", "check", "remove"},
           \/ Goto(u, "check") /\ UNCHANGED obj
           \/ Goto(u, "remove") /\ UNCHANGED obj
           \/ rc[obj[u]] # 0 /\ Return(u),
           UNCHANGED <<rc, tree, count, destroyed>>
    PROVE  SomebodyLooks'
<1>1. /\ \A v \in Users : v # u => pc'[v] = pc[v] /\ obj'[v] = obj[v]
      /\ \/ pc'[u] \in {"check", "remove"} /\ obj'[u] = obj[u]
         \/ rc[obj[u]] # 0
  BY DEF Inv, TypeOK, Return, Forget, Goto
<1>2. ASSUME NEW o \in 0 .. count - 1 PROVE Watched(o)'
  <2>1. /\ rc'[o] = 0 => \A v \in Users : Looks(v, o) => Looks(v, o)'
        /\ \A v \in Users : Destructs(v, o) => Destructs(v, o)'
    BY <1>1 DEF Looks, Destructs
  <2>2. Watched(o)
    BY Zenon DEF SomebodyLooks
  <2> QED
    BY <2>1, <2>2, StillWatched, Zenon
<1> QED
  BY <1>2 DEF SomebodyLooks

(* A user that gives a reference back will look at the count. *)
LEMMA DropWatched ==
    ASSUME Inv, SomebodyLooks, NEW u \in Users, pc[u] \in HoldLocations,
           Goto(u, "test") \/ Goto(u, "check"),
           \A o \in Objects : o # obj[u] => rc'[o] = rc[o],
           UNCHANGED <<tree, count, destroyed, obj>>
    PROVE  SomebodyLooks'
<1>1. /\ \A v \in Users : v # u => pc'[v] = pc[v]
      /\ pc'[u] \in {"test", "check"}
  BY DEF Inv, TypeOK, Goto
<1>2. obj[u] \in Objects /\ obj[u] \in tree
  <2>1. obj[u] \in Objects
    BY DEF Inv, TypeOK, CountIsExact, HoldLocations
  <2> QED
    BY <2>1, HeldInTree DEF Holds, HoldLocations
<1>4. \A o \in 0 .. count - 1 : o \in Objects
  <2>1. count \in 0 .. MaxObjects
    BY DEF Inv, TypeOK
  <2> QED
    BY <2>1, HandleAssumption DEF Objects
<1>3. ASSUME NEW o \in 0 .. count - 1 PROVE Watched(o)'
  <2>1. CASE o = obj[u]
    <3>1. Looks(u, o)'
      BY <1>1, <2>1 DEF Looks
    <3> QED
      BY <1>2, <2>1, <3>1 DEF Watched
  <2>2. CASE o # obj[u]
    <3>1. rc'[o] = rc[o]
      BY <1>4, <2>2
    <3>2. /\ \A v \in Users : Looks(v, o) => Looks(v, o)'
          /\ \A v \in Users : Destructs(v, o) => Destructs(v, o)'
      BY <1>1, <2>2 DEF Looks, Destructs
    <3>3. Watched(o)
      BY DEF SomebodyLooks
    <3> QED
      BY <3>1, <3>2, <3>3, StillWatched
  <2> QED
    BY <2>1, <2>2
<1> QED
  BY <1>3 DEF SomebodyLooks

(* The object leaves the tree: its remover goes on to the destructor. *)
LEMMA RemoveWatched ==
    ASSUME Inv, SomebodyLooks, NEW u \in Users, Remove(u)
    PROVE  SomebodyLooks'
<1>1. CASE rc[obj[u]] = 0
  <2>1. /\ pc[u] = "remove" /\ pc' = [pc EXCEPT ![u] = "callback"]
        /\ tree' = tree \ {obj[u]} /\ UNCHANGED <<rc, count, destroyed, obj>>
    BY <1>1 DEF Remove, Goto
  <2>2. /\ \A v \in Users : v # u => pc'[v] = pc[v]
        /\ pc'[u] = "callback"
    BY <2>1 DEF Inv, TypeOK
  <2>3. ASSUME NEW o \in 0 .. count - 1 PROVE Watched(o)'
    <3>1. CASE o = obj[u]
      <4>1. Destructs(u, o)'
        BY <2>1, <2>2, <3>1 DEF Destructs
      <4>2. o \notin tree'
        BY <2>1, <3>1
      <4> QED
        BY <4>1, <4>2 DEF Watched
    <3>2. CASE o # obj[u]
      <4>1. /\ \A v \in Users : Looks(v, o) => Looks(v, o)'
            /\ \A v \in Users : Destructs(v, o) => Destructs(v, o)'
        BY <2>1, <2>2, <3>2 DEF Looks, Destructs
      <4>2. Watched(o) /\ (o \in tree' <=> o \in tree)
        BY <2>1, <3>2 DEF SomebodyLooks
      <4> QED
        BY <2>1, <4>1, <4>2, StillWatched
    <3> QED
      BY <3>1, <3>2
  <2> QED
    BY <2>1, <2>3 DEF SomebodyLooks
<1>2. CASE rc[obj[u]] # 0
  BY <1>2, LookWatched DEF Remove
<1> QED
  BY <1>1, <1>2

(* The destructor runs. *)
LEMMA CallbackWatched ==
    ASSUME Inv, SomebodyLooks, NEW u \in Users, Callback(u)
    PROVE  SomebodyLooks'
<1>1. /\ pc[u] = "callback" /\ UNCHANGED <<rc, tree, count>>
      /\ \A v \in Users : v # u => pc'[v] = pc[v] /\ obj'[v] = obj[v]
      /\ destroyed' = [destroyed EXCEPT ![obj[u]] = @ + 1]
  BY DEF Callback, Forget, Goto, Inv, TypeOK
<1>2. obj[u] \in Objects /\ obj[u] \notin tree
  BY <1>1 DEF Inv, TypeOK, CountIsExact
<1>3. /\ destroyed'[obj[u]] # 0
      /\ \A o \in Objects : o # obj[u] => destroyed'[o] = destroyed[o]
  BY <1>1, <1>2 DEF Inv, TypeOK
<1>4. ASSUME NEW o \in 0 .. count - 1 PROVE Watched(o)'
  <2>1. o \in Objects
    <3>1. count \in 0 .. MaxObjects
      BY DEF Inv, TypeOK
    <3> QED
      BY <3>1, HandleAssumption DEF Objects
  <2>2. CASE o = obj[u]
    BY <1>1, <1>2, <1>3, <2>2, Zenon DEF Watched
  <2>3. CASE o # obj[u]
    <3>1. /\ \A v \in Users : Looks(v, o) => Looks(v, o)'
          /\ \A v \in Users : Destructs(v, o) => Destructs(v, o)'
      BY <1>1, <2>3, Zenon DEF Looks, Destructs
    <3>2. Watched(o)
      BY DEF SomebodyLooks
    <3> QED
      BY <1>1, <1>3, <2>1, <2>3, <3>1, <3>2, StillWatched, Zenon
  <2> QED
    BY <2>2, <2>3
<1> QED
  BY <1>1, <1>4 DEF SomebodyLooks

(* A new object is in the tree with one reference. *)
LEMMA NewWatched ==
    ASSUME Inv, SomebodyLooks, NEW u \in Users, New(u)
    PROVE  SomebodyLooks'
<1>1. /\ pc[u] = "idle" /\ tree' = tree \cup {count} /\ count' = count + 1
      /\ UNCHANGED destroyed /\ count < MaxObjects
      /\ \A v \in Users : v # u => pc'[v] = pc[v] /\ obj'[v] = obj[v]
      /\ rc' = [rc EXCEPT ![count] = @ + 1]
  BY DEF New, Take, Goto, Inv, TypeOK
<1>2. count \in Nat /\ count \in Objects
  <2>1. count \in 0 .. MaxObjects
    BY DEF Inv, TypeOK
  <2> QED
    BY <1>1, <2>1, HandleAssumption DEF Objects
<1>3. /\ rc'[count] # 0
      /\ \A o \in Objects : o # count => rc'[o] = rc[o]
  BY <1>1, <1>2 DEF Inv, TypeOK
<1>4. ASSUME NEW o \in 0 .. count' - 1 PROVE Watched(o)'
  <2>1. CASE o = count
    BY <1>1, <1>3, <2>1, Zenon DEF Watched
  <2>2. CASE o # count
    <3>1. o \in 0 .. count - 1 /\ o \in Objects
      BY <1>1, <1>2, <2>2, HandleAssumption DEF Objects
    <3>2. /\ \A v \in Users : Looks(v, o) => Looks(v, o)'
          /\ \A v \in Users : Destructs(v, o) => Destructs(v, o)'
      BY <1>1 DEF Looks, Destructs
    <3>3. Watched(o) /\ (o \in tree' <=> o \in tree) /\ rc'[o] = rc[o]
      BY <1>1, <1>3, <2>2, <3>1 DEF SomebodyLooks
    <3> QED
      BY <1>1, <3>2, <3>3, StillWatched, Zenon
  <2> QED
    BY <2>1, <2>2
<1> QED
  BY <1>4 DEF SomebodyLooks

(* A move that concerns no count and no destructor: into handle_destroy, or *)
(* out of a walk that is over.                                              *)
LEMMA MoveWatched ==
    ASSUME Inv, SomebodyLooks, NEW u \in Users,
           pc[u] \notin {"test", "check", "remove", "callback"},
           \A v \in Users : v # u => pc'[v] = pc[v] /\ obj'[v] = obj[v],
           UNCHANGED <<rc, tree, count, destroyed>>
    PROVE  SomebodyLooks'
<1>1. ASSUME NEW o \in 0 .. count - 1 PROVE Watched(o)'
  <2>1. /\ \A v \in Users : Looks(v, o) => Looks(v, o)'
        /\ \A v \in Users : Destructs(v, o) => Destructs(v, o)'
    BY DEF Looks, Destructs
  <2>2. Watched(o)
    BY DEF SomebodyLooks
  <2> QED
    BY <2>1, <2>2, StillWatched
<1> QED
  BY <1>1 DEF SomebodyLooks

LEMMA SomebodyLooksInductive ==
    ASSUME Inv, SomebodyLooks, [Next]_vars
    PROVE  SomebodyLooks'
<1>1. CASE UNCHANGED vars
  BY <1>1 DEF vars, SomebodyLooks, Watched, Looks, Destructs
<1> SUFFICES ASSUME NEW u \in Users,
                    \/ New(u) \/ Lookup(u) \/ Acquire(u)
                    \/ Release(u) \/ Test(u) \/ Check(u) \/ Remove(u) \/ Callback(u)
                    \/ Destroy(u) \/ WaitAlone(u) \/ Zero(u)
                    \/ IterStart(u) \/ IterNext(u) \/ IterMove(u)
             PROVE  SomebodyLooks'
  BY <1>1 DEF Next
<1>2. tree \subseteq Objects
  BY DEF Inv, TypeOK
<1>3. CASE Lookup(u)
  <2>1. PICK o \in tree : Take(u, o, "held")
    BY <1>3 DEF Lookup
  <2> QED
    BY <1>2, <1>3, <2>1, TakeWatched DEF Lookup
<1>4. CASE Acquire(u)
  <2>1. PICK v \in Users : pc[v] = "idle" /\ Take(v, obj[u], "held")
    BY <1>4, Zenon DEF Acquire
  <2>2. obj[u] \in Objects
    BY <1>4 DEF Acquire, Inv, TypeOK, CountIsExact
  <2> QED
    BY <1>4, <2>1, <2>2, TakeWatched, Zenon DEF Acquire
<1>5. CASE Release(u)
  <2>1. \A o \in Objects : o # obj[u] => rc'[o] = rc[o]
    BY <1>5 DEF Release, Inv, TypeOK
  <2> QED
    BY <1>5, <2>1, DropWatched, Zenon DEF Release, HoldLocations
<1>6. CASE Test(u)
  BY <1>6, LookWatched, Zenon DEF Test
<1>7. CASE Check(u)
  BY <1>7, LookWatched, Zenon DEF Check
<1>8. CASE Destroy(u) \/ WaitAlone(u)
  <2>1. /\ pc[u] \in {"held", "wait"} /\ UNCHANGED <<rc, tree, count, destroyed>>
        /\ \A v \in Users : v # u => pc'[v] = pc[v] /\ obj'[v] = obj[v]
    BY <1>8 DEF Destroy, WaitAlone, Goto, Inv, TypeOK
  <2> QED
    BY <2>1, MoveWatched, Zenon
<1>9. CASE Zero(u)
  <2>1. \A o \in Objects : o # obj[u] => rc'[o] = rc[o]
    BY <1>9 DEF Zero, Inv, TypeOK
  <2> QED
    BY <1>9, <2>1, DropWatched, Zenon DEF Zero, HoldLocations
<1>10. CASE IterStart(u)
  <2>1. PICK o \in tree : Take(u, o, "iterating")
    BY <1>10 DEF IterStart
  <2> QED
    BY <1>2, <1>10, <2>1, TakeWatched DEF IterStart
<1>11. CASE IterNext(u)
  <2>1. \A o \in Objects : o # obj[u] => rc'[o] = rc[o]
    BY <1>11 DEF IterNext, Inv, TypeOK
  <2> QED
    BY <1>11, <2>1, DropWatched, Zenon DEF IterNext, HoldLocations
<1>12. CASE IterMove(u)
  <2>1. pc[u] = "move" /\ UNCHANGED <<tree, count, destroyed>>
    BY <1>12, Zenon DEF IterMove
  <2>2. CASE \E o \in tree : Take(u, o, "iterating")
    <3>1. PICK o \in tree : Take(u, o, "iterating")
      BY <2>2
    <3> QED
      BY <1>2, <2>1, <3>1, TakeWatched
  <2>3. CASE Forget(u) /\ UNCHANGED rc
    <3>1. \A v \in Users : v # u => pc'[v] = pc[v] /\ obj'[v] = obj[v]
      BY <2>3 DEF Forget, Goto, Inv, TypeOK
    <3> QED
      BY <2>1, <2>3, <3>1, MoveWatched, Zenon
  <2>4. \/ \E o \in tree : Take(u, o, "iterating")
        \/ Forget(u) /\ UNCHANGED rc
    BY <1>12, Zenon DEF IterMove
  <2> QED
    BY <2>2, <2>3, <2>4
<1> QED
  BY <1>3, <1>4, <1>5, <1>6, <1>7, <1>8, <1>9, <1>10, <1>11, <1>12,
     NewWatched, RemoveWatched, CallbackWatched, Zenon

(* No object is leaked: each release decrements the count and looks at it   *)
(* later, so any of them may be the one that sees 0, and one always does;   *)
(* the object then leaves the tree and its destructor runs.                 *)
THEOREM NothingLeaks == ASSUME Orderly PROVE Spec => []NoLeak
<1>1. ASSUME Inv, SomebodyLooks PROVE NoLeak
  <2> SUFFICES ASSUME NEW o \in 0 .. count - 1, Holders(o) \cup Releasing(o) = {}
               PROVE  o \notin tree /\ destroyed[o] > 0
    BY DEF NoLeak
  <2>1. Watched(o)
    BY <1>1 DEF SomebodyLooks
  <2>2. o \in Objects
    <3>1. count \in 0 .. MaxObjects
      BY <1>1 DEF Inv, TypeOK
    <3> QED
      BY <3>1, HandleAssumption DEF Objects
  <2>3. \A u \in Users : ~Looks(u, o) /\ ~Destructs(u, o)
    BY DEF Looks, Destructs, Holders, Releasing
  <2>4. rc[o] = 0
    <3>1. Holders(o) = {}
      OBVIOUS
    <3> QED
      BY <1>1, <2>2, <3>1, FS_EmptySet DEF Inv, CountIsExact
  <2>5. destroyed[o] \in Nat
    BY <1>1, <2>2 DEF Inv, TypeOK
  <2> QED
    BY <2>1, <2>3, <2>4, <2>5 DEF Watched
<1>2. Init => SomebodyLooks
  BY DEF Init, SomebodyLooks
<1>3. Spec => []Inv
  BY InvInitial, InvInductive, PTL DEF Spec
<1>4. Spec => []SomebodyLooks
  BY <1>2, <1>3, SomebodyLooksInductive, PTL DEF Spec
<1> QED
  BY <1>1, <1>3, <1>4, PTL
=============================================================================
