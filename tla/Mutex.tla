-------------------------------- MODULE Mutex -------------------------------
(***************************************************************************)
(* The sleeping mutex and its system calls (kernel/lock/mutex.c), composed *)
(* with the lock word of RWLock that protects mutex->holder.  mutex->event *)
(* is the FIFO of sleeping threads that Scheduler's event_await and        *)
(* event_dispatch keep; it is never made active, and each of the two calls *)
(* is one step here.                                                       *)
(*                                                                         *)
(* Threads call the operations in any order, except that a thread releases *)
(* only a mutex that it acquired and acquires only one it does not own.    *)
(* Threads of Queriers also ask for the holder, threads of Deleters also   *)
(* delete the mutex.                                                       *)
(***************************************************************************)
EXTENDS Integers, Sequences, FiniteSetTheorems, TLAPS

CONSTANTS Threads, Queriers, Deleters, NoThread, WordSize

VARIABLES
    value, lockpc,   \* mutex->lock: the word and the threads' places in it
    met,             \* two readers have met in mutex->lock, see RWLock
    holder,          \* mutex->holder
    sleeping,        \* the threads on mutex->event
    pc,              \* where each thread stands in its system call
    owns,            \* the threads that returned from acquire, not yet releasing
    rc,              \* mutex_handle->handle.rc
    isDeleted,       \* mutex_handle->is_deleted
    gone             \* the handle's destructor has run

lockVars == <<value, lockpc, met>>
handleVars == <<rc, isDeleted, gone>>
vars == <<lockVars, holder, sleeping, pc, owns, handleVars>>

Lock == INSTANCE RWLock WITH Writers <- Threads, Readers <- Queriers, pc <- lockpc

Locations ==
    {"idle", "acquire", "take", "unlock_taken", "unlock_wait", "await", "asleep", "woken",
     "release", "unlock_released", "dispatch", "query", "delete", "unlock_deleted", "exit"}

Goto(t, l) == pc' = [pc EXCEPT ![t] = l]

-----------------------------------------------------------------------------
(* syscall_mutex_create *)
Init ==
    /\ Lock!Init
    /\ holder = NoThread
    /\ sleeping = <<>>
    /\ pc = [t \in Threads |-> "idle"]
    /\ owns = {}
    /\ rc = 1
    /\ isDeleted = FALSE
    /\ gone = FALSE

\* The steps inside rwlock_acquire_write, rwlock_acquire_read and
\* rwlock_release_read.
LockStep(t) ==
    /\ \/ Lock!TakeWrite(t) \/ Lock!SetWrite(t)
       \/ Lock!TakeRead(t) \/ Lock!SetReader(t)
       \/ Lock!JoinReaders(t) \/ Lock!AddReader(t) \/ Lock!ClearRead(t)
    /\ UNCHANGED <<holder, sleeping, pc, owns, handleVars>>

(* A system call looks the handle up and refuses a deleted mutex. *)
Enter(t) ==
    /\ pc[t] = "idle"
    /\ lockpc[t] = "idle"
    /\ ~gone
    /\ ~isDeleted
    /\ rc' = rc + 1
    /\ UNCHANGED <<isDeleted, gone>>

(* handle_release; the last one runs _mutex_handle_destructor.  The panic  *)
(* of mutex_delete on a mutex that is held is left out: nothing uses the   *)
(* mutex after this step.                                                  *)
Exit(t) ==
    /\ pc[t] = "exit"
    /\ lockpc[t] = "idle"
    /\ rc' = rc - 1
    /\ gone' = (rc = 1)
    /\ Goto(t, "idle")
    /\ UNCHANGED <<lockVars, holder, sleeping, owns, isDeleted>>

-----------------------------------------------------------------------------
(* mutex_acquire *)
CallAcquire(t) ==
    /\ Enter(t)
    /\ t \notin owns
    /\ Lock!CallWrite(t)
    /\ Goto(t, "acquire")
    /\ UNCHANGED <<holder, sleeping, owns>>

\* Faulty variant: the lock is taken without a look at the holder.
TestNothing(t) ==
    /\ pc[t] = "acquire"
    /\ lockpc[t] = "write"
    /\ Goto(t, "take")
    /\ UNCHANGED <<lockVars, holder, sleeping, owns, handleVars>>

Test(t) ==
    /\ pc[t] = "acquire"
    /\ lockpc[t] = "write"
    /\ Goto(t, IF holder = NoThread THEN "take" ELSE "unlock_wait")
    /\ UNCHANGED <<lockVars, holder, sleeping, owns, handleVars>>

Take(t) ==
    /\ pc[t] = "take"
    /\ holder' = t
    /\ Goto(t, "unlock_taken")
    /\ UNCHANGED <<lockVars, sleeping, owns, handleVars>>

UnlockTaken(t) ==
    /\ pc[t] = "unlock_taken"
    /\ Lock!ReleaseWrite(t)
    /\ owns' = owns \cup {t}
    /\ Goto(t, "exit")
    /\ UNCHANGED <<holder, sleeping, handleVars>>

UnlockWait(t) ==
    /\ pc[t] = "unlock_wait"
    /\ Lock!ReleaseWrite(t)
    /\ Goto(t, "await")
    /\ UNCHANGED <<holder, sleeping, owns, handleVars>>

Await(t) ==
    /\ pc[t] = "await"
    /\ sleeping' = Append(sleeping, t)
    /\ Goto(t, "asleep")
    /\ UNCHANGED <<lockVars, holder, owns, handleVars>>

Reacquire(t) ==
    /\ pc[t] = "woken"
    /\ Lock!CallWrite(t)
    /\ Goto(t, "acquire")
    /\ UNCHANGED <<holder, sleeping, owns, handleVars>>

-----------------------------------------------------------------------------
(* mutex_release *)
CallRelease(t) ==
    /\ Enter(t)
    /\ t \in owns
    /\ Lock!CallWrite(t)
    /\ owns' = owns \ {t}
    /\ Goto(t, "release")
    /\ UNCHANGED <<holder, sleeping>>

ClearHolder(t) ==
    /\ pc[t] = "release"
    /\ lockpc[t] = "write"
    /\ holder' = NoThread
    /\ Goto(t, "unlock_released")
    /\ UNCHANGED <<lockVars, sleeping, owns, handleVars>>

UnlockReleased(t) ==
    /\ pc[t] = "unlock_released"
    /\ Lock!ReleaseWrite(t)
    /\ Goto(t, "dispatch")
    /\ UNCHANGED <<holder, sleeping, owns, handleVars>>

\* Faulty variant: the woken thread's container stays on the list.
DispatchKeepingWaiter(t) ==
    /\ pc[t] = "dispatch"
    /\ IF sleeping = <<>>
       THEN Goto(t, "exit")
       ELSE pc' = [pc EXCEPT ![t] = "exit", ![Head(sleeping)] = "woken"]
    /\ UNCHANGED <<lockVars, holder, sleeping, owns, handleVars>>

Dispatch(t) ==
    /\ pc[t] = "dispatch"
    /\ IF sleeping = <<>>
       THEN Goto(t, "exit") /\ UNCHANGED sleeping
       ELSE /\ sleeping' = Tail(sleeping)
            /\ pc' = [pc EXCEPT ![t] = "exit", ![Head(sleeping)] = "woken"]
    /\ UNCHANGED <<lockVars, holder, owns, handleVars>>

-----------------------------------------------------------------------------
(* syscall_mutex_get_holder: mutex->holder is read under the read side.     *)
CallQuery(t) ==
    /\ Enter(t)
    /\ Lock!CallRead(t)
    /\ Goto(t, "query")
    /\ UNCHANGED <<holder, sleeping, owns>>

Query(t) ==
    /\ pc[t] = "query"
    /\ Lock!ReleaseRead(t)
    /\ Goto(t, "exit")
    /\ UNCHANGED <<holder, sleeping, owns, handleVars>>

(* syscall_mutex_delete *)
CallDelete(t) ==
    /\ t \in Deleters
    /\ Enter(t)
    /\ Lock!CallWrite(t)
    /\ Goto(t, "delete")
    /\ UNCHANGED <<holder, sleeping, owns>>

\* Faulty variant: is_deleted is not looked at again under the lock.
MarkDeletedTwice(t) ==
    /\ pc[t] = "delete"
    /\ lockpc[t] = "write"
    /\ isDeleted' = TRUE
    /\ rc' = rc - 1
    /\ Goto(t, "unlock_deleted")
    /\ UNCHANGED <<lockVars, holder, sleeping, owns, gone>>

MarkDeleted(t) ==
    /\ pc[t] = "delete"
    /\ lockpc[t] = "write"
    /\ isDeleted' = TRUE
    /\ rc' = IF isDeleted THEN rc ELSE rc - 1
    /\ Goto(t, "unlock_deleted")
    /\ UNCHANGED <<lockVars, holder, sleeping, owns, gone>>

UnlockDeleted(t) ==
    /\ pc[t] = "unlock_deleted"
    /\ Lock!ReleaseWrite(t)
    /\ Goto(t, "exit")
    /\ UNCHANGED <<holder, sleeping, owns, handleVars>>

-----------------------------------------------------------------------------
Next ==
    \E t \in Threads :
        \/ LockStep(t) \/ Exit(t)
        \/ CallAcquire(t) \/ Test(t) \/ Take(t) \/ UnlockTaken(t) \/ UnlockWait(t)
        \/ Await(t) \/ Reacquire(t)
        \/ CallRelease(t) \/ ClearHolder(t) \/ UnlockReleased(t) \/ Dispatch(t)
        \/ CallQuery(t) \/ Query(t)
        \/ CallDelete(t) \/ MarkDeleted(t) \/ UnlockDeleted(t)

Spec == Init /\ [][Next]_vars

-----------------------------------------------------------------------------
(* Types of the variables. *)
TypeOK ==
    /\ Lock!TypeOK
    /\ holder \in Threads \cup {NoThread}
    /\ sleeping \in Seq(Threads)
    /\ pc \in [Threads -> Locations]
    /\ owns \subseteq Threads
    /\ rc \in Nat
    /\ isDeleted \in BOOLEAN
    /\ gone \in BOOLEAN

(* Until two queries for the holder meet in mutex->lock, the mutex          *)
(* implements an exclusive lock, held from the return of mutex_acquire to   *)
(* the call of mutex_release.                                               *)
Exclusive == INSTANCE AbstractRWLock WITH
    Writers <- Threads, Readers <- {},
    writers <- IF met THEN {} ELSE owns, readers <- {}

ImplementsExclusiveLock == Exclusive!Spec

(* mutex_release never panics with "lock released by wrong thread" on a     *)
(* thread that acquired the mutex: when it compares mutex->holder, nobody   *)
(* has overwritten it.                                                      *)
NoWrongRelease ==
    \A t \in Threads : pc[t] = "release" /\ lockpc[t] = "write" => holder = t

(* The same, until two queries for the holder meet in mutex->lock.          *)
HolderReleases == ~met => NoWrongRelease

(* The handle's reference count keeps the mutex alive for the calls in      *)
(* progress: none of them, asleep ones included, outlives the mutex.        *)
NoUseAfterDelete ==
    gone => \A t \in Threads : pc[t] = "idle"

(* A sleeping thread is on mutex->event exactly once, so that a dispatch    *)
(* finds it and wakes it once.                                              *)
SleepersAreListed ==
    \A t \in Threads :
        LET places == {i \in DOMAIN sleeping : sleeping[i] = t} IN
        IF pc[t] = "asleep" THEN \E i \in places : places = {i} ELSE places = {}

-----------------------------------------------------------------------------
(***************************************************************************)
(* Proofs: for any number of threads that acquire, release, query and      *)
(* delete the mutex, composed with the lock word of RWLock one atomic      *)
(* instruction at a time.                                                  *)
(***************************************************************************)

\* The queries come from threads of the mutex, no thread is NULL, and the word
\* has room for its flags and a reader (see WordSizeAssumption of RWLock).
Setting ==
    /\ Queriers \subseteq Threads
    /\ NoThread \notin Threads
    /\ WordSize \in Nat /\ WordSize >= 8 /\ WordSize % 4 = 0

LockInv == Lock!TypeOK /\ Lock!OwnerDeterminesWord

\* A step of the lock word by t.
WordStep(t) ==
    \/ Lock!CallWrite(t) \/ Lock!TakeWrite(t) \/ Lock!SetWrite(t) \/ Lock!ReleaseWrite(t)
    \/ Lock!CallRead(t) \/ Lock!TakeRead(t) \/ Lock!SetReader(t)
    \/ Lock!JoinReaders(t) \/ Lock!AddReader(t)
    \/ Lock!ReleaseRead(t) \/ Lock!ClearRead(t)

(* What the tests of the word's two flags give for the words that occur. *)
LEMMA FlagFacts ==
    /\ ~Lock!HasLock(0) /\ ~Lock!HasRead(0) /\ Lock!OrLock(0) = Lock!FlagLock
    /\ \A l \in Lock!Locations : Lock!HasLock(Lock!WordAt(l))
    /\ \A l \in Lock!Locations : Lock!HasRead(Lock!WordAt(l)) => l \in {"read", "clear_read"}
  BY DEF Lock!HasLock, Lock!HasRead, Lock!OrLock, Lock!WordAt, Lock!Locations,
         Lock!FlagLock, Lock!FlagRead, Lock!OneReader

LEMMA SameUsers == ASSUME Setting PROVE Lock!Users = Threads
  BY DEF Setting, Lock!Users

LEMMA WordTypes ==
    ASSUME Setting, Lock!TypeOK, NEW t \in Threads, WordStep(t)
    PROVE  Lock!TypeOK'
<1> USE SameUsers
<1>1. WordSize \in Nat /\ WordSize >= 8 /\ WordSize % 4 = 0
  BY DEF Setting
<1>2. ASSUME NEW l \in Lock!Locations, Lock!Goto(t, l)
      PROVE  lockpc' \in [Lock!Users -> Lock!Locations]
  BY <1>2 DEF Lock!TypeOK, Lock!Goto
<1>3. Lock!OrLock(value) \in 0 .. WordSize - 1
  BY <1>1 DEF Lock!TypeOK, Lock!OrLock, Lock!HasLock, Lock!FlagLock
<1>4. CASE Lock!CallWrite(t) \/ Lock!CallRead(t)
  BY <1>2, <1>4 DEF Lock!TypeOK, Lock!CallWrite, Lock!CallRead, Lock!Locations
<1>5. CASE Lock!TakeWrite(t) \/ Lock!TakeRead(t)
  BY <1>2, <1>3, <1>5 DEF Lock!TypeOK, Lock!TakeWrite, Lock!TakeRead, Lock!Locations
<1>6. CASE Lock!SetWrite(t) \/ Lock!ReleaseWrite(t) \/ Lock!SetReader(t) \/ Lock!ClearRead(t)
  BY <1>1, <1>2, <1>6 DEF Lock!TypeOK, Lock!SetWrite, Lock!ReleaseWrite, Lock!SetReader,
                          Lock!ClearRead, Lock!Locations, Lock!FlagLock, Lock!FlagRead, Lock!OneReader
<1>7. CASE Lock!AddReader(t)
  BY <1>1, <1>2, <1>7 DEF Lock!TypeOK, Lock!AddReader, Lock!Locations, Lock!OneReader
<1>8. CASE Lock!ReleaseRead(t)
  BY <1>1, <1>2, <1>8 DEF Lock!TypeOK, Lock!ReleaseRead, Lock!Locations, Lock!OneReader
<1>9. CASE Lock!JoinReaders(t)
  BY <1>2, <1>3, <1>9 DEF Lock!TypeOK, Lock!JoinReaders, Lock!Locations
<1> QED
  BY <1>4, <1>5, <1>6, <1>7, <1>8, <1>9 DEF WordStep

(* The invariant of the lock word, see RWLock, holds inside the mutex. *)
LEMMA WordOwner ==
    ASSUME Setting, LockInv, NEW t \in Threads, WordStep(t)
    PROVE  Lock!OwnerDeterminesWord'
<1> USE SameUsers DEF LockInv
<1>1. CASE Lock!CallWrite(t)
  BY <1>1 DEF Lock!CallWrite, Lock!Goto, Lock!TypeOK, Lock!OwnerDeterminesWord, Lock!Owner
<1>2. CASE Lock!CallRead(t)
  BY <1>2 DEF Lock!CallRead, Lock!Goto, Lock!TypeOK, Lock!OwnerDeterminesWord, Lock!Owner
<1>3. CASE Lock!TakeWrite(t) \/ Lock!TakeRead(t)
  <2>1. ~met => \A u \in Threads : ~Lock!Owner(u)
    BY <1>3, FlagFacts DEF Lock!TakeWrite, Lock!TakeRead, Lock!TypeOK, Lock!OwnerDeterminesWord
  <2>2. ~met => value = 0 /\ value' = Lock!FlagLock
    BY <1>3, <2>1, FlagFacts DEF Lock!TakeWrite, Lock!TakeRead, Lock!OwnerDeterminesWord
  <2>3. CASE Lock!TakeWrite(t)
    BY <2>1, <2>2, <2>3 DEF Lock!TakeWrite, Lock!Goto, Lock!TypeOK, Lock!OwnerDeterminesWord,
                            Lock!Owner, Lock!WordAt
  <2>4. CASE Lock!TakeRead(t)
    BY <2>1, <2>2, <2>4 DEF Lock!TakeRead, Lock!Goto, Lock!TypeOK, Lock!OwnerDeterminesWord,
                            Lock!Owner, Lock!WordAt
  <2> QED
    BY <1>3, <2>3, <2>4
<1>4. CASE Lock!SetWrite(t) \/ Lock!ReleaseWrite(t)
  BY <1>4 DEF Lock!SetWrite, Lock!ReleaseWrite, Lock!Goto, Lock!TypeOK,
              Lock!OwnerDeterminesWord, Lock!Owner, Lock!WordAt
<1>5. CASE Lock!SetReader(t) \/ Lock!ClearRead(t)
  BY <1>5 DEF Lock!SetReader, Lock!ClearRead, Lock!Goto, Lock!TypeOK,
              Lock!OwnerDeterminesWord, Lock!Owner, Lock!WordAt
<1>6. CASE Lock!ReleaseRead(t)
  <2>1. CASE met
    BY <1>6, <2>1 DEF Lock!ReleaseRead, Lock!Goto, Lock!TypeOK, Lock!OwnerDeterminesWord
  <2>2. CASE ~met
    <3>1. value = 7
      BY <1>6, <2>2 DEF Lock!ReleaseRead, Lock!OwnerDeterminesWord, Lock!Owner, Lock!WordAt,
                        Lock!FlagLock, Lock!FlagRead, Lock!OneReader
    <3>2. (value - Lock!OneReader) % WordSize = 3
      BY <3>1 DEF Lock!OneReader, Setting
    <3>3. value' = 3 /\ lockpc' = [lockpc EXCEPT ![t] = "clear_read"]
      BY <1>6, <3>2 DEF Lock!ReleaseRead, Lock!Goto, Lock!FlagLock, Lock!FlagRead
    <3> QED
      BY <1>6, <2>2, <3>3 DEF Lock!ReleaseRead, Lock!TypeOK, Lock!OwnerDeterminesWord,
                              Lock!Owner, Lock!WordAt, Lock!FlagLock, Lock!FlagRead
  <2> QED
    BY <2>1, <2>2
<1>7. CASE Lock!JoinReaders(t) \/ Lock!AddReader(t)
  BY <1>7 DEF Lock!JoinReaders, Lock!AddReader, Lock!Goto, Lock!TypeOK, Lock!OwnerDeterminesWord
<1> QED
  BY <1>1, <1>2, <1>3, <1>4, <1>5, <1>6, <1>7 DEF WordStep

-----------------------------------------------------------------------------
Types ==
    /\ pc \in [Threads -> Locations]
    /\ owns \in SUBSET Threads
    /\ holder \in Threads \cup {NoThread}
    /\ sleeping \in Seq(Threads)

\* The list of mutex->event: its threads are asleep, each is there once, and a
\* thread that is asleep is there.
Listed ==
    /\ \A i \in 1 .. Len(sleeping) : pc[sleeping[i]] = "asleep"
    /\ \A i, j \in 1 .. Len(sleeping) : sleeping[i] = sleeping[j] => i = j
    /\ \A t \in Threads : pc[t] = "asleep" => \E i \in 1 .. Len(sleeping) : sleeping[i] = t

\* The locations between the look at mutex->holder and the release of the lock.
Inside == {"take", "unlock_taken", "unlock_wait", "unlock_released", "unlock_deleted"}

\* A thread has the mutex from the store of mutex->holder to the store of NULL.
Has(t) == t \in owns \/ pc[t] \in {"unlock_taken", "release"}

(* A thread at one of the locations Inside is the writer of mutex->lock; a  *)
(* thread that owns the mutex is in none of the functions that change the   *)
(* holder; and, until two queries meet, mutex->holder is the thread that    *)
(* has the mutex, and NULL when a thread is about to take it.               *)
HolderIsRight ==
    /\ \A t \in Threads : pc[t] \in Inside => lockpc[t] = "write"
    /\ \A t \in owns : pc[t] \in {"idle", "exit", "query", "delete", "unlock_deleted"}
    /\ ~met => \A t \in Threads :
                  /\ pc[t] = "take" => holder = NoThread
                  /\ Has(t) => holder = t

(* A step that neither puts a thread to sleep nor wakes one. *)
LEMMA ListKept ==
    ASSUME Types, Listed, NEW t \in Threads, NEW l \in Locations, Goto(t, l),
           pc[t] # "asleep", l # "asleep", sleeping' = sleeping
    PROVE  Listed'
<1>1. \A u \in Threads : pc'[u] = IF u = t THEN l ELSE pc[u]
  BY DEF Types, Goto
<1>2. \A i \in 1 .. Len(sleeping) : sleeping[i] \in Threads
  BY DEF Types
<1> QED
  BY <1>1, <1>2 DEF Listed

(* event_await appends the thread. *)
LEMMA ListAwait ==
    ASSUME Types, Listed, NEW t \in Threads, Await(t)
    PROVE  Listed' /\ sleeping' \in Seq(Threads)
<1>1. /\ \A u \in Threads : pc'[u] = IF u = t THEN "asleep" ELSE pc[u]
      /\ pc[t] = "await" /\ sleeping' = Append(sleeping, t) /\ sleeping \in Seq(Threads)
  BY DEF Types, Await, Goto
<1> DEFINE n == Len(sleeping)
<1>2. /\ n \in Nat /\ Len(sleeping') = n + 1 /\ sleeping'[n + 1] = t
      /\ \A i \in 1 .. n : sleeping'[i] = sleeping[i] /\ sleeping[i] \in Threads
      /\ sleeping' \in Seq(Threads)
  BY <1>1
<1>3. \A i \in 1 .. n : sleeping[i] # t
  BY <1>1 DEF Listed
<1> HIDE DEF n
<1>4. \A i \in 1 .. n + 1 : i = n + 1 \/ i \in 1 .. n
  BY <1>2
<1>5. \A i \in 1 .. n + 1 : pc'[sleeping'[i]] = "asleep"
  BY <1>1, <1>2, <1>4 DEF Listed, n
<1>6. \A i, j \in 1 .. n + 1 : sleeping'[i] = sleeping'[j] => i = j
  BY <1>2, <1>3, <1>4 DEF Listed, n
<1>7. ASSUME NEW u \in Threads, pc'[u] = "asleep"
      PROVE  \E i \in 1 .. n + 1 : sleeping'[i] = u
  <2>1. CASE u = t
    BY <1>2, <2>1
  <2>2. CASE u # t
    <3>1. PICK i \in 1 .. n : sleeping[i] = u
      BY <1>1, <1>7, <2>2 DEF Listed, n
    <3>2. i \in 1 .. n + 1
      BY <1>2
    <3> QED
      BY <1>2, <3>1, <3>2
  <2> QED
    BY <2>1, <2>2
<1> QED
  BY <1>2, <1>5, <1>6, <1>7 DEF Listed

(* event_dispatch takes the first thread off the list and wakes it. *)
LEMMA ListDispatch ==
    ASSUME Types, Listed, NEW t \in Threads, Dispatch(t), sleeping # <<>>
    PROVE  /\ Listed' /\ sleeping' \in Seq(Threads)
           /\ Head(sleeping) \in Threads /\ pc[Head(sleeping)] = "asleep"
           /\ \A u \in Threads : pc'[u] = IF u = Head(sleeping) THEN "woken"
                                          ELSE IF u = t THEN "exit" ELSE pc[u]
<1> DEFINE n == Len(sleeping)
           h == Head(sleeping)
<1>1. /\ sleeping' = Tail(sleeping) /\ sleeping \in Seq(Threads)
      /\ pc' = [pc EXCEPT ![t] = "exit", ![Head(sleeping)] = "woken"] /\ pc[t] = "dispatch"
  BY DEF Types, Dispatch
<1>2. /\ n \in Nat /\ n > 0 /\ h = sleeping[1] /\ Len(sleeping') = n - 1
      /\ \A i \in 1 .. n - 1 : sleeping'[i] = sleeping[i + 1]
      /\ \A i \in 1 .. n : sleeping[i] \in Threads
      /\ sleeping' \in Seq(Threads)
  BY <1>1
<1>3. h \in Threads /\ pc[h] = "asleep"
  BY <1>2 DEF Listed
<1>4. \A u \in Threads : pc'[u] = IF u = h THEN "woken" ELSE IF u = t THEN "exit" ELSE pc[u]
  BY <1>1, <1>3 DEF Types
<1> HIDE DEF n, h
<1>5. \A i \in 1 .. n - 1 : i + 1 \in 1 .. n /\ i + 1 # 1
  BY <1>2
<1>6. \A i \in 1 .. n - 1 : sleeping[i + 1] # h /\ sleeping[i + 1] # t
  BY <1>1, <1>2, <1>5 DEF Listed, n
<1>7. \A i \in 1 .. n - 1 : pc'[sleeping'[i]] = "asleep"
  BY <1>2, <1>4, <1>5, <1>6 DEF Listed, n
<1>8. \A i, j \in 1 .. n - 1 : sleeping'[i] = sleeping'[j] => i = j
  <2> TAKE i, j \in 1 .. n - 1
  <2>1. i + 1 = j + 1 => i = j
    BY <1>2
  <2> QED
    BY <1>2, <1>5, <2>1 DEF Listed, n
<1>9. ASSUME NEW u \in Threads, pc'[u] = "asleep"
      PROVE  \E i \in 1 .. n - 1 : sleeping'[i] = u
  <2>1. u # h /\ pc[u] = "asleep"
    BY <1>4, <1>9
  <2>2. PICK i \in 1 .. n : sleeping[i] = u
    BY <2>1 DEF Listed, n
  <2>3. i - 1 \in 1 .. n - 1 /\ (i - 1) + 1 = i
    BY <1>2, <2>1, <2>2
  <2>4. sleeping'[i - 1] = u
    BY <1>2, <2>2, <2>3
  <2> QED
    BY <2>3, <2>4
<1> QED
  BY <1>2, <1>3, <1>4, <1>7, <1>8, <1>9 DEF Listed, h

-----------------------------------------------------------------------------
(* Until two queries meet, mutex->lock has one writer. *)
LEMMA OneWriter ==
    ASSUME Setting, LockInv, ~met, NEW t \in Threads, NEW u \in Threads,
           lockpc[t] = "write", lockpc[u] = "write"
    PROVE  t = u
BY SameUsers DEF LockInv, Lock!OwnerDeterminesWord, Lock!Owner

(* A step of the word by t leaves the other threads' places in the lock     *)
(* alone, leaves the write side only with its release, and does not make    *)
(* readers that have met forget it.                                         *)
LEMMA WordFrame ==
    ASSUME Setting, LockInv, NEW t \in Threads, WordStep(t)
    PROVE  /\ \A u \in Threads : u # t => lockpc'[u] = lockpc[u]
           /\ lockpc[t] = "write" => Lock!ReleaseWrite(t)
           /\ met => met'
BY SameUsers
   DEF LockInv, Lock!TypeOK, WordStep, Lock!Goto, Lock!CallWrite, Lock!TakeWrite, Lock!SetWrite,
       Lock!ReleaseWrite, Lock!CallRead, Lock!TakeRead, Lock!SetReader, Lock!JoinReaders,
       Lock!AddReader, Lock!ReleaseRead, Lock!ClearRead

LEMMA WordKeepsInv ==
    ASSUME Setting, LockInv, NEW t \in Threads, WordStep(t) \/ UNCHANGED lockVars
    PROVE  LockInv'
<1>1. CASE WordStep(t)
  BY <1>1, WordTypes, WordOwner DEF LockInv
<1>2. CASE UNCHANGED lockVars
  BY <1>2 DEF LockInv, lockVars, Lock!TypeOK, Lock!OwnerDeterminesWord, Lock!Owner
<1> QED
  BY <1>1, <1>2

Inv == Types /\ LockInv /\ Listed /\ HolderIsRight

(* A step of a thread from l to m, neither of which is among the locations  *)
(* that HolderIsRight speaks of, or at which the thread keeps its place.    *)
LEMMA HolderKept ==
    ASSUME Types, HolderIsRight, NEW t \in Threads, NEW m \in Locations, Goto(t, m),
           UNCHANGED <<holder, owns>>, met => met',
           \A u \in Threads : u # t => lockpc'[u] = lockpc[u],
           m \in Inside => lockpc'[t] = "write",
           t \in owns => m \in {"idle", "exit", "query", "delete", "unlock_deleted"},
           m = "take" => holder = NoThread,
           m \in {"unlock_taken", "release"} => pc[t] \in {"unlock_taken", "release"}
    PROVE  HolderIsRight'
<1>1. \A u \in Threads : pc'[u] = IF u = t THEN m ELSE pc[u]
  BY DEF Types, Goto
<1>2. \A u \in Threads : pc'[u] \in Inside => lockpc'[u] = "write"
  BY <1>1 DEF HolderIsRight
<1>3. \A u \in owns' : pc'[u] \in {"idle", "exit", "query", "delete", "unlock_deleted"}
  BY <1>1 DEF HolderIsRight, Types
<1>4. ASSUME ~met', NEW u \in Threads
      PROVE  (pc'[u] = "take" => holder' = NoThread) /\ (Has(u)' => holder' = u)
  BY <1>1, <1>4 DEF HolderIsRight, Has
<1> QED
  BY <1>2, <1>3, <1>4 DEF HolderIsRight

(* The invariant is kept by the steps that only move the thread on. *)
LEMMA PlainStep ==
    ASSUME Setting, Inv, NEW t \in Threads,
           \/ Exit(t) \/ CallAcquire(t) \/ Test(t) \/ UnlockWait(t) \/ Reacquire(t)
           \/ UnlockReleased(t) \/ CallQuery(t) \/ Query(t)
           \/ CallDelete(t) \/ MarkDeleted(t) \/ UnlockDeleted(t)
    PROVE  Inv'
<1> DEFINE Quiet == {"idle", "exit", "acquire", "query", "delete", "await", "dispatch"}
<1>1. PICK m \in Locations :
         /\ Goto(t, m) /\ UNCHANGED <<holder, owns, sleeping>>
         /\ WordStep(t) \/ UNCHANGED lockVars
         /\ pc[t] # "asleep"
         /\ \/ m \in Quiet /\ (t \in owns => m \in {"idle", "exit", "query", "delete"})
            \/ m = "take" /\ holder = NoThread /\ lockpc[t] = "write" /\ t \notin owns
                          /\ UNCHANGED lockVars
            \/ m = "unlock_wait" /\ lockpc[t] = "write" /\ t \notin owns /\ UNCHANGED lockVars
            \/ m = "unlock_deleted" /\ lockpc[t] = "write" /\ UNCHANGED lockVars
  <2>1. t \in owns => pc[t] \in {"idle", "exit", "query", "delete", "unlock_deleted"}
    BY Zenon DEF Inv, HolderIsRight
  <2>2. CASE Exit(t)
    BY <2>2 DEF Exit, Locations, lockVars
  <2>3. CASE CallAcquire(t)
    BY <2>3, Zenon DEF CallAcquire, Enter, Locations, WordStep
  <2>4. CASE Test(t)
    BY <2>1, <2>4, Zenon DEF Test, Locations, lockVars
  <2>5. CASE UnlockWait(t)
    BY <2>1, <2>5, Zenon DEF UnlockWait, Locations, WordStep
  <2>6. CASE Reacquire(t)
    BY <2>1, <2>6 DEF Reacquire, Locations, WordStep
  <2>7. CASE UnlockReleased(t)
    BY <2>1, <2>7 DEF UnlockReleased, Locations, WordStep
  <2>8. CASE CallQuery(t)
    BY <2>8, Zenon DEF CallQuery, Enter, Locations, WordStep
  <2>9. CASE Query(t)
    BY <2>9, Zenon DEF Query, Locations, WordStep
  <2>10. CASE CallDelete(t)
    BY <2>10, Zenon DEF CallDelete, Enter, Locations, WordStep
  <2>11. CASE MarkDeleted(t)
    BY <2>11 DEF MarkDeleted, Locations, lockVars
  <2>12. CASE UnlockDeleted(t)
    BY <2>12, Zenon DEF UnlockDeleted, Locations, WordStep
  <2> QED
    BY <2>2, <2>3, <2>4, <2>5, <2>6, <2>7, <2>8, <2>9, <2>10, <2>11, <2>12, Zenon
<1>2. m \notin {"asleep", "unlock_taken", "release", "unlock_released", "woken"}
  BY <1>1
<1>3. LockInv'
  BY <1>1, WordKeepsInv DEF Inv
<1>4. /\ \A u \in Threads : u # t => lockpc'[u] = lockpc[u]
      /\ met => met'
  BY <1>1, WordFrame DEF Inv, lockVars
<1>5. Types'
  BY <1>1 DEF Inv, Types, Goto
<1>6. Listed'
  BY <1>1, <1>2, ListKept DEF Inv
<1>7. /\ m \in Inside => lockpc'[t] = "write"
      /\ t \in owns => m \in {"idle", "exit", "query", "delete", "unlock_deleted"}
      /\ m = "take" => holder = NoThread
  BY <1>1 DEF Inside, lockVars
<1>8. HolderIsRight'
  BY <1>1, <1>2, <1>4, <1>7, HolderKept DEF Inv
<1> QED
  BY <1>3, <1>5, <1>6, <1>8 DEF Inv

(* The steps inside the functions of mutex->lock. *)
LEMMA LockStepKeeps ==
    ASSUME Setting, Inv, NEW t \in Threads, LockStep(t)
    PROVE  Inv'
<1>1. WordStep(t) /\ ~Lock!ReleaseWrite(t) /\ UNCHANGED <<holder, sleeping, pc, owns>>
  <2>1. WordStep(t) /\ UNCHANGED <<holder, sleeping, pc, owns>>
    BY DEF LockStep, WordStep
  <2>2. lockpc[t] # "write" \/ lockpc'[t] # "idle"
    BY SameUsers
       DEF LockStep, Inv, LockInv, Lock!TypeOK, Lock!TakeWrite, Lock!SetWrite, Lock!TakeRead,
           Lock!SetReader, Lock!JoinReaders, Lock!AddReader, Lock!ClearRead
  <2>3. Lock!ReleaseWrite(t) => lockpc[t] = "write" /\ lockpc'[t] = "idle"
    BY SameUsers DEF Inv, LockInv, Lock!TypeOK, Lock!ReleaseWrite, Lock!Goto
  <2> QED
    BY <2>1, <2>2, <2>3
<1>2. /\ \A u \in Threads : u # t => lockpc'[u] = lockpc[u]
      /\ met => met'
      /\ lockpc[t] # "write"
  BY <1>1, WordFrame DEF Inv
<1>3. LockInv'
  BY <1>1, WordKeepsInv DEF Inv
<1>4. Types' /\ Listed'
  BY <1>1 DEF Inv, Types, Listed
<1>5. HolderIsRight'
  BY <1>1, <1>2 DEF Inv, HolderIsRight, Has
<1> QED
  BY <1>3, <1>4, <1>5 DEF Inv

(* The steps of mutex_acquire and mutex_release that change who has the     *)
(* mutex: t is the only writer of mutex->lock in the two stores.            *)
LEMMA TakeKeeps ==
    ASSUME Setting, Inv, NEW t \in Threads, Take(t)
    PROVE  Inv'
<1>1. /\ pc[t] = "take" /\ holder' = t /\ Goto(t, "unlock_taken")
      /\ UNCHANGED lockVars /\ UNCHANGED <<value, lockpc, met, sleeping, owns>>
  BY DEF Take, lockVars
<1>2. /\ Types' /\ \A u \in Threads : pc'[u] = IF u = t THEN "unlock_taken" ELSE pc[u]
  BY <1>1 DEF Inv, Types, Goto, Locations
<1>3. Listed' /\ LockInv'
  BY <1>1, ListKept, WordKeepsInv DEF Inv, Locations
<1>4. lockpc[t] = "write" /\ t \notin owns
  BY <1>1 DEF Inv, HolderIsRight, Inside
<1>5. ASSUME ~met', NEW u \in Threads
      PROVE  (pc'[u] = "take" => holder' = NoThread) /\ (Has(u)' => holder' = u)
  <2>1. CASE u = t
    BY <1>1, <1>2, <2>1
  <2>2. CASE u # t
    <3>1. ~met /\ pc'[u] = pc[u] /\ owns' = owns
      BY <1>1, <1>2, <1>5, <2>2
    <3>2. pc[u] # "take"
      BY <1>4, <2>2, <3>1, OneWriter DEF Inv, HolderIsRight, Inside
    <3>3. ~Has(u)
      BY <1>1, <3>1 DEF Inv, HolderIsRight, Setting
    <3> QED
      BY <3>1, <3>2, <3>3 DEF Has
  <2> QED
    BY <2>1, <2>2
<1>6. HolderIsRight'
  <2>1. \A u \in Threads : pc'[u] \in Inside => lockpc'[u] = "write"
    BY <1>1, <1>2, <1>4 DEF Inv, HolderIsRight
  <2>2. \A u \in owns' : pc'[u] \in {"idle", "exit", "query", "delete", "unlock_deleted"}
    BY <1>1, <1>2, <1>4 DEF Inv, HolderIsRight, Types
  <2> QED
    BY <1>5, <2>1, <2>2 DEF HolderIsRight
<1> QED
  BY <1>2, <1>3, <1>6 DEF Inv

LEMMA UnlockTakenKeeps ==
    ASSUME Setting, Inv, NEW t \in Threads, UnlockTaken(t)
    PROVE  Inv'
<1>1. /\ pc[t] = "unlock_taken" /\ owns' = owns \cup {t} /\ Goto(t, "exit")
      /\ WordStep(t) /\ UNCHANGED <<holder, sleeping>>
  BY DEF UnlockTaken, WordStep
<1>2. /\ Types' /\ \A u \in Threads : pc'[u] = IF u = t THEN "exit" ELSE pc[u]
  BY <1>1 DEF Inv, Types, Goto, Locations
<1>3. Listed' /\ LockInv'
  BY <1>1, ListKept, WordKeepsInv DEF Inv, Locations
<1>4. /\ \A u \in Threads : u # t => lockpc'[u] = lockpc[u]
      /\ met => met'
  BY <1>1, WordFrame DEF Inv
<1>5. \A u \in Threads : pc'[u] \in Inside => lockpc'[u] = "write"
  BY <1>2, <1>4 DEF Inv, HolderIsRight, Inside
<1>6. \A u \in owns' : pc'[u] \in {"idle", "exit", "query", "delete", "unlock_deleted"}
  BY <1>1, <1>2 DEF Inv, HolderIsRight, Types
<1>7. \A u \in Threads : Has(u)' => Has(u)
  BY <1>1, <1>2 DEF Has
<1>8. HolderIsRight'
  BY <1>1, <1>2, <1>4, <1>5, <1>6, <1>7 DEF Inv, HolderIsRight
<1> QED
  BY <1>2, <1>3, <1>8 DEF Inv

LEMMA CallReleaseKeeps ==
    ASSUME Setting, Inv, NEW t \in Threads, CallRelease(t)
    PROVE  Inv'
<1>1. /\ pc[t] = "idle" /\ t \in owns /\ owns' = owns \ {t} /\ Goto(t, "release")
      /\ WordStep(t) /\ UNCHANGED <<holder, sleeping>>
  BY DEF CallRelease, Enter, WordStep
<1>2. /\ Types' /\ \A u \in Threads : pc'[u] = IF u = t THEN "release" ELSE pc[u]
  BY <1>1 DEF Inv, Types, Goto, Locations
<1>3. Listed' /\ LockInv'
  BY <1>1, ListKept, WordKeepsInv DEF Inv, Locations
<1>4. /\ \A u \in Threads : u # t => lockpc'[u] = lockpc[u]
      /\ met => met'
  BY <1>1, WordFrame DEF Inv
<1>5. \A u \in Threads : pc'[u] \in Inside => lockpc'[u] = "write"
  BY <1>2, <1>4 DEF Inv, HolderIsRight, Inside
<1>6. \A u \in owns' : pc'[u] \in {"idle", "exit", "query", "delete", "unlock_deleted"}
  BY <1>1, <1>2 DEF Inv, HolderIsRight, Types
<1>7. \A u \in Threads : Has(u)' => Has(u)
  BY <1>1, <1>2 DEF Has
<1>8. HolderIsRight'
  BY <1>1, <1>2, <1>4, <1>5, <1>6, <1>7 DEF Inv, HolderIsRight
<1> QED
  BY <1>2, <1>3, <1>8 DEF Inv

LEMMA ClearHolderKeeps ==
    ASSUME Setting, Inv, NEW t \in Threads, ClearHolder(t)
    PROVE  Inv'
<1>1. /\ pc[t] = "release" /\ lockpc[t] = "write" /\ holder' = NoThread
      /\ Goto(t, "unlock_released")
      /\ UNCHANGED lockVars /\ UNCHANGED <<value, lockpc, met, sleeping, owns>>
  BY DEF ClearHolder, lockVars
<1>2. /\ Types' /\ \A u \in Threads : pc'[u] = IF u = t THEN "unlock_released" ELSE pc[u]
  BY <1>1 DEF Inv, Types, Goto, Locations
<1>3. Listed' /\ LockInv'
  BY <1>1, ListKept, WordKeepsInv DEF Inv, Locations
<1>4. \A u \in Threads : pc'[u] \in Inside => lockpc'[u] = "write"
  BY <1>1, <1>2 DEF Inv, HolderIsRight
<1>5. \A u \in owns' : pc'[u] \in {"idle", "exit", "query", "delete", "unlock_deleted"}
  BY <1>1, <1>2 DEF Inv, HolderIsRight, Types
<1>6. t \notin owns
  BY <1>1 DEF Inv, HolderIsRight
<1>7. ASSUME ~met', NEW u \in Threads PROVE ~Has(u)'
  <2>1. holder = t /\ (Has(u) => holder = u)
    BY <1>1, <1>7 DEF Inv, HolderIsRight, Has
  <2> QED
    BY <1>1, <1>2, <1>6, <2>1 DEF Has
<1>8. HolderIsRight'
  BY <1>1, <1>4, <1>5, <1>7 DEF HolderIsRight
<1> QED
  BY <1>2, <1>3, <1>8 DEF Inv

(* A thread goes to sleep on mutex->event, or is woken. *)
LEMMA AwaitKeeps ==
    ASSUME Setting, Inv, NEW t \in Threads, Await(t)
    PROVE  Inv'
<1>1. /\ pc[t] = "await" /\ Goto(t, "asleep")
      /\ UNCHANGED lockVars /\ UNCHANGED <<value, lockpc, met, holder, owns>>
  BY DEF Await, lockVars
<1>2. Listed' /\ sleeping' \in Seq(Threads)
  BY ListAwait DEF Inv
<1>3. Types'
  BY <1>1, <1>2 DEF Inv, Types, Goto, Locations
<1>4. t \notin owns
  BY <1>1 DEF Inv, HolderIsRight
<1>5. HolderIsRight'
  BY <1>1, <1>4, HolderKept DEF Inv, Inside, Locations
<1>6. LockInv'
  BY <1>1, WordKeepsInv DEF Inv
<1> QED
  BY <1>2, <1>3, <1>5, <1>6 DEF Inv

LEMMA DispatchKeeps ==
    ASSUME Setting, Inv, NEW t \in Threads, Dispatch(t)
    PROVE  Inv'
<1>1. /\ pc[t] = "dispatch"
      /\ UNCHANGED lockVars /\ UNCHANGED <<value, lockpc, met, holder, owns>>
  BY DEF Dispatch, lockVars
<1>2. LockInv'
  BY <1>1, WordKeepsInv DEF Inv
<1>3. CASE sleeping = <<>>
  <2>1. Goto(t, "exit") /\ sleeping' = sleeping
    BY <1>3 DEF Dispatch
  <2>2. Types'
    BY <1>1, <2>1 DEF Inv, Types, Goto, Locations
  <2>3. Listed'
    BY <1>1, <2>1, ListKept DEF Inv, Locations
  <2>4. HolderIsRight'
    BY <1>1, <2>1, HolderKept DEF Inv, Inside, Locations
  <2> QED
    BY <1>2, <2>2, <2>3, <2>4 DEF Inv
<1>4. CASE sleeping # <<>>
  <2> DEFINE h == Head(sleeping)
  <2>1. /\ Listed' /\ sleeping' \in Seq(Threads) /\ h \in Threads /\ pc[h] = "asleep"
        /\ \A u \in Threads : pc'[u] = IF u = h THEN "woken"
                                       ELSE IF u = t THEN "exit" ELSE pc[u]
    BY <1>4, ListDispatch DEF Inv
  <2>2. pc' = [pc EXCEPT ![t] = "exit", ![h] = "woken"]
    BY <1>4 DEF Dispatch
  <2> HIDE DEF h
  <2>3. Types'
    BY <1>1, <2>1, <2>2 DEF Inv, Types, Locations
  <2>4. h \notin owns
    BY <2>1 DEF Inv, HolderIsRight
  <2>5. HolderIsRight'
    BY <1>1, <2>1, <2>4 DEF Inv, HolderIsRight, Types, Inside, Has
  <2> QED
    BY <1>2, <2>1, <2>3, <2>5 DEF Inv
<1> QED
  BY <1>3, <1>4

LEMMA InvInitial == ASSUME Setting, Init PROVE Inv
<1>1. LockInv
  <2>1. value = 0 /\ lockpc = [t \in Lock!Users |-> "idle"] /\ met = FALSE
    BY DEF Init, Lock!Init
  <2>2. value \in 0 .. WordSize - 1 /\ lockpc \in [Lock!Users -> Lock!Locations]
    BY <2>1 DEF Setting, Lock!Locations
  <2>3. met \in BOOLEAN
    BY <2>1, Zenon
  <2>4. Lock!OwnerDeterminesWord
    BY <2>1 DEF Lock!OwnerDeterminesWord, Lock!Owner
  <2> QED
    BY <2>2, <2>3, <2>4 DEF LockInv, Lock!TypeOK
<1>2. Types /\ Listed
  BY DEF Init, Types, Listed, Locations
<1>3. HolderIsRight
  BY DEF Init, HolderIsRight, Inside, Has
<1> QED
  BY <1>1, <1>2, <1>3 DEF Inv

LEMMA InvInductive == ASSUME Setting, Inv, [Next]_vars PROVE Inv'
<1>1. CASE UNCHANGED vars
  <2>1. UNCHANGED <<value, lockpc, met, holder, sleeping, pc, owns>> /\ UNCHANGED lockVars
    BY <1>1 DEF vars, lockVars
  <2>2. Types' /\ Listed' /\ HolderIsRight'
    BY <2>1 DEF Inv, Types, Listed, HolderIsRight, Has
  <2>3. LockInv'
    BY <2>1 DEF Inv, LockInv, Lock!TypeOK, Lock!OwnerDeterminesWord, Lock!Owner
  <2> QED
    BY <2>2, <2>3 DEF Inv
<1>2. ASSUME NEW t \in Threads,
             \/ LockStep(t) \/ Exit(t)
             \/ CallAcquire(t) \/ Test(t) \/ Take(t) \/ UnlockTaken(t) \/ UnlockWait(t)
             \/ Await(t) \/ Reacquire(t)
             \/ CallRelease(t) \/ ClearHolder(t) \/ UnlockReleased(t) \/ Dispatch(t)
             \/ CallQuery(t) \/ Query(t)
             \/ CallDelete(t) \/ MarkDeleted(t) \/ UnlockDeleted(t)
      PROVE  Inv'
  BY <1>2, LockStepKeeps, PlainStep, TakeKeeps, UnlockTakenKeeps, AwaitKeeps,
     CallReleaseKeeps, ClearHolderKeeps, DispatchKeeps
<1> QED
  BY <1>1, <1>2 DEF Next

(* The inductive invariant holds in every state: mutex->holder, the threads *)
(* between the two lock sections and the list of sleepers agree.            *)
THEOREM InductiveInvariant == ASSUME Setting PROVE Spec => []Inv
BY InvInitial, InvInductive, PTL DEF Spec

(* mutex_release does not panic on a thread that acquired the mutex, until  *)
(* two queries for the holder meet in mutex->lock.                          *)
THEOREM ReleaseByHolder == ASSUME Setting PROVE Spec => []HolderReleases
<1>1. Inv => HolderReleases
  BY DEF Inv, HolderIsRight, Has, HolderReleases, NoWrongRelease
<1> QED
  BY <1>1, InductiveInvariant, PTL

(* A thread that sleeps in mutex_acquire is on mutex->event exactly once,   *)
(* and no other thread is, for any number of sleepers.                      *)
THEOREM SleepersListed == ASSUME Setting PROVE Spec => []SleepersAreListed
<1>1. ASSUME Inv PROVE SleepersAreListed
  <2> SUFFICES ASSUME NEW t \in Threads
               PROVE  LET places == {i \in DOMAIN sleeping : sleeping[i] = t} IN
                      IF pc[t] = "asleep" THEN \E i \in places : places = {i} ELSE places = {}
    BY Zenon DEF SleepersAreListed
  <2>1. DOMAIN sleeping = 1 .. Len(sleeping)
    BY <1>1 DEF Inv, Types
  <2>2. CASE pc[t] = "asleep"
    <3>1. PICK i \in 1 .. Len(sleeping) : sleeping[i] = t
      BY <1>1, <2>2 DEF Inv, Listed
    <3>2. {j \in DOMAIN sleeping : sleeping[j] = t} = {i}
      BY <1>1, <2>1, <3>1 DEF Inv, Listed
    <3> QED
      BY <2>2, <3>2
  <2>3. CASE pc[t] # "asleep"
    BY <1>1, <2>1, <2>3 DEF Inv, Listed
  <2> QED
    BY <2>2, <2>3
<1> QED
  BY <1>1, InductiveInvariant, PTL

-----------------------------------------------------------------------------
\* Exclusive's variable writers.
Owners == IF met THEN {} ELSE owns

(* A step of the mutex is a step of the lock word or leaves it alone. *)
LEMMA StepKinds ==
    ASSUME [Next]_vars
    PROVE  \/ UNCHANGED vars \/ UNCHANGED lockVars
           \/ \E t \in Threads : WordStep(t)
<1>1. ASSUME NEW t \in Threads,
             \/ LockStep(t) \/ CallAcquire(t) \/ UnlockTaken(t) \/ UnlockWait(t) \/ Reacquire(t)
             \/ CallRelease(t) \/ UnlockReleased(t) \/ CallQuery(t) \/ Query(t)
             \/ CallDelete(t) \/ UnlockDeleted(t)
      PROVE  WordStep(t)
  BY <1>1, Zenon
     DEF WordStep, LockStep, CallAcquire, UnlockTaken, UnlockWait, Reacquire,
         CallRelease, UnlockReleased, CallQuery, Query, CallDelete, UnlockDeleted
<1>2. ASSUME NEW t \in Threads,
             \/ Exit(t) \/ Test(t) \/ Take(t) \/ Await(t) \/ ClearHolder(t) \/ Dispatch(t)
             \/ MarkDeleted(t)
      PROVE  UNCHANGED lockVars
  BY <1>2 DEF Exit, Test, Take, Await, ClearHolder, Dispatch, MarkDeleted
<1> QED
  BY <1>1, <1>2 DEF Next

(* A step of the mutex is a step of the abstract lock or leaves it alone. *)
LEMMA StepExclusive ==
    ASSUME Setting, Inv, [Next]_vars
    PROVE  [Exclusive!Next]_<<Owners, {}>>
<1>1. ASSUME ~met, NEW t \in owns, NEW u \in owns PROVE t = u
  BY <1>1 DEF Inv, HolderIsRight, Has, Types
<1>2. met => met'
  <2>1. CASE UNCHANGED vars
    BY <2>1 DEF vars, lockVars
  <2>2. ASSUME NEW t \in Threads, WordStep(t) PROVE met => met'
    BY <2>2, WordFrame DEF Inv
  <2>3. CASE UNCHANGED lockVars
    BY <2>3 DEF lockVars
  <2> QED
    BY <2>1, <2>2, <2>3, StepKinds
<1>3. CASE met
  BY <1>2, <1>3 DEF Owners
<1>4. CASE ~met /\ met'
  <2>1. Owners = owns /\ Owners' = {}
    BY <1>4 DEF Owners
  <2>2. ASSUME NEW t \in owns PROVE Owners' = Owners \ {t} /\ t \in Threads
    BY <1>1, <1>4, <2>1 DEF Inv, Types
  <2>3. CASE owns = {}
    BY <2>1, <2>3
  <2>4. ASSUME NEW t \in owns PROVE [Exclusive!Next]_<<Owners, {}>>
    <3>1. Exclusive!LeaveWrite(t) /\ t \in Threads
      BY <2>1, <2>2, Zenon DEF Exclusive!LeaveWrite, Owners
    <3> QED
      BY <3>1 DEF Exclusive!Next
  <2> QED
    BY <2>3, <2>4
<1>5. CASE ~met /\ ~met'
  <2>1. Owners = owns /\ Owners' = owns'
    BY <1>5 DEF Owners
  <2>2. CASE owns' = owns
    BY <2>1, <2>2
  <2>3. ASSUME NEW t \in Threads, UnlockTaken(t)
        PROVE  [Exclusive!Next]_<<Owners, {}>>
    <3>1. owns' = owns \cup {t} /\ pc[t] = "unlock_taken"
      BY <2>3 DEF UnlockTaken
    <3>2. owns = {}
      <4>1. holder = t /\ t \notin owns
        BY <1>5, <3>1 DEF Inv, HolderIsRight, Has
      <4>2. \A u \in owns : holder = u
        BY <1>5 DEF Inv, HolderIsRight, Has, Types
      <4> QED
        BY <4>1, <4>2
    <3>3. Exclusive!EnterWrite(t)
      BY <2>1, <3>1, <3>2 DEF Exclusive!EnterWrite, Owners
    <3> QED
      BY <3>3 DEF Exclusive!Next
  <2>4. ASSUME NEW t \in Threads, CallRelease(t)
        PROVE  [Exclusive!Next]_<<Owners, {}>>
    <3>1. owns' = owns \ {t} /\ t \in owns
      BY <2>4 DEF CallRelease
    <3>2. Exclusive!LeaveWrite(t)
      BY <2>1, <3>1 DEF Exclusive!LeaveWrite, Owners
    <3> QED
      BY <3>2 DEF Exclusive!Next
  <2> QED
    BY <2>2, <2>3, <2>4
       DEF Next, vars, LockStep, Exit, CallAcquire, Test, Take, UnlockWait, Await, Reacquire,
           ClearHolder, UnlockReleased, Dispatch, CallQuery, Query, CallDelete, MarkDeleted,
           UnlockDeleted
<1> QED
  BY <1>3, <1>4, <1>5

(* The mutex implements an exclusive lock for any number of threads, until  *)
(* two queries for its holder meet in mutex->lock: no interleaving of the   *)
(* acquisitions' two lock sections, of the wake-ups and of the lock word's  *)
(* instructions lets two threads return from mutex_acquire.                 *)
THEOREM Refinement == ASSUME Setting PROVE Spec => ImplementsExclusiveLock
<1>1. Init => Exclusive!Init
  BY DEF Init, Lock!Init, Exclusive!Init
<1>2. Inv /\ [Next]_vars => [Exclusive!Next]_<<IF met THEN {} ELSE owns, {}>>
  BY StepExclusive DEF Owners
<1> QED
  BY <1>1, <1>2, InductiveInvariant, PTL DEF Spec, ImplementsExclusiveLock, Exclusive!Spec

-----------------------------------------------------------------------------
\* The threads inside a system call, each of which has a reference.
Busy == {t \in Threads : pc[t] # "idle"}

(* The count of the handle is exact: one reference for each call in         *)
(* progress and one until the mutex is deleted.                             *)
Counted ==
    /\ isDeleted \in BOOLEAN /\ gone \in BOOLEAN
    /\ rc = Cardinality(Busy) + (IF isDeleted THEN 0 ELSE 1)
    /\ gone => rc = 0

LEMMA BusyFinite ==
    ASSUME IsFiniteSet(Threads)
    PROVE  IsFiniteSet(Busy) /\ Cardinality(Busy) \in Nat
<1>1. Busy \in SUBSET Threads
  BY DEF Busy
<1> QED
  BY <1>1, FS_Subset, FS_CardinalityType

LEMMA OneMore ==
    ASSUME NEW S, NEW T, NEW x, IsFiniteSet(S), T = S \cup {x}, x \notin S
    PROVE  Cardinality(T) = Cardinality(S) + 1
BY FS_AddElement

LEMMA OneLess ==
    ASSUME NEW S, NEW T, NEW x, IsFiniteSet(S), T = S \ {x}, x \in S
    PROVE  Cardinality(T) = Cardinality(S) - 1
BY FS_RemoveElement

LEMMA CountedStep ==
    ASSUME Setting, IsFiniteSet(Threads), Inv, Counted, [Next]_vars
    PROVE  Counted'
<1>0. Cardinality(Busy) \in Nat /\ IsFiniteSet(Busy)
  BY BusyFinite
<1>1. ASSUME NEW t \in Threads, NEW l \in Locations \ {"idle"}, Enter(t), Goto(t, l)
      PROVE  Counted'
  <2>1. Busy' = Busy \cup {t} /\ t \notin Busy
    BY <1>1 DEF Enter, Goto, Busy, Inv, Types
  <2>2. Cardinality(Busy)' = Cardinality(Busy) + 1
    BY <1>0, <2>1, OneMore
  <2>3. rc' = rc + 1 /\ isDeleted' = isDeleted /\ gone' = gone /\ ~gone
    BY <1>1 DEF Enter
  <2> QED
    BY <1>0, <2>2, <2>3 DEF Counted
<1>2. ASSUME NEW t \in Threads, Exit(t) PROVE Counted'
  <2>1. Busy' = Busy \ {t} /\ t \in Busy
    BY <1>2 DEF Exit, Goto, Busy, Inv, Types
  <2>2. Cardinality(Busy)' = Cardinality(Busy) - 1
    BY <1>0, <2>1, OneLess
  <2>3. rc' = rc - 1 /\ isDeleted' = isDeleted /\ gone' = (rc = 1)
    BY <1>2 DEF Exit
  <2>4. gone' \in BOOLEAN /\ (gone' => rc = 1)
    BY <2>3, Zenon
  <2> QED
    BY <1>0, <2>2, <2>3, <2>4 DEF Counted
<1>3. ASSUME NEW t \in Threads, MarkDeleted(t) PROVE Counted'
  <2>1. Busy' = Busy /\ t \in Busy
    BY <1>3 DEF MarkDeleted, Goto, Busy, Inv, Types
  <2>2. Cardinality(Busy) # 0
    BY <1>0, <2>1, FS_EmptySet
  <2>3. /\ rc' = (IF isDeleted THEN rc ELSE rc - 1)
        /\ isDeleted' = TRUE /\ gone' = gone
    BY <1>3 DEF MarkDeleted
  <2> QED
    BY <1>0, <2>1, <2>2, <2>3 DEF Counted
<1>4. ASSUME UNCHANGED handleVars, Busy' = Busy PROVE Counted'
  BY <1>4 DEF Counted, handleVars
<1>5. ASSUME NEW t \in Threads, NEW l \in Locations \ {"idle"}, pc[t] # "idle", Goto(t, l)
      PROVE  Busy' = Busy
  BY <1>5 DEF Goto, Busy, Inv, Types
<1>6. CASE UNCHANGED vars
  BY <1>4, <1>6 DEF vars, Busy
<1>7. ASSUME NEW t \in Threads, LockStep(t) PROVE Counted'
  BY <1>4, <1>7 DEF LockStep, Busy
<1>8. ASSUME NEW t \in Threads, CallAcquire(t) \/ CallRelease(t) \/ CallQuery(t) \/ CallDelete(t)
      PROVE  Counted'
  BY <1>1, <1>8 DEF CallAcquire, CallRelease, CallQuery, CallDelete, Locations
<1>9. ASSUME NEW t \in Threads,
             \/ Test(t) \/ Take(t) \/ UnlockTaken(t) \/ UnlockWait(t) \/ Await(t) \/ Reacquire(t)
             \/ ClearHolder(t) \/ UnlockReleased(t) \/ Query(t) \/ UnlockDeleted(t)
      PROVE  Counted'
  <2>1. UNCHANGED handleVars
    BY <1>9, Zenon DEF Test, Take, UnlockTaken, UnlockWait, Await, Reacquire, ClearHolder,
                UnlockReleased, Query, UnlockDeleted
  <2>2. \E l \in Locations \ {"idle"} : pc[t] # "idle" /\ Goto(t, l)
    BY <1>9, Zenon DEF Test, Take, UnlockTaken, UnlockWait, Await, Reacquire, ClearHolder,
                UnlockReleased, Query, UnlockDeleted, Locations
  <2> QED
    BY <1>4, <1>5, <2>1, <2>2, Zenon
<1>10. ASSUME NEW t \in Threads, Dispatch(t) PROVE Counted'
  <2>1. UNCHANGED handleVars /\ pc[t] = "dispatch"
    BY <1>10 DEF Dispatch
  <2>2. CASE sleeping = <<>>
    BY <1>4, <1>5, <1>10, <2>1, <2>2 DEF Dispatch, Locations
  <2>3. CASE sleeping # <<>>
    <3>1. /\ pc[Head(sleeping)] = "asleep"
          /\ \A u \in Threads : pc'[u] = IF u = Head(sleeping) THEN "woken"
                                         ELSE IF u = t THEN "exit" ELSE pc[u]
      BY <1>10, <2>3, ListDispatch DEF Inv
    <3>2. Busy' = Busy
      BY <2>1, <3>1 DEF Busy
    <3> QED
      BY <1>4, <2>1, <3>2
  <2> QED
    BY <2>2, <2>3
<1> QED
  BY <1>2, <1>3, <1>6, <1>7, <1>8, <1>9, <1>10 DEF Next

(* No call in progress outlives the mutex, a sleeping one included: its     *)
(* destructor runs only after syscall_mutex_delete and the return of every  *)
(* call, for any finite number of threads.                                  *)
THEOREM CallsKeepMutex ==
    ASSUME Setting, IsFiniteSet(Threads)
    PROVE  Spec => []NoUseAfterDelete
<1>1. Init => Counted
  <2> SUFFICES ASSUME Init PROVE Counted
    OBVIOUS
  <2>1. Busy = {} /\ rc = 1 /\ isDeleted = FALSE /\ gone = FALSE
    BY DEF Init, Busy
  <2>2. isDeleted \in BOOLEAN /\ gone \in BOOLEAN
    BY <2>1, Zenon
  <2> QED
    BY <2>1, <2>2, FS_EmptySet DEF Counted
<1>2. Inv /\ Counted /\ [Next]_vars => Counted'
  BY CountedStep
<1>3. Counted => NoUseAfterDelete
  <2> SUFFICES ASSUME Counted, gone PROVE \A t \in Threads : pc[t] = "idle"
    BY Zenon DEF NoUseAfterDelete
  <2>1. Cardinality(Busy) = 0
    BY BusyFinite DEF Counted
  <2>2. Busy = {}
    BY <2>1, BusyFinite, FS_EmptySet
  <2> QED
    BY <2>2 DEF Busy
<1> QED
  BY <1>1, <1>2, <1>3, InductiveInvariant, PTL DEF Spec

-----------------------------------------------------------------------------
OneQuerier == \A t, u \in Queriers : t = u

(* With one querier at most no two queries meet: a reader finds another one *)
(* in the word only while that one owns the word.                           *)
LEMMA NoMeeting ==
    ASSUME Setting, OneQuerier, Inv, ~met, [Next]_vars
    PROVE  ~met'
<1> USE SameUsers
<1>1. ASSUME NEW t \in Threads, Lock!JoinReaders(t) PROVE FALSE
  <2>1. PICK u \in Threads : Lock!Owner(u)
    BY <1>1, FlagFacts DEF Lock!JoinReaders, Inv, LockInv, Lock!OwnerDeterminesWord
  <2>2. lockpc[u] \in {"read", "clear_read"}
    BY <1>1, <2>1, FlagFacts
       DEF Lock!JoinReaders, Inv, LockInv, Lock!TypeOK, Lock!OwnerDeterminesWord
  <2>3. u = t
    BY <1>1, <2>2 DEF OneQuerier, Lock!JoinReaders, Inv, LockInv, Lock!OwnerDeterminesWord
  <2> QED
    BY <1>1, <2>2, <2>3 DEF Lock!JoinReaders
<1>2. CASE UNCHANGED vars \/ UNCHANGED lockVars
  BY <1>2 DEF vars, lockVars
<1>3. ASSUME NEW t \in Threads, WordStep(t) PROVE ~met'
  BY <1>1, <1>3
     DEF WordStep, Lock!CallWrite, Lock!TakeWrite, Lock!SetWrite, Lock!ReleaseWrite,
         Lock!CallRead, Lock!TakeRead, Lock!SetReader, Lock!AddReader, Lock!ReleaseRead,
         Lock!ClearRead
<1> QED
  BY <1>2, <1>3, StepKinds

(* With one querier at most, mutex_release never panics on a thread that    *)
(* acquired the mutex.                                                      *)
THEOREM ReleaseNeverPanics ==
    ASSUME Setting, OneQuerier
    PROVE  Spec => []NoWrongRelease
<1>1. Init => ~met
  BY DEF Init, Lock!Init
<1>2. Inv /\ ~met /\ [Next]_vars => ~met'
  BY NoMeeting
<1>3. Spec => []~met
  BY <1>1, <1>2, InductiveInvariant, PTL DEF Spec
<1>4. HolderReleases /\ ~met => NoWrongRelease
  BY DEF HolderReleases
<1> QED
  BY <1>3, <1>4, ReleaseByHolder, PTL

=============================================================================
