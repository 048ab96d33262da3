------------------------------- MODULE RWLock -------------------------------
(***************************************************************************)
(* The kernel's spinning reader/writer lock (kernel/lock/rwlock.c): one    *)
(* 32-bit word, changed by separate atomic instructions.  Every atomic     *)
(* instruction of the code is a step of its own, so every interleaving of  *)
(* the CPUs that share a lock is a behaviour of Spec.                      *)
(*                                                                         *)
(* A thread of Writers uses the write side of the lock, a thread of        *)
(* Readers the read side; the two sets may overlap.                        *)
(***************************************************************************)
EXTENDS Integers, TLAPS

CONSTANTS Writers, Readers,
          WordSize         \* how many values the lock's word has, 2^32

\* The word has room for the two flags and at least one reader; the counter
\* takes up the whole of its upper part.
ASSUME WordSizeAssumption == WordSize \in Nat /\ WordSize >= 8 /\ WordSize % 4 = 0

VARIABLES value,   \* lock->value, an unsigned 32-bit word
          pc,      \* where each thread stands in the lock's functions
          met      \* auxiliary: a reader has found another reader in the lock

vars == <<value, pc, met>>

Users == Writers \cup Readers

\* The layout of the word: RWLOCK_LOCK_BIT is 0, RWLOCK_READ_BIT is 1, and the
\* readers are counted from RWLOCK_FIRST_COUNTER_BIT, bit 2, upwards.
FlagLock == 1
FlagRead == 2
OneReader == 4
HasLock(v) == v % 2 = 1
HasRead(v) == (v \div 2) % 2 = 1
OrLock(v) == IF HasLock(v) THEN v ELSE v + FlagLock

Locations == {"idle", "try_write", "spin_write", "set_write", "write",
              "spin_read", "add_reader", "set_reader", "read", "clear_read"}

Goto(t, l) == pc' = [pc EXCEPT ![t] = l]

-----------------------------------------------------------------------------
(* rwlock_init *)
Init ==
    /\ value = 0
    /\ pc = [t \in Users |-> "idle"]
    /\ met = FALSE

(* rwlock_acquire_write and rwlock_try_acquire_write: the call, the        *)
(* fetch_or that takes (or misses) bit 0, and the store that follows it.   *)
CallWrite(t) ==
    /\ t \in Writers
    /\ pc[t] = "idle"
    /\ Goto(t, "spin_write")
    /\ UNCHANGED <<value, met>>

CallTryWrite(t) ==
    /\ t \in Writers
    /\ pc[t] = "idle"
    /\ Goto(t, "try_write")
    /\ UNCHANGED <<value, met>>

\* Faulty variant: the result of the fetch_or is not tested.
TakeWriteUntested(t) ==
    /\ pc[t] \in {"spin_write", "try_write"}
    /\ value' = OrLock(value)
    /\ Goto(t, "set_write")
    /\ UNCHANGED met

TakeWrite(t) ==
    /\ pc[t] \in {"spin_write", "try_write"}
    /\ ~HasLock(value)
    /\ value' = OrLock(value)
    /\ Goto(t, "set_write")
    /\ UNCHANGED met

FailTryWrite(t) ==
    /\ pc[t] = "try_write"
    /\ HasLock(value)
    /\ Goto(t, "idle")
    /\ UNCHANGED <<value, met>>

SetWrite(t) ==
    /\ pc[t] = "set_write"
    /\ value' = FlagLock
    /\ Goto(t, "write")
    /\ UNCHANGED met

(* rwlock_release_write *)
ReleaseWrite(t) ==
    /\ pc[t] = "write"
    /\ value' = 0
    /\ Goto(t, "idle")
    /\ UNCHANGED met

-----------------------------------------------------------------------------
(* rwlock_acquire_read.  The fetch_or sets bit 0 whatever it finds; a      *)
(* reader that found bit 1 goes on to add itself, one that found bit 0     *)
(* clear goes on to store the word of a first reader.                      *)
CallRead(t) ==
    /\ t \in Readers
    /\ pc[t] = "idle"
    /\ Goto(t, "spin_read")
    /\ UNCHANGED <<value, met>>

JoinReaders(t) ==
    /\ pc[t] = "spin_read"
    /\ HasRead(value)
    /\ value' = OrLock(value)
    /\ Goto(t, "add_reader")
    /\ met' = TRUE

AddReader(t) ==
    /\ pc[t] = "add_reader"
    /\ value' = (value + OneReader) % WordSize
    /\ Goto(t, "read")
    /\ UNCHANGED met

\* Faulty variant: a first reader does not look at bit 0.
TakeReadUntested(t) ==
    /\ pc[t] = "spin_read"
    /\ ~HasRead(value)
    /\ value' = OrLock(value)
    /\ Goto(t, "set_reader")
    /\ UNCHANGED met

TakeRead(t) ==
    /\ pc[t] = "spin_read"
    /\ ~HasRead(value)
    /\ ~HasLock(value)
    /\ value' = OrLock(value)
    /\ Goto(t, "set_reader")
    /\ UNCHANGED met

SetReader(t) ==
    /\ pc[t] = "set_reader"
    /\ value' = FlagLock + FlagRead + OneReader
    /\ Goto(t, "read")
    /\ UNCHANGED met

(* rwlock_release_read: the last reader clears the word in a second step. *)
\* Faulty variant: the last reader does not clear the flags.
ReleaseReadKeepingFlags(t) ==
    /\ pc[t] = "read"
    /\ value' = (value - OneReader) % WordSize
    /\ Goto(t, "idle")
    /\ UNCHANGED met

ReleaseRead(t) ==
    /\ pc[t] = "read"
    /\ value' = (value - OneReader) % WordSize
    /\ Goto(t, IF value' = FlagLock + FlagRead THEN "clear_read" ELSE "idle")
    /\ UNCHANGED met

ClearRead(t) ==
    /\ pc[t] = "clear_read"
    /\ value' = 0
    /\ Goto(t, "idle")
    /\ UNCHANGED met

-----------------------------------------------------------------------------
\* The steps a thread takes once it is inside a function of the lock: it is
\* not preempted there (scheduler_pause), and a critical section ends.
Proceed(t) ==
    \/ TakeWrite(t) \/ FailTryWrite(t) \/ SetWrite(t) \/ ReleaseWrite(t)
    \/ JoinReaders(t) \/ AddReader(t) \/ TakeRead(t) \/ SetReader(t)
    \/ ReleaseRead(t) \/ ClearRead(t)

Next ==
    \E t \in Users : CallWrite(t) \/ CallTryWrite(t) \/ CallRead(t) \/ Proceed(t)

Spec == Init /\ [][Next]_vars

FairSpec == Spec /\ \A t \in Users : WF_vars(Proceed(t))

-----------------------------------------------------------------------------
(* The word is a 32-bit word and every thread is at a known location. *)
TypeOK ==
    /\ value \in 0 .. WordSize - 1
    /\ pc \in [Users -> Locations]
    /\ met \in BOOLEAN

Holding(t) == pc[t] \in {"write", "read"}

(* As long as no two readers have met, nobody else is inside the lock, as  *)
(* a writer or as a reader, while a thread is between acquire_write and    *)
(* release_write.  (A reader that joins others may be left with a word     *)
(* that says the lock is free, and the lock no longer excludes anybody.)   *)
WriterExclusion ==
    ~met => \A t, u \in Users :
                t # u /\ pc[t] = "write" => ~Holding(u)

(* No call leaks a flag of the word: whenever no thread is inside one of   *)
(* the lock's functions or critical sections, both flags are clear, so the *)
(* next caller finds a free lock.                                          *)
QuiescentLockIsFree ==
    (\A t \in Users : pc[t] = "idle") => ~HasLock(value) /\ ~HasRead(value)

(* Some waiting thread gets in: a thread that spins on the lock, or is     *)
(* between the instructions of its acquisition, which it leaves only by    *)
(* getting in, is never left with nobody ever entering the critical        *)
(* section.                                                                *)
SpinnersProgress ==
    []<>((\E t \in Users : pc[t] \in {"spin_write", "set_write", "spin_read", "add_reader", "set_reader"})
            => \E t \in Users : Holding(t))

(* The lock implements the abstract reader/writer lock until two readers   *)
(* meet: a thread is inside from the store that completes its acquisition  *)
(* to the instruction that starts its release.  From the meeting on the    *)
(* abstract lock is left unused.                                           *)
InWrite == IF met THEN {} ELSE {t \in Users : pc[t] = "write"}
InRead == IF met THEN {} ELSE {t \in Users : pc[t] = "read"}

Abstract == INSTANCE AbstractRWLock WITH writers <- InWrite, readers <- InRead

ImplementsRWLock == Abstract!Spec

-----------------------------------------------------------------------------
\* The locations at which a thread owns the word, and the word it finds there
\* as long as no two readers have met.
Owner(t) == pc[t] \in {"set_write", "write", "set_reader", "read", "clear_read"}

WordAt(l) ==
    IF l = "read" THEN FlagLock + FlagRead + OneReader
    ELSE IF l = "clear_read" THEN FlagLock + FlagRead
    ELSE FlagLock

(* The inductive invariant behind the exclusion: until two readers meet,   *)
(* at most one thread owns the word, the word is the one its owner stored, *)
(* and it is 0 when nobody owns it.  Each thread is on its own side of the *)
(* lock.                                                                   *)
OwnerDeterminesWord ==
    /\ \A t \in Users :
          /\ pc[t] \in {"try_write", "spin_write", "set_write", "write"} => t \in Writers
          /\ pc[t] \in {"spin_read", "add_reader", "set_reader", "read", "clear_read"} => t \in Readers
    /\ ~met =>
          /\ \A t \in Users : pc[t] # "add_reader"
          /\ \A t, u \in Users : Owner(t) /\ Owner(u) => t = u
          /\ \A t \in Users : Owner(t) => value = WordAt(pc[t])
          /\ (\A t \in Users : ~Owner(t)) => value = 0

-----------------------------------------------------------------------------
(***************************************************************************)
(* Proofs, for any sets of threads and any word size.                      *)
(*                                                                         *)
(* The exclusion theorems hold until two readers meet in the lock (met).   *)
(* The condition is needed: a reader that found bit 1 set may add itself   *)
(* after the last reader cleared the word.  MeetingNeedsTwo adds that they *)
(* never do when at most one thread uses the read side.                    *)
(***************************************************************************)
AtMostOneReader == \A t, u \in Readers : t = u

(* For any number of readers and writers, the word stays a word of the     *)
(* declared size and the program counters stay within the functions'       *)
(* locations.                                                              *)
THEOREM TypeCorrect == Spec => []TypeOK
<1>1. Init => TypeOK
  <2> SUFFICES ASSUME Init
               PROVE  TypeOK
    OBVIOUS
  <2>1. value \in 0 .. WordSize - 1 /\ pc \in [Users -> Locations]
    BY WordSizeAssumption DEF Init, Locations
  <2>2. met \in BOOLEAN
    BY Zenon DEF Init
  <2> QED
    BY <2>1, <2>2 DEF TypeOK
<1>2. TypeOK /\ [Next]_vars => TypeOK'
  <2> SUFFICES ASSUME TypeOK, [Next]_vars
               PROVE  TypeOK'
    OBVIOUS
  <2> USE WordSizeAssumption
  <2>1. CASE UNCHANGED vars
    BY <2>1 DEF TypeOK, vars
  <2>2. ASSUME NEW t \in Users, NEW l \in Locations, Goto(t, l)
        PROVE  pc' \in [Users -> Locations]
    BY <2>2 DEF TypeOK, Goto
  <2>3. OrLock(value) \in 0 .. WordSize - 1
    BY DEF TypeOK, OrLock, HasLock, FlagLock
  <2>4. ASSUME NEW t \in Users, CallWrite(t) \/ CallTryWrite(t) \/ CallRead(t) \/ Proceed(t)
        PROVE  TypeOK'
    <3>1. CASE CallWrite(t) \/ CallTryWrite(t) \/ CallRead(t) \/ FailTryWrite(t)
      BY <2>2, <3>1 DEF TypeOK, CallWrite, CallTryWrite, CallRead, FailTryWrite, Locations
    <3>2. CASE TakeWrite(t) \/ TakeRead(t) \/ JoinReaders(t)
      BY <2>2, <2>3, <3>2 DEF TypeOK, TakeWrite, TakeRead, JoinReaders, Locations
    <3>3. CASE SetWrite(t) \/ ReleaseWrite(t) \/ SetReader(t) \/ ClearRead(t)
      BY <2>2, <3>3 DEF TypeOK, SetWrite, ReleaseWrite, SetReader, ClearRead,
                        Locations, FlagLock, FlagRead, OneReader
    <3>4. CASE AddReader(t)
      BY <2>2, <3>4 DEF TypeOK, AddReader, Locations, OneReader
    <3>5. CASE ReleaseRead(t)
      BY <2>2, <3>5 DEF TypeOK, ReleaseRead, Locations, OneReader
    <3> QED
      BY <2>4, <3>1, <3>2, <3>3, <3>4, <3>5 DEF Proceed
  <2> QED
    BY <2>1, <2>4 DEF Next
<1> QED
  BY <1>1, <1>2, PTL DEF Spec

-----------------------------------------------------------------------------
(* What the tests of rwlock.c's two flags give for the words that occur.   *)
LEMMA FlagFacts ==
    /\ ~HasLock(0) /\ ~HasRead(0) /\ OrLock(0) = FlagLock
    /\ \A l \in Locations : HasLock(WordAt(l))
    /\ \A l \in Locations : HasRead(WordAt(l)) => l \in {"read", "clear_read"}
  BY DEF HasLock, HasRead, OrLock, WordAt, Locations, FlagLock, FlagRead, OneReader

(* OwnerDeterminesWord is inductive.                                       *)
LEMMA OwnerInductive ==
    ASSUME TypeOK, OwnerDeterminesWord, [Next]_vars
    PROVE  OwnerDeterminesWord'
<1>1. CASE UNCHANGED vars
  BY <1>1 DEF OwnerDeterminesWord, Owner, vars
<1>2. ASSUME NEW t \in Users, CallWrite(t) \/ CallTryWrite(t) \/ CallRead(t) \/ Proceed(t)
      PROVE  OwnerDeterminesWord'
  <2>1. CASE CallWrite(t) \/ CallTryWrite(t)
    BY <2>1 DEF CallWrite, CallTryWrite, Goto, TypeOK, OwnerDeterminesWord, Owner
  <2>2. CASE CallRead(t)
    BY <2>2 DEF CallRead, Goto, TypeOK, OwnerDeterminesWord, Owner
  <2>3. CASE FailTryWrite(t)
    BY <2>3 DEF FailTryWrite, Goto, TypeOK, OwnerDeterminesWord, Owner
  <2>4. CASE TakeWrite(t) \/ TakeRead(t)
    <3>1. ~met => \A u \in Users : ~Owner(u)
      BY <2>4, FlagFacts DEF TakeWrite, TakeRead, TypeOK, OwnerDeterminesWord
    <3>2. ~met => value = 0 /\ value' = FlagLock
      BY <2>4, <3>1, FlagFacts DEF TakeWrite, TakeRead, OwnerDeterminesWord
    <3>3. CASE TakeWrite(t)
      BY <3>1, <3>2, <3>3 DEF TakeWrite, Goto, TypeOK, OwnerDeterminesWord, Owner, WordAt
    <3>4. CASE TakeRead(t)
      BY <3>1, <3>2, <3>4 DEF TakeRead, Goto, TypeOK, OwnerDeterminesWord, Owner, WordAt
    <3> QED
      BY <2>4, <3>3, <3>4
  <2>5. CASE SetWrite(t) \/ ReleaseWrite(t)
    BY <2>5 DEF SetWrite, ReleaseWrite, Goto, TypeOK, OwnerDeterminesWord, Owner, WordAt
  <2>6. CASE SetReader(t) \/ ClearRead(t)
    BY <2>6 DEF SetReader, ClearRead, Goto, TypeOK, OwnerDeterminesWord, Owner, WordAt
  <2>7. CASE ReleaseRead(t)
    <3>1. CASE met
      BY <2>7, <3>1 DEF ReleaseRead, Goto, TypeOK, OwnerDeterminesWord
    <3>2. CASE ~met
      <4>1. value = 7
        BY <2>7, <3>2 DEF ReleaseRead, OwnerDeterminesWord, Owner, WordAt, FlagLock, FlagRead, OneReader
      <4>2. (value - OneReader) % WordSize = 3
        BY <4>1, WordSizeAssumption DEF OneReader
      <4>3. value' = 3 /\ pc' = [pc EXCEPT ![t] = "clear_read"]
        BY <2>7, <4>2 DEF ReleaseRead, Goto, FlagLock, FlagRead
      <4> QED
        BY <2>7, <3>2, <4>3 DEF ReleaseRead, TypeOK, OwnerDeterminesWord, Owner, WordAt,
                                FlagLock, FlagRead
    <3> QED
      BY <3>1, <3>2
  <2>8. CASE JoinReaders(t)
    BY <2>8 DEF JoinReaders, Goto, TypeOK, OwnerDeterminesWord
  <2>9. CASE AddReader(t)
    BY <2>9 DEF AddReader, Goto, TypeOK, OwnerDeterminesWord
  <2> QED
    BY <1>2, <2>1, <2>2, <2>3, <2>4, <2>5, <2>6, <2>7, <2>8, <2>9 DEF Proceed
<1> QED
  BY <1>1, <1>2 DEF Next

(* Until two readers meet, the word always tells who owns the lock, for    *)
(* any number of readers and writers.                                      *)
THEOREM OwnerInvariant == Spec => []OwnerDeterminesWord
<1>1. Init => OwnerDeterminesWord
  BY DEF Init, OwnerDeterminesWord, Owner
<1>2. TypeOK /\ OwnerDeterminesWord /\ [Next]_vars => OwnerDeterminesWord'
  BY OwnerInductive
<1> QED
  BY <1>1, <1>2, TypeCorrect, PTL DEF Spec

(* Until two readers meet, rwlock_acquire_write excludes everybody else    *)
(* until rwlock_release_write, for any number of readers and writers.      *)
THEOREM Exclusion == Spec => []WriterExclusion
<1>1. OwnerDeterminesWord => WriterExclusion
  BY DEF OwnerDeterminesWord, WriterExclusion, Owner, Holding
<1> QED
  BY <1>1, OwnerInvariant, PTL

(* A lock whose read side is used by one thread at most never sees two     *)
(* readers meet: there the theorems above hold without a condition.        *)
THEOREM MeetingNeedsTwo ==
    ASSUME AtMostOneReader
    PROVE  Spec => []~met
<1>1. Init => ~met
  BY DEF Init
<1>2. TypeOK /\ OwnerDeterminesWord /\ ~met /\ [Next]_vars => ~met'
  <2> SUFFICES ASSUME TypeOK, OwnerDeterminesWord, ~met, [Next]_vars
               PROVE  ~met'
    OBVIOUS
  <2>1. ASSUME NEW t \in Users, JoinReaders(t)
        PROVE  FALSE
    <3>1. PICK u \in Users : Owner(u)
      BY <2>1, FlagFacts DEF JoinReaders, OwnerDeterminesWord
    <3>2. pc[u] \in {"read", "clear_read"}
      BY <2>1, <3>1, FlagFacts DEF JoinReaders, TypeOK, OwnerDeterminesWord
    <3>3. u = t
      BY <2>1, <3>2, AtMostOneReader DEF AtMostOneReader, JoinReaders, OwnerDeterminesWord
    <3> QED
      BY <2>1, <3>2, <3>3 DEF JoinReaders
  <2> QED
    BY <2>1 DEF Next, Proceed, vars, CallWrite, CallTryWrite, CallRead, TakeWrite, FailTryWrite,
                SetWrite, ReleaseWrite, AddReader, TakeRead, SetReader, ReleaseRead, ClearRead
<1> QED
  BY <1>1, <1>2, TypeCorrect, OwnerInvariant, PTL DEF Spec

-----------------------------------------------------------------------------
(* A step of the lock is a step of the abstract lock or leaves it alone.   *)
LEMMA StepImplements ==
    ASSUME TypeOK, OwnerDeterminesWord, [Next]_vars
    PROVE  [Abstract!Next]_<<InWrite, InRead>>
<1> USE DEF InWrite, InRead
<1>1. CASE UNCHANGED vars
  BY <1>1 DEF vars
<1>2. CASE met
  <2>1. met'
    BY <1>2 DEF Next, Proceed, vars, CallWrite, CallTryWrite, CallRead, TakeWrite, FailTryWrite,
                SetWrite, ReleaseWrite, JoinReaders, AddReader, TakeRead, SetReader,
                ReleaseRead, ClearRead
  <2> QED
    BY <1>2, <2>1
<1>3. ASSUME ~met,
             NEW t \in Users, CallWrite(t) \/ CallTryWrite(t) \/ CallRead(t) \/ Proceed(t)
      PROVE  [Abstract!Next]_<<InWrite, InRead>>
  <2> USE <1>3
  <2>1. CASE CallWrite(t) \/ CallTryWrite(t) \/ CallRead(t) \/ FailTryWrite(t)
    BY <2>1 DEF CallWrite, CallTryWrite, CallRead, FailTryWrite, Goto, TypeOK
  <2>2. CASE TakeWrite(t) \/ TakeRead(t) \/ ClearRead(t)
    BY <2>2 DEF TakeWrite, TakeRead, ClearRead, Goto, TypeOK
  <2>3. CASE SetWrite(t)
    <3>1. t \in Writers /\ InWrite = {} /\ InRead = {}
      BY <2>3 DEF SetWrite, OwnerDeterminesWord, Owner
    <3>2. InWrite' = {t} /\ InRead' = {}
      BY <2>3, <3>1 DEF SetWrite, Goto, TypeOK
    <3> QED
      BY <3>1, <3>2 DEF Abstract!Next, Abstract!EnterWrite
  <2>4. CASE ReleaseWrite(t)
    <3>1. t \in Writers /\ t \in InWrite
      BY <2>4 DEF ReleaseWrite, OwnerDeterminesWord
    <3>2. InWrite' = InWrite \ {t} /\ InRead' = InRead
      BY <2>4, <3>1 DEF ReleaseWrite, Goto, TypeOK
    <3> QED
      BY <3>1, <3>2 DEF Abstract!Next, Abstract!LeaveWrite
  <2>5. CASE SetReader(t)
    <3>1. t \in Readers /\ InWrite = {}
      BY <2>5 DEF SetReader, OwnerDeterminesWord, Owner
    <3>2. InWrite' = InWrite /\ InRead' = InRead \cup {t}
      BY <2>5, <3>1 DEF SetReader, Goto, TypeOK
    <3> QED
      BY <3>1, <3>2 DEF Abstract!Next, Abstract!EnterRead
  <2>6. CASE ReleaseRead(t)
    <3>1. t \in Readers /\ t \in InRead
      BY <2>6 DEF ReleaseRead, OwnerDeterminesWord
    <3>2. InWrite' = InWrite /\ InRead' = InRead \ {t}
      BY <2>6, <3>1 DEF ReleaseRead, Goto, TypeOK
    <3> QED
      BY <3>1, <3>2 DEF Abstract!Next, Abstract!LeaveRead
  <2>7. ~AddReader(t)
    BY DEF AddReader, OwnerDeterminesWord
  <2>8. CASE JoinReaders(t)
    <3>1. PICK u \in Users : Owner(u)
      BY <2>8, FlagFacts DEF JoinReaders, OwnerDeterminesWord
    <3>2. u \in Readers /\ pc[u] \in {"read", "clear_read"}
      BY <2>8, <3>1, FlagFacts DEF JoinReaders, TypeOK, OwnerDeterminesWord
    <3>3. InWrite = {} /\ InRead \subseteq {u}
      BY <3>1, <3>2 DEF OwnerDeterminesWord, Owner
    <3>4. InWrite' = {} /\ InRead' = {}
      BY <2>8 DEF JoinReaders
    <3>5. CASE u \in InRead
      BY <3>2, <3>3, <3>4, <3>5 DEF Abstract!Next, Abstract!LeaveRead
    <3>6. CASE u \notin InRead
      BY <3>3, <3>4, <3>6
    <3> QED
      BY <3>5, <3>6
  <2> QED
    BY <1>3, <2>1, <2>2, <2>3, <2>4, <2>5, <2>6, <2>7, <2>8 DEF Proceed
<1> QED
  BY <1>1, <1>2, <1>3 DEF Next

(* The lock word implements the abstract reader/writer lock that the rest  *)
(* of the kernel relies on, until two readers meet.                        *)
THEOREM Refinement == Spec => ImplementsRWLock
<1>1. Init => Abstract!Init
  BY DEF Init, Abstract!Init, InWrite, InRead
<1>2. TypeOK /\ OwnerDeterminesWord /\ [Next]_vars
        => [Abstract!Next]_<<InWrite, InRead>>
  BY StepImplements
<1> QED
  BY <1>1, <1>2, TypeCorrect, OwnerInvariant, PTL DEF Spec, ImplementsRWLock, Abstract!Spec

=============================================================================
