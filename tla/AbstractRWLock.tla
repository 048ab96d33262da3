--------------------------- MODULE AbstractRWLock ---------------------------
(***************************************************************************)
(* What the users of an rwlock_t rely on: a critical section that is held  *)
(* either by one writer or by a set of readers.  Which thread gets it, and *)
(* when, is left open.                                                     *)
(***************************************************************************)
CONSTANTS Writers, Readers

VARIABLES writers,   \* the threads inside as writers
          readers    \* the threads inside as readers

Init == writers = {} /\ readers = {}

EnterWrite(t) ==
    /\ writers = {} /\ readers = {}
    /\ writers' = {t}
    /\ UNCHANGED readers

LeaveWrite(t) ==
    /\ t \in writers
    /\ writers' = writers \ {t}
    /\ UNCHANGED readers

EnterRead(t) ==
    /\ writers = {}
    /\ readers' = readers \cup {t}
    /\ UNCHANGED writers

LeaveRead(t) ==
    /\ t \in readers
    /\ readers' = readers \ {t}
    /\ UNCHANGED writers

Next ==
    \/ \E t \in Writers : EnterWrite(t) \/ LeaveWrite(t)
    \/ \E t \in Readers : EnterRead(t) \/ LeaveRead(t)

Spec == Init /\ [][Next]_<<writers, readers>>
=============================================================================
