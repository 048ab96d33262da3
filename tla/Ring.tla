-------------------------------- MODULE Ring --------------------------------
(***************************************************************************)
(* The bounded ring of pointers (kernel/ring/ring.c) that carries network  *)
(* and socket packets.  Readers share read_lock and writers share          *)
(* write_lock, but nothing keeps a reader from running beside a writer:    *)
(* the two counters are atomic variables, each changed by both sides, and  *)
(* each access to them is a step.                                          *)
(*                                                                         *)
(* The items are numbered in the order in which they are stored.           *)
(***************************************************************************)
EXTENDS EventQueue, Integers

CONSTANTS Readers, Writers, None,
          Peekers,       \* the readers that also call ring_peek
          Capacity,      \* ring->capacity, a power of two
          MaxItems       \* bound on the number of items pushed

VARIABLES
    buffer,                     \* the Capacity pointers ring->buffer has room for
    read_index, write_index,
    read_count, write_count,
    read_lock, write_lock,      \* the thread that holds the lock, or None
    read_event, write_event,
    pc,
    received,                   \* the items ring_pop has returned, in order
    peeked                      \* history: the last ring_peek returned the next item

counters == <<read_count, write_count>>
locks == <<read_lock, write_lock>>
events == <<read_event, write_event>>
vars == <<buffer, read_index, write_index, counters, locks, events, pc, received, peeked>>

Slots == 0 .. Capacity - 1
Items == 1 .. MaxItems
Threads == Readers \cup Writers

Goto(t, l) == pc' = [pc EXCEPT ![t] = l]
GotoAndWake(t, l, woken) ==
    pc' = [u \in Threads |->
              IF u = t THEN l
              ELSE IF u \in woken THEN IF u \in Readers THEN "pop" ELSE "push"
              ELSE pc[u]]

\* ring->buffer[i]: beyond the end of the buffer lies memory of somebody else.
\* A store there does not reach the ring, and a load may return anything.
Loads(i) == IF i \in Slots THEN {buffer[i]} ELSE Items \cup {None}
Store(i, item) == IF i \in Slots THEN [buffer EXCEPT ![i] = item] ELSE buffer

-----------------------------------------------------------------------------
(* ring_init *)
Init ==
    /\ buffer = [i \in Slots |-> None]
    /\ read_index = 0 /\ write_index = 0
    /\ read_count = 0 /\ write_count = Capacity
    /\ read_lock = None /\ write_lock = None
    /\ read_event = NewEvent
    /\ write_event = SetActive(NewEvent, TRUE)
    /\ pc = [t \in Threads |-> "idle"]
    /\ received = <<>>
    /\ peeked = TRUE

(* The calls: ring_push, ring_pop and ring_peek. *)
Call(t) ==
    /\ pc[t] = "idle"
    /\ \/ t \in Readers /\ Goto(t, "pop")
       \/ t \in Writers /\ Goto(t, "push")
    /\ UNCHANGED <<buffer, read_index, write_index, counters, locks, events, received, peeked>>

(* _get_item up to the test of read_count *)
GetItem(t) ==
    /\ pc[t] = "pop"
    /\ read_lock = None
    /\ IF read_count = 0
       THEN Goto(t, "await_read") /\ UNCHANGED read_lock
       ELSE Goto(t, "take") /\ read_lock' = t
    /\ UNCHANGED <<buffer, read_index, write_index, counters, write_lock, events, received, peeked>>

\* Faulty variant: a thread that finds an active event sleeps all the same.
AwaitReadAlways(t) ==
    /\ pc[t] = "await_read"
    /\ Goto(t, "asleep")
    /\ read_event' = Sleep(read_event, t)
    /\ UNCHANGED <<buffer, read_index, write_index, counters, locks, write_event, received, peeked>>

AwaitRead(t) ==
    /\ pc[t] = "await_read"
    /\ IF MustSleep(read_event)
       THEN Goto(t, "asleep") /\ read_event' = Sleep(read_event, t)
       ELSE Goto(t, "pop") /\ UNCHANGED read_event
    /\ UNCHANGED <<buffer, read_index, write_index, counters, locks, write_event, received, peeked>>

(* ring_peek of a ring that is not empty.  (Without waiting, ring_pop and *)
(* ring_peek of an empty ring and ring_push to a full one change nothing.) *)
Peek(t) ==
    /\ pc[t] = "idle" /\ t \in Readers \cap Peekers
    /\ read_lock = None
    /\ read_count > 0
    /\ \E item \in Loads(read_index) : peeked' = (item = Len(received) + 1)
    /\ UNCHANGED <<buffer, read_index, write_index, counters, locks, events, pc, received>>

\* Faulty variant: the index stays where it is.
TakeInPlace(t) ==
    /\ pc[t] = "take"
    /\ \E item \in Loads(read_index) : received' = Append(received, item)
    /\ read_count' = read_count - 1
    /\ Goto(t, "free")
    /\ UNCHANGED <<buffer, read_index, write_index, write_count, locks, events, peeked>>

Take(t) ==
    /\ pc[t] = "take"
    /\ \E item \in Loads(read_index) : received' = Append(received, item)
    /\ read_index' = read_index + 1
    /\ read_count' = read_count - 1
    /\ Goto(t, "free")
    /\ UNCHANGED <<buffer, write_index, write_count, locks, events, peeked>>

FreeSlot(t) ==
    /\ pc[t] = "free"
    /\ write_count' = write_count + 1
    /\ Goto(t, "test_empty")
    /\ UNCHANGED <<buffer, read_index, write_index, read_count, locks, events, received, peeked>>

TestEmpty(t) ==
    /\ pc[t] = "test_empty"
    /\ Goto(t, IF read_count = 0 THEN "clear_read" ELSE "wake_writer")
    /\ UNCHANGED <<buffer, read_index, write_index, counters, locks, events, received, peeked>>

ClearRead(t) ==
    /\ pc[t] = "clear_read"
    /\ read_event' = SetActive(read_event, FALSE)
    /\ Goto(t, "wake_writer")
    /\ UNCHANGED <<buffer, read_index, write_index, counters, locks, write_event, received, peeked>>

WakeWriter(t) ==
    /\ pc[t] = "wake_writer"
    /\ GotoAndWake(t, "idle", WokenFirst(write_event))
    /\ write_event' = DispatchFirst(write_event)
    /\ read_lock' = None
    /\ UNCHANGED <<buffer, read_index, write_index, counters, write_lock, read_event, received, peeked>>

-----------------------------------------------------------------------------
(* ring_push *)
TestRoom(t) ==
    /\ pc[t] = "push"
    /\ write_lock = None
    /\ write_index < MaxItems
    /\ IF write_count = 0
       THEN Goto(t, "await_write") /\ UNCHANGED write_lock
       ELSE Goto(t, "put") /\ write_lock' = t
    /\ UNCHANGED <<buffer, read_index, write_index, counters, read_lock, events, received, peeked>>

AwaitWrite(t) ==
    /\ pc[t] = "await_write"
    /\ IF MustSleep(write_event)
       THEN Goto(t, "asleep") /\ write_event' = Sleep(write_event, t)
       ELSE Goto(t, "push") /\ UNCHANGED write_event
    /\ UNCHANGED <<buffer, read_index, write_index, counters, locks, read_event, received, peeked>>

Put(t) ==
    /\ pc[t] = "put"
    /\ buffer' = Store(write_index, write_index + 1)
    /\ write_index' = write_index + 1
    /\ read_count' = read_count + 1
    /\ Goto(t, "use_slot")
    /\ UNCHANGED <<read_index, write_count, locks, events, received, peeked>>

UseSlot(t) ==
    /\ pc[t] = "use_slot"
    /\ write_count' = write_count - 1
    /\ Goto(t, "test_full")
    /\ UNCHANGED <<buffer, read_index, write_index, read_count, locks, events, received, peeked>>

TestFull(t) ==
    /\ pc[t] = "test_full"
    /\ Goto(t, IF write_count = 0 THEN "clear_write" ELSE "wake_reader")
    /\ UNCHANGED <<buffer, read_index, write_index, counters, locks, events, received, peeked>>

ClearWrite(t) ==
    /\ pc[t] = "clear_write"
    /\ write_event' = SetActive(write_event, FALSE)
    /\ Goto(t, "wake_reader")
    /\ UNCHANGED <<buffer, read_index, write_index, counters, locks, read_event, received, peeked>>

WakeReader(t) ==
    /\ pc[t] = "wake_reader"
    /\ GotoAndWake(t, "idle", WokenFirst(read_event))
    /\ read_event' = DispatchFirst(read_event)
    /\ write_lock' = None
    /\ UNCHANGED <<buffer, read_index, write_index, counters, read_lock, write_event, received, peeked>>

-----------------------------------------------------------------------------
Proceed(t) ==
    \/ GetItem(t) \/ AwaitRead(t) \/ Take(t) \/ FreeSlot(t)
    \/ TestEmpty(t) \/ ClearRead(t) \/ WakeWriter(t)
    \/ TestRoom(t) \/ AwaitWrite(t) \/ Put(t) \/ UseSlot(t)
    \/ TestFull(t) \/ ClearWrite(t) \/ WakeReader(t)

Next == \E t \in Threads : Call(t) \/ Peek(t) \/ Proceed(t)

Spec == Init /\ [][Next]_vars

\* A thread inside a call goes on, and the threads that use the ring come back
\* to it: the network's threads loop over ring_pop.
FairSpec ==
    /\ Spec
    /\ \A t \in Threads : WF_vars(Proceed(t))
    /\ \A t \in Readers : WF_vars(Call(t))

-----------------------------------------------------------------------------
Locations == {"idle", "asleep", "pop", "await_read", "take", "free", "test_empty", "clear_read",
              "wake_writer", "push", "await_write", "put", "use_slot", "test_full",
              "clear_write", "wake_reader"}

(* Neither counter goes below 0 or above the capacity, except that         *)
(* write_count is one too large while a reader has already returned the    *)
(* slot of an item whose writer has yet to count it.                       *)
TypeOK ==
    /\ buffer \in [Slots -> Items \cup {None}]
    /\ read_index \in 0 .. MaxItems /\ write_index \in 0 .. MaxItems
    /\ read_count \in 0 .. Capacity /\ write_count \in 0 .. Capacity + 1
    /\ write_count > Capacity => \E t \in Writers : pc[t] = "use_slot"
    /\ read_lock \in Readers \cup {None} /\ write_lock \in Writers \cup {None}
    /\ pc \in [Threads -> Locations]

(* ring_pop returns the items in the order in which ring_push stored them, *)
(* and ring_peek returned the item that was next.                          *)
InOrder ==
    /\ \A i \in 1 .. Len(received) : received[i] = i
    /\ peeked

(* The items are returned in order as long as the indices lie within the   *)
(* buffer, whatever the interleaving of pops, peeks and pushes.            *)
InOrderInBuffer == write_index <= Capacity => InOrder

(* Not all sleep over work: while every reader sleeps, an item is in the   *)
(* ring only if the writer that will wake a reader is on its way (and the  *)
(* same for writers and room).                                             *)
NoSleepOverWork ==
    /\ read_count > 0 /\ (\A t \in Readers : pc[t] = "asleep") =>
          \E t \in Writers : pc[t] \in {"use_slot", "test_full", "clear_write", "wake_reader"}
    /\ write_count > 0 /\ (\A t \in Writers : pc[t] = "asleep") =>
          \E t \in Readers : pc[t] \in {"test_empty", "clear_read", "wake_writer"}

(* Every item that has been pushed is popped in the end: again and again    *)
(* nothing is left in the ring.                                             *)
NothingLeft == write_index = Len(received)

Delivered == []<>NothingLeft

=============================================================================
