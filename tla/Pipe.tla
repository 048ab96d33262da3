-------------------------------- MODULE Pipe --------------------------------
(***************************************************************************)
(* The byte pipe (kernel/pipe/pipe.c): a circular buffer under one lock,   *)
(* with an event for the readers and one for the writers.  What a call     *)
(* does under the lock is one step; between the test that fails and the    *)
(* wait for the event the lock is free.                                    *)
(*                                                                         *)
(* Bytes are numbered in the order in which they are written.              *)
(***************************************************************************)
EXTENDS EventQueue, Integers

CONSTANTS Readers, Writers,
          Closable,       \* whether somebody calls pipe_close
          Size,           \* PIPE_BUFFER_SIZE
          MaxBytes        \* bound on the number of bytes written

\* PIPE_BUFFER_SIZE is 0x100000, and is used as a mask.
ASSUME SizeAssumption == Size \in {2^n : n \in 1 .. 20}

VARIABLES
    buffer, write_offset, read_offset, is_full, is_closed,
    read_event, write_event,
    pc,
    sent,        \* the number of bytes written
    received,    \* the bytes returned by reads that were not peeks, in order
    peeked,      \* the bytes returned by the last peek, and their place
    eof          \* a read that may wait has returned 0

data == <<buffer, write_offset, read_offset, is_full>>
history == <<sent, received, peeked, eof>>
vars == <<data, is_closed, read_event, write_event, pc, history>>

Threads == Readers \cup Writers
Goto(t, l) == pc' = [pc EXCEPT ![t] = l]
GotoAndWake(t, l, woken) ==
    pc' = [u \in Threads |->
              IF u = t THEN l
              ELSE IF u \in woken THEN IF u \in Readers THEN "read" ELSE "write"
              ELSE pc[u]]

Smaller(m, n) == IF m < n THEN m ELSE n

-----------------------------------------------------------------------------
(* _pipe_create *)
Init ==
    /\ buffer = [i \in 0 .. Size - 1 |-> 0]
    /\ write_offset = 0 /\ read_offset = 0
    /\ is_full = FALSE /\ is_closed = FALSE
    /\ read_event = NewEvent
    /\ write_event = SetActive(NewEvent, TRUE)
    /\ pc = [t \in Threads |-> "idle"]
    /\ sent = 0 /\ received = <<>> /\ peeked = [place |-> 0, bytes |-> <<>>]
    /\ eof = FALSE

(* vfs_node_read and vfs_node_write with a size that is not 0.  (A call    *)
(* that may not wait and finds nothing to do changes nothing.)             *)
Call(t) ==
    /\ pc[t] = "idle"
    /\ Goto(t, IF t \in Readers THEN "read" ELSE "write")
    /\ UNCHANGED <<data, is_closed, read_event, write_event, history>>

IsEmpty == ~is_full /\ write_offset = read_offset

(* _pipe_read of an empty pipe *)
ReadNothing(t) ==
    /\ pc[t] = "read"
    /\ IsEmpty
    /\ IF is_closed
       THEN Goto(t, "idle") /\ eof' = TRUE
       ELSE Goto(t, "await_read") /\ UNCHANGED eof
    /\ UNCHANGED <<data, is_closed, read_event, write_event, sent, received, peeked>>

\* Faulty variant: a reader sleeps although the event is active.
AwaitReadAlways(t) ==
    /\ pc[t] = "await_read"
    /\ Goto(t, "asleep") /\ read_event' = Sleep(read_event, t)
    /\ UNCHANGED <<data, is_closed, write_event, history>>

AwaitRead(t) ==
    /\ pc[t] = "await_read"
    /\ IF MustSleep(read_event)
       THEN Goto(t, "asleep") /\ read_event' = Sleep(read_event, t)
       ELSE Goto(t, "read") /\ UNCHANGED read_event
    /\ UNCHANGED <<data, is_closed, write_event, history>>

\* max_read_size, and what the two mem_copy calls put into the caller's buffer
MaxRead ==
    LET n == (write_offset - read_offset) % Size IN IF n = 0 THEN Size ELSE n

\* Faulty variant: the second part is copied from where the first one was.
CopyOutUnwrapped(size) ==
    [i \in 1 .. size |-> buffer[read_offset + ((i - 1) % (Size - read_offset))]]

CopyOut(size) ==
    LET chunk == Smaller(Size - read_offset, size) IN
    [i \in 1 .. size |->
        IF i <= chunk THEN buffer[read_offset + i - 1] ELSE buffer[i - chunk - 1]]

(* _pipe_read with VFS_NODE_FLAG_PIPE_PEEK *)
Peek(t, request) ==
    /\ pc[t] = "read"
    /\ ~IsEmpty
    /\ peeked' = [place |-> Len(received), bytes |-> CopyOut(Smaller(request, MaxRead))]
    /\ Goto(t, "idle")
    /\ UNCHANGED <<data, is_closed, read_event, write_event, sent, received, eof>>

\* Faulty variant: the writers are not told that there is room again.
ReadWithoutDispatch(t, request) ==
    LET size == Smaller(request, MaxRead)
        offset == (read_offset + size) % Size IN
    /\ pc[t] = "read"
    /\ ~IsEmpty
    /\ received' = received \o CopyOut(size)
    /\ read_offset' = offset
    /\ is_full' = FALSE
    /\ read_event' = SetActive(read_event, read_event.active /\ write_offset # offset)
    /\ Goto(t, "idle")
    /\ UNCHANGED <<buffer, write_offset, is_closed, write_event, sent, peeked, eof>>

(* _pipe_read of a pipe that is not empty *)
Read(t, request) ==
    LET size == Smaller(request, MaxRead)
        offset == (read_offset + size) % Size IN
    /\ pc[t] = "read"
    /\ ~IsEmpty
    /\ received' = received \o CopyOut(size)
    /\ read_offset' = offset
    /\ is_full' = FALSE
    /\ read_event' = SetActive(read_event, read_event.active /\ write_offset # offset)
    /\ write_event' = DispatchAll(write_event)
    /\ GotoAndWake(t, "idle", WokenAll(write_event))
    /\ UNCHANGED <<buffer, write_offset, is_closed, sent, peeked, eof>>

-----------------------------------------------------------------------------
(* _pipe_write to a pipe that is closed or full *)
WriteClosed(t) ==
    /\ pc[t] = "write"
    /\ is_closed
    /\ Goto(t, "idle")
    /\ UNCHANGED <<data, is_closed, read_event, write_event, history>>

WriteFull(t) ==
    /\ pc[t] = "write"
    /\ ~is_closed /\ is_full
    /\ Goto(t, "await_write")
    /\ UNCHANGED <<data, is_closed, read_event, write_event, history>>

AwaitWrite(t) ==
    /\ pc[t] = "await_write"
    /\ IF MustSleep(write_event)
       THEN Goto(t, "asleep") /\ write_event' = Sleep(write_event, t)
       ELSE Goto(t, "write") /\ UNCHANGED write_event
    /\ UNCHANGED <<data, is_closed, read_event, history>>

MaxWrite ==
    LET n == (read_offset - write_offset) % Size IN IF n = 0 THEN Size ELSE n

\* The two mem_copy calls into the pipe's buffer: byte i of the caller's
\* buffer is number sent + i.
CopyIn(size) ==
    LET chunk == Smaller(Size - write_offset, size) IN
    [k \in 0 .. Size - 1 |->
        IF k >= write_offset /\ k < write_offset + chunk THEN sent + k - write_offset + 1
        ELSE IF k < size - chunk THEN sent + chunk + k + 1
        ELSE buffer[k]]

\* Faulty variant: a closed pipe takes bytes.
WriteUnlessFull(t, request) ==
    LET size == Smaller(request, MaxWrite)
        offset == (write_offset + size) % Size IN
    /\ pc[t] = "write"
    /\ ~is_full
    /\ sent + size <= MaxBytes
    /\ buffer' = CopyIn(size)
    /\ sent' = sent + size
    /\ write_offset' = offset
    /\ is_full' = (offset = read_offset)
    /\ write_event' = SetActive(write_event, write_event.active /\ ~is_full')
    /\ read_event' = DispatchAll(read_event)
    /\ GotoAndWake(t, "idle", WokenAll(read_event))
    /\ UNCHANGED <<read_offset, is_closed, received, peeked, eof>>

(* _pipe_write to a pipe that has room *)
Write(t, request) ==
    LET size == Smaller(request, MaxWrite)
        offset == (write_offset + size) % Size IN
    /\ pc[t] = "write"
    /\ ~is_closed /\ ~is_full
    /\ sent + size <= MaxBytes
    /\ buffer' = CopyIn(size)
    /\ sent' = sent + size
    /\ write_offset' = offset
    /\ is_full' = (offset = read_offset)
    /\ write_event' = SetActive(write_event, write_event.active /\ ~is_full')
    /\ read_event' = DispatchAll(read_event)
    /\ GotoAndWake(t, "idle", WokenAll(read_event))
    /\ UNCHANGED <<read_offset, is_closed, received, peeked, eof>>

(* pipe_close *)
Close ==
    /\ Closable
    /\ is_closed' = TRUE
    /\ read_event' = SetActive(read_event, TRUE)
    /\ write_event' = SetActive(write_event, TRUE)
    /\ UNCHANGED <<data, pc, history>>

-----------------------------------------------------------------------------
Proceed(t) ==
    \/ ReadNothing(t) \/ AwaitRead(t) \/ WriteClosed(t) \/ WriteFull(t) \/ AwaitWrite(t)
    \/ \E request \in 1 .. Size + 1 : Read(t, request) \/ Write(t, request)

Next ==
    \/ \E t \in Threads : Call(t) \/ Proceed(t) \/ \E request \in 1 .. Size + 1 : Peek(t, request)
    \/ Close

Spec == Init /\ [][Next]_vars

\* A thread inside a call goes on, and the readers keep reading.  Strong
\* fairness, of the readers, because one may peek: it does not only ever peek.
FairSpec ==
    /\ Spec
    /\ \A t \in Writers : WF_vars(Proceed(t))
    /\ \A t \in Readers : WF_vars(Call(t)) /\ SF_vars(Proceed(t))

-----------------------------------------------------------------------------
(* The offsets stay within the buffer, and every thread at a known place. *)
TypeOK ==
    /\ buffer \in [0 .. Size - 1 -> 0 .. MaxBytes]
    /\ write_offset \in 0 .. Size - 1 /\ read_offset \in 0 .. Size - 1
    /\ is_full \in BOOLEAN /\ is_closed \in BOOLEAN /\ eof \in BOOLEAN
    /\ sent \in 0 .. MaxBytes
    /\ pc \in [Threads -> {"idle", "asleep", "read", "await_read", "write", "await_write"}]

(* Reads return the bytes in the order in which they were written, each    *)
(* once, wherever the buffer wraps around; a peek returned the bytes that  *)
(* came next.                                                              *)
InOrder ==
    /\ received = [i \in 1 .. Len(received) |-> i]
    /\ \A i \in DOMAIN peeked.bytes : peeked.bytes[i] = peeked.place + i

(* The two offsets and is_full account for every byte: what has been       *)
(* written and not yet read is exactly what the offsets enclose.           *)
OffsetsCountBytes ==
    sent - Len(received) =
        IF is_full THEN Size ELSE (write_offset - read_offset) % Size

(* While the pipe is open, a reader sleeps only on an empty pipe and a     *)
(* writer only on a full one, whatever happened between its test and its   *)
(* wait.                                                                   *)
NoSleepOverWork ==
    ~is_closed =>
        /\ read_event.waiting # <<>> => IsEmpty
        /\ write_event.waiting # <<>> => is_full

(* A blocking read returns 0 only at the end of the stream: all that was   *)
(* written has been read, and nothing will follow.                         *)
EofIsFinal == eof => is_closed /\ Len(received) = sent

(* Every byte written is read in the end: however often the writers get    *)
(* ahead, and wherever a thread went to sleep, the readers catch up.       *)
NothingLeft == sent = Len(received)

Delivered == []<>NothingLeft

=============================================================================
