-------------------------------- MODULE Nvme --------------------------------
(***************************************************************************)
(* The queues of the NVMe driver (module/nvme/device.c): threads put a     *)
(* command into the submission queue and wait for a completion, both under *)
(* the queue's lock, while the device, which is external, fetches the      *)
(* commands in order and completes them in any order.  A command is named  *)
(* by the thread that waits for it.                                        *)
(***************************************************************************)
EXTENDS Integers, FiniteSets

CONSTANTS
    Threads,      \* threads that read or write the drive
    QueueLength,  \* entries of a queue, a power of two
    None

VARIABLES
    lock,         \* queue->lock: the thread that holds it
    queue,        \* nvme_submission_queue_t: head, tail and entries
    completion,   \* nvme_completion_queue_t: head, phase and entries
    doorbell,     \* what the driver wrote to the doorbells: sq and cq
    pc,           \* where every thread stands
    device        \* external: its indices, phase and the commands under way

vars == <<lock, queue, completion, doorbell, pc, device>>

Slots == 0 .. QueueLength - 1
Masked(i) == i % QueueLength

(* _submission_queue_init, _completion_queue_init                          *)
Init ==
    /\ lock = None /\ pc = [t \in Threads |-> "idle"]
    /\ queue = [head |-> 0, tail |-> 0, entries |-> [i \in Slots |-> None]]
    /\ completion = [head |-> 0, phase |-> 1,
                     entries |-> [i \in Slots |-> [phase |-> 0, sq_head |-> 0, command |-> None]]]
    /\ doorbell = [sq |-> 0, cq |-> 0]
    /\ device = [head |-> 0, tail |-> 0, phase |-> 1, running |-> {}, done |-> {}]

Goto(t, l) == pc' = [pc EXCEPT ![t] = l]

(* rwlock_acquire_write of _submission_queue_init_entry; the command that  *)
(* this thread waited for before is forgotten.                             *)
Call(t) ==
    /\ pc[t] = "idle" /\ lock = None
    /\ lock' = t /\ Goto(t, "room")
    /\ device' = [device EXCEPT !.done = @ \ {t}]
    /\ UNCHANGED <<queue, completion, doorbell>>

\* Faulty variant: nobody waits for room.
HasRoomAlways == TRUE

(* The condition of SPINLOOP, negated                                      *)
HasRoom == Masked(queue.head + 1) # queue.tail

InitEntry(t) ==
    /\ pc[t] = "room" /\ HasRoom
    /\ queue' = [queue EXCEPT !.entries[queue.tail] = t]
    /\ Goto(t, "send")
    /\ UNCHANGED <<lock, completion, doorbell, device>>

SendEntry(t) ==
    /\ pc[t] = "send"
    /\ queue' = [queue EXCEPT !.tail = Masked(@ + 1)]
    /\ doorbell' = [doorbell EXCEPT !.sq = queue'.tail]
    /\ lock' = None /\ Goto(t, "sent")
    /\ UNCHANGED <<completion, device>>

(* rwlock_acquire_write of _completion_queue_wait                          *)
Wait(t) ==
    /\ pc[t] = "sent" /\ lock = None
    /\ lock' = t /\ Goto(t, "wait")
    /\ UNCHANGED <<queue, completion, doorbell, device>>

(* Faulty variant: the phase is never turned.                              *)
WaitDoneInPhase(t) ==
    LET out == completion.entries[completion.head]
    IN  /\ pc[t] = "wait" /\ out.phase = completion.phase
        /\ completion' = [completion EXCEPT !.head = Masked(@ + 1)]
        /\ queue' = [queue EXCEPT !.head = out.sq_head]
        /\ doorbell' = [doorbell EXCEPT !.cq = completion'.head]
        /\ lock' = None /\ Goto(t, "return")
        /\ UNCHANGED device

WaitDone(t) ==
    LET out == completion.entries[completion.head]
        head == Masked(completion.head + 1)
    IN  /\ pc[t] = "wait" /\ out.phase = completion.phase
        /\ completion' = [completion EXCEPT !.head = head,
                                            !.phase = IF head = 0 THEN 1 - @ ELSE @]
        /\ queue' = [queue EXCEPT !.head = out.sq_head]
        /\ doorbell' = [doorbell EXCEPT !.cq = head]
        /\ lock' = None /\ Goto(t, "return")
        /\ UNCHANGED device

(* _nvme_read_write returns                                                *)
Return(t) ==
    /\ pc[t] = "return" /\ Goto(t, "idle")
    /\ UNCHANGED <<lock, queue, completion, doorbell, device>>

-----------------------------------------------------------------------------
(* External: the device fetches the next command and completes any one of  *)
(* those it works on.                                                      *)
Fetch ==
    /\ device.head # doorbell.sq
    /\ device' = [device EXCEPT !.head = Masked(@ + 1),
                                !.running = @ \union {queue.entries[device.head]}]
    /\ UNCHANGED <<lock, queue, completion, doorbell, pc>>

Complete(c) ==
    /\ c \in device.running /\ Masked(device.tail + 1) # doorbell.cq
    /\ completion' = [completion EXCEPT !.entries[device.tail] =
                        [phase |-> device.phase, sq_head |-> device.head, command |-> c]]
    /\ device' = [device EXCEPT
                    !.tail = Masked(@ + 1), !.running = @ \ {c}, !.done = @ \union {c},
                    !.phase = IF Masked(device.tail + 1) = 0 THEN 1 - @ ELSE @]
    /\ UNCHANGED <<lock, queue, doorbell, pc>>

DeviceStep == Fetch \/ \E c \in Threads : Complete(c)
Proceed(t) == InitEntry(t) \/ SendEntry(t) \/ Wait(t) \/ WaitDone(t) \/ Return(t)

Next == DeviceStep \/ \E t \in Threads : Call(t) \/ Proceed(t)

(* The device works on, and a thread that spins or holds the lock runs     *)
Spec ==
    /\ Init /\ [][Next]_vars
    /\ WF_vars(DeviceStep) /\ \A t \in Threads : SF_vars(Proceed(t))

-----------------------------------------------------------------------------
(* When _nvme_read_write returns, its own command has been carried out,    *)
(* although the completion is not compared with it.                        *)
OwnCommandIsDone == \A t \in Threads : pc[t] = "return" => t \in device.done

(* No entry is written over before the device has fetched it.              *)
EntriesAreFetched ==
    \A t \in Threads : pc[t] = "sent" /\ t \notin device.running \union device.done =>
        \E i \in Slots : queue.entries[i] = t

(* Every read or write returns, unless somebody spins for room with the    *)
(* lock in hand: one command under way looks like a full queue.            *)
Returned(t) == pc[t] = "idle" \/ \E u \in Threads : pc[u] = "room" /\ ~HasRoom
RequestsEnd == \A t \in Threads : []<>Returned(t)
=============================================================================
