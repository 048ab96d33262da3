------------------------------- MODULE Virtio -------------------------------
(***************************************************************************)
(* The queues of a VirtIO device (module/virtio/virtio.c) and a driver     *)
(* that uses them as module/virtio_blk/blk.c does: it hands over a chain   *)
(* of descriptors, waits for the device and pops the answer.  A chain is   *)
(* known by its first descriptor.                                          *)
(* The device is external.  Each queue has one user, for neither the       *)
(* queues nor the drivers take a lock; the interrupt of the device makes   *)
(* the events of all its queues active.  Indices count modulo IndexLimit,  *)
(* which stands for 2^16.                                                  *)
(***************************************************************************)
EXTENDS Integers, Sequences

CONSTANTS
    Queues,       \* queues of the device, each with its user
    Size,         \* queue->size
    IndexLimit,   \* where the indices of the rings wrap, a multiple of Size
    Chains        \* lengths of the chains of descriptors

VARIABLES
    queue,        \* virtio_queue_t: first_free_index and last_used_index
    available,    \* the available ring: index, ring, used event
    used,         \* the used ring: index, ring
    active,       \* queue->event is active
    pc,           \* where the user stands
    irq,          \* external: an interrupt of the device is under way
    device        \* external: the next entry of the available ring it reads

vars == <<queue, available, used, active, pc, irq, device>>

Slots == 0 .. Size - 1
Up(i) == (i + 1) % IndexLimit

(* virtio_init_queue                                                       *)
Init ==
    /\ queue = [q \in Queues |-> [first_free |-> 0, last_used |-> 0]]
    /\ available = [q \in Queues |-> [index |-> 0, used_event |-> 0, ring |-> [i \in Slots |-> 0]]]
    /\ used = [q \in Queues |-> [index |-> 0, ring |-> [i \in Slots |-> 0]]]
    /\ active = [q \in Queues |-> FALSE] /\ device = [q \in Queues |-> 0]
    /\ pc = [q \in Queues |-> "idle"] /\ irq = FALSE

Goto(q, l) == pc' = [pc EXCEPT ![q] = l]

(* virtio_queue_transfer of a chain of count descriptors                   *)
Transfer(q, count) ==
    LET first == queue[q].first_free
    IN  /\ pc[q] = "idle" /\ Goto(q, "wait")
        /\ queue' = [queue EXCEPT ![q].first_free = (first + count) % Size]
        /\ available' = [available EXCEPT ![q].ring[available[q].index % Size] = first,
                                          ![q].index = Up(@),
                                          ![q].used_event = queue[q].last_used]
        /\ UNCHANGED <<used, active, irq, device>>

(* virtio_queue_wait: the condition of the loop, event_await, and          *)
(* event_set_active                                                        *)
WaitTest(q) ==
    /\ pc[q] = "wait"
    /\ Goto(q, IF queue[q].last_used = used[q].index THEN "await" ELSE "pop")
    /\ UNCHANGED <<queue, available, used, active, irq, device>>

WaitAwait(q) ==
    /\ pc[q] = "await" /\ active[q] /\ Goto(q, "clear")
    /\ UNCHANGED <<queue, available, used, active, irq, device>>

\* Faulty variant: the event is cleared and awaited again, with no test.
WaitClearAwaits(q) ==
    /\ pc[q] = "clear" /\ Goto(q, "await")
    /\ active' = [active EXCEPT ![q] = FALSE]
    /\ UNCHANGED <<queue, available, used, irq, device>>

WaitClear(q) ==
    /\ pc[q] = "clear" /\ Goto(q, "wait")
    /\ active' = [active EXCEPT ![q] = FALSE]
    /\ UNCHANGED <<queue, available, used, irq, device>>

(* virtio_queue_pop                                                        *)
Pop(q) ==
    /\ pc[q] = "pop" /\ Goto(q, "idle")
    /\ queue' = [queue EXCEPT ![q].last_used = Up(@)]
    /\ UNCHANGED <<available, used, active, irq, device>>

-----------------------------------------------------------------------------
(* External: the device takes the next chain and puts it into the used     *)
(* ring.  It interrupts when the index passes the one that the driver      *)
(* asked for.                                                              *)
Answer(q) ==
    /\ device[q] # available[q].index
    /\ device' = [device EXCEPT ![q] = Up(@)]
    /\ used' = [used EXCEPT ![q].ring[used[q].index % Size] = available[q].ring[device[q] % Size],
                            ![q].index = Up(@)]
    /\ irq' = (irq \/ available[q].used_event = used[q].index)
    /\ UNCHANGED <<queue, available, active, pc>>

(* _virtio_irq_handler                                                     *)
IrqHandler ==
    /\ irq /\ irq' = FALSE
    /\ active' = [q \in Queues |-> TRUE]
    /\ UNCHANGED <<queue, available, used, pc, device>>

Proceed(q) == WaitTest(q) \/ WaitAwait(q) \/ WaitClear(q) \/ Pop(q)
QueueStep(q) == (\E n \in Chains : Transfer(q, n)) \/ Proceed(q) \/ Answer(q)
Next == IrqHandler \/ \E q \in Queues : QueueStep(q)

(* The device answers, interrupts are taken and threads that can run do.   *)
Spec ==
    /\ Init /\ [][Next]_vars /\ WF_vars(IrqHandler)
    /\ \A q \in Queues : WF_vars(Proceed(q)) /\ WF_vars(Answer(q))

-----------------------------------------------------------------------------
(* virtio_queue_pop takes the answer to the request just made, and leaves  *)
(* none behind, also where the indices wrap.                               *)
PopIsOfRequest ==
    \A q \in Queues :
        /\ pc[q] = "pop" => used[q].ring[queue[q].last_used % Size]
                             = available[q].ring[(available[q].index - 1) % Size]
        /\ pc[q] = "idle" => queue[q].last_used = used[q].index

(* Every transfer ends: the interrupt is not lost between the test of the  *)
(* index and the sleep, nor to the user of the other queue.                *)
Returned(q) == pc[q] = "idle"
TransfersEnd == \A q \in Queues : []<>Returned(q)
=============================================================================
