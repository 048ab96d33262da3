------------------------------- MODULE I82540 -------------------------------
(***************************************************************************)
(* The receive ring of the i82540 network driver (module/i82540/device.c): *)
(* the device, which is external, fills descriptors from its head on and   *)
(* interrupts, and a thread empties them and moves the tail.  The head and *)
(* the tail are registers of the device; it has no descriptor left when    *)
(* they are equal.  Frames are numbered in the order they arrive.          *)
(***************************************************************************)
EXTENDS Integers, Sequences

CONSTANTS
    Count,        \* RX_DESCRIPTOR_COUNT
    MaxFrames     \* frames that arrive

VARIABLES
    rdh, rdt,     \* REG_RDH and REG_RDT
    icr,          \* REG_ICR: the causes, cleared when they are read
    desc,         \* the descriptors: the frame in each, 0 without RDESC_DD
    active,       \* device->irq_event is active
    pc,           \* where _rx_thread stands
    tail,         \* its variable
    arrived,      \* frames the device has seen
    paced,        \* a frame arrives only while the thread sleeps
    kept,         \* history: frames written to a descriptor
    delivered     \* history: frames given to network_layer1_push_packet

vars == <<rdh, rdt, icr, desc, active, pc, tail, arrived, paced, kept, delivered>>

Slots == 0 .. Count - 1
After(i) == IF i + 1 = Count THEN 0 ELSE i + 1

(* The part of _i82540_init_device on the receive ring                     *)
Init ==
    /\ rdh = 0 /\ rdt = Count - 1 /\ icr = {} /\ active = FALSE
    /\ desc = [i \in Slots |-> 0]
    /\ pc = "top" /\ tail = 0 /\ arrived = 0 /\ kept = {} /\ delivered = <<>>
    /\ paced \in BOOLEAN

(* External: a frame is written to the descriptor at the head, or dropped  *)
(* if there is none; _irq_handler makes the event active.                  *)
Arrive ==
    /\ arrived < MaxFrames /\ (paced => pc = "await" /\ ~active)
    /\ arrived' = arrived + 1
    /\ \/ /\ rdh = rdt /\ UNCHANGED <<rdh, icr, desc, active, kept>>
       \/ /\ rdh # rdt
          /\ desc' = [desc EXCEPT ![rdh] = arrived + 1]
          /\ rdh' = After(rdh) /\ kept' = kept \union {arrived + 1}
          /\ icr' = icr \union {"rx"} /\ active' = TRUE
    /\ UNCHANGED <<rdt, pc, tail, paced, delivered>>

(* External: the link changes                                              *)
LinkChange ==
    /\ "link" \notin icr /\ ~active /\ (paced => pc = "await")
    /\ icr' = icr \union {"link"} /\ active' = TRUE
    /\ UNCHANGED <<rdh, rdt, desc, pc, tail, arrived, paced, kept, delivered>>

-----------------------------------------------------------------------------
Top ==
    /\ pc = "top" /\ tail' = After(rdt) /\ pc' = "check"
    /\ UNCHANGED <<rdh, rdt, icr, desc, active, arrived, paced, kept, delivered>>

Check ==
    /\ pc = "check" /\ pc' = IF desc[tail] # 0 THEN "take" ELSE "await"
    /\ UNCHANGED <<rdh, rdt, icr, desc, active, tail, arrived, paced, kept, delivered>>

(* event_await and event_set_active                                        *)
Wake ==
    /\ pc = "await" /\ active
    /\ active' = FALSE /\ pc' = "cause"
    /\ UNCHANGED <<rdh, rdt, icr, desc, tail, arrived, paced, kept, delivered>>

(* A change of the link is tested first.                                   *)
ReadCause ==
    /\ pc = "cause" /\ icr' = {}
    /\ pc' = IF "link" \in icr \/ "rx" \notin icr THEN "again" ELSE "take"
    /\ UNCHANGED <<rdh, rdt, desc, active, tail, arrived, paced, kept, delivered>>

(* The read whose value is not used                                        *)
ReadCauseAgain ==
    /\ pc = "again" /\ icr' = {} /\ pc' = "check"
    /\ UNCHANGED <<rdh, rdt, desc, active, tail, arrived, paced, kept, delivered>>

(* The frame, if the descriptor has one, is delivered                      *)
Take ==
    /\ pc = "take" /\ pc' = "free"
    /\ delivered' = IF desc[tail] # 0 THEN Append(delivered, desc[tail]) ELSE delivered
    /\ UNCHANGED <<rdh, rdt, icr, desc, active, tail, arrived, paced, kept>>

\* Faulty variant: the descriptor is given back as it is.
FreeUncleared ==
    /\ pc = "free" /\ pc' = "top"
    /\ rdt' = IF rdh # rdt THEN tail ELSE rdt
    /\ UNCHANGED <<rdh, icr, desc, active, tail, arrived, paced, kept, delivered>>

\* Faulty variant: the test of the tail is reversed.
FreeReversed ==
    /\ pc = "free" /\ pc' = "top"
    /\ desc' = [desc EXCEPT ![tail] = 0]
    /\ rdt' = IF rdh = rdt THEN tail ELSE rdt
    /\ UNCHANGED <<rdh, icr, active, tail, arrived, paced, kept, delivered>>

Free ==
    /\ pc = "free" /\ pc' = "top"
    /\ desc' = [desc EXCEPT ![tail] = 0]
    /\ rdt' = IF rdh # rdt THEN tail ELSE rdt
    /\ UNCHANGED <<rdh, icr, active, tail, arrived, paced, kept, delivered>>

RxThread == Top \/ Check \/ Wake \/ ReadCause \/ ReadCauseAgain \/ Take \/ Free
Next == Arrive \/ LinkChange \/ RxThread

(* The thread has the highest priority and is scheduled.                   *)
Spec == Init /\ [][Next]_vars /\ WF_vars(RxThread)

-----------------------------------------------------------------------------
(* Frames are delivered in the order they arrived, none twice, however     *)
(* they and the thread's steps interleave.                                 *)
FramesInOrder == \A i, j \in DOMAIN delivered : i < j => delivered[i] < delivered[j]

(* Every frame that found a descriptor is delivered, if frames come one by *)
(* one: a burst makes the thread skip a descriptor, or fills the ring for  *)
(* good.                                                                   *)
NothingLeft == paced => \A f \in kept : \E i \in DOMAIN delivered : delivered[i] = f
FramesAreDelivered == []<>NothingLeft
=============================================================================
