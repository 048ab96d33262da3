---------------------------- MODULE LoadBalancer ----------------------------
(***************************************************************************)
(* The run queues (kernel/scheduler/load_balancer.c): FIFO queues with a   *)
(* lock each, a bitmap of those that are not empty which is read without a *)
(* lock, and an index per thread that moves with the thread's behaviour    *)
(* inside the range of its priority.  Scheduler keeps the queued threads   *)
(* as one set, from which a CPU takes any or, having met a locked queue,   *)
(* none; here is what that set is made of.                                 *)
(***************************************************************************)
EXTENDS Integers, Sequences, FiniteSets

CONSTANTS
    Threads, CPUs, None,
    QueueCount,         \* SCHEDULER_LOAD_BALANCER_QUEUE_COUNT
    MinQueue, MaxQueue, \* the range of every thread's priority, offset included
    Forced,             \* scheduler_forced_queue_index of every thread, or 0
    MaxAdds             \* bound on the threads that are made ready

VARIABLES
    queue,      \* every queue's threads
    lock,       \* the CPU that holds a queue's lock
    bitmap,     \* _scheduler_load_balancer_bitmap
    index,      \* scheduler_load_balancer_queue_index of every thread
    cpu,        \* pc, the snapshot of the bitmap, and the thread at hand
    outside,    \* threads on no queue
    adds        \* history: calls of scheduler_load_balancer_add

vars == <<queue, lock, bitmap, index, cpu, outside, adds>>

Queues == 0..QueueCount - 1
Idle == [pc |-> "idle", mask |-> {}, thread |-> None]

Init ==
    /\ queue = [i \in Queues |-> <<>>] /\ lock = [i \in Queues |-> None]
    /\ bitmap = {} /\ outside = Threads /\ adds = 0
    /\ index = [t \in Threads |-> 0]
    /\ cpu = [c \in CPUs |-> Idle]

At(c, pc) == cpu[c].pc = pc
Lowest(S) == CHOOSE i \in S : \A j \in S : i <= j

(* scheduler_load_balancer_get takes a snapshot of the bitmap ...          *)
GetBegin(c) ==
    /\ At(c, "idle")
    /\ cpu' = [cpu EXCEPT ![c].pc = "get", ![c].mask = bitmap]
    /\ UNCHANGED <<queue, lock, bitmap, index, outside, adds>>

(* ... and tries its queues in turn.  Lines 64-73: a locked queue is       *)
(* skipped; one that is not locked gives up its first thread ...           *)
Skip(c) ==
    LET i == Lowest(cpu[c].mask)
    IN  /\ At(c, "get") /\ cpu[c].mask # {} /\ lock[i] # None
        /\ cpu' = [cpu EXCEPT ![c].mask = @ \ {i}]
        /\ UNCHANGED <<queue, lock, bitmap, index, outside, adds>>

Pop(c) ==
    LET i == Lowest(cpu[c].mask)
    IN  /\ At(c, "get") /\ cpu[c].mask # {} /\ lock[i] = None
        /\ lock' = [lock EXCEPT ![i] = c]
        /\ cpu' = [cpu EXCEPT ![c].pc = "pop",
                     ![c].thread = IF queue[i] = <<>> THEN None ELSE Head(queue[i])]
        /\ queue' = [queue EXCEPT ![i] = IF @ = <<>> THEN <<>> ELSE Tail(@)]
        /\ UNCHANGED <<bitmap, index, outside, adds>>

(* Faulty variant: the queue leaves the bitmap with every thread.          *)
PoppedClearing(c) ==
    LET i == Lowest(cpu[c].mask)
        t == cpu[c].thread
    IN  /\ At(c, "pop")
        /\ bitmap' = bitmap \ {i}
        /\ lock' = [lock EXCEPT ![i] = None]
        /\ outside' = outside \union ({t} \ {None})
        /\ cpu' = [cpu EXCEPT ![c] = IF t # None THEN Idle
                                     ELSE [@ EXCEPT !.pc = "get", !.mask = @ \ {i}]]
        /\ UNCHANGED <<queue, index, adds>>

(* ... and leaves the bitmap if that was its last (lines 67-81).           *)
Popped(c) ==
    LET i == Lowest(cpu[c].mask)
        t == cpu[c].thread
    IN  /\ At(c, "pop")
        /\ bitmap' = IF queue[i] = <<>> THEN bitmap \ {i} ELSE bitmap
        /\ lock' = [lock EXCEPT ![i] = None]
        /\ outside' = outside \union ({t} \ {None})
        /\ cpu' = [cpu EXCEPT ![c] = IF t # None THEN Idle
                                     ELSE [@ EXCEPT !.pc = "get", !.mask = @ \ {i}]]
        /\ UNCHANGED <<queue, index, adds>>

GetNone(c) ==
    /\ At(c, "get") /\ cpu[c].mask = {}
    /\ cpu' = [cpu EXCEPT ![c] = Idle]
    /\ UNCHANGED <<queue, lock, bitmap, index, outside, adds>>

-----------------------------------------------------------------------------
(* scheduler_load_balancer_add, lines 91-110: a thread that used up its    *)
(* time moves down, one that waited for I/O up, within its range.          *)
Clamp(i, min, max) == IF i < min THEN min ELSE IF i > max THEN max ELSE i

NewIndex(t, early, io) ==
    LET down == IF ~early /\ ~io /\ index[t] < QueueCount - 1 THEN index[t] + 1 ELSE index[t]
        up   == IF io /\ down > 0 THEN down - 1 ELSE down
    IN  IF Forced[t] # 0 THEN Forced[t] ELSE Clamp(up, MinQueue[t], MaxQueue[t])

AddBegin(c, t, early, io) ==
    /\ At(c, "idle") /\ t \in outside /\ adds < MaxAdds
    /\ adds' = adds + 1 /\ outside' = outside \ {t}
    /\ index' = [index EXCEPT ![t] = NewIndex(t, early, io)]
    /\ cpu' = [cpu EXCEPT ![c].pc = "add", ![c].thread = t]
    /\ UNCHANGED <<queue, lock, bitmap>>

(* Lines 113-121, and the bit of line 122                                  *)
Push(c) ==
    LET t == cpu[c].thread
        i == index[t]
    IN  /\ At(c, "add") /\ lock[i] = None
        /\ lock' = [lock EXCEPT ![i] = c]
        /\ queue' = [queue EXCEPT ![i] = Append(@, t)]
        /\ cpu' = [cpu EXCEPT ![c].pc = "push"]
        /\ UNCHANGED <<bitmap, index, outside, adds>>

Pushed(c) ==
    LET i == index[cpu[c].thread]
    IN  /\ At(c, "push")
        /\ bitmap' = bitmap \union {i}
        /\ lock' = [lock EXCEPT ![i] = None]
        /\ cpu' = [cpu EXCEPT ![c] = Idle]
        /\ UNCHANGED <<queue, index, outside, adds>>

Get(c) == Skip(c) \/ Pop(c) \/ Popped(c) \/ GetNone(c)
Add(c) == Push(c) \/ Pushed(c)

Next ==
    \E c \in CPUs : \/ GetBegin(c) \/ Get(c) \/ Add(c)
                    \/ \E t \in Threads, early, io \in BOOLEAN : AddBegin(c, t, early, io)

(* CPUs look for a thread again and again, and run on inside the calls.    *)
Fairness == \A c \in CPUs : WF_vars(GetBegin(c)) /\ WF_vars(Get(c)) /\ WF_vars(Add(c))

Spec == Init /\ [][Next]_vars /\ Fairness

-----------------------------------------------------------------------------
Queued(i) == {queue[i][k] : k \in DOMAIN queue[i]}
InHand == {cpu[c].thread : c \in CPUs} \ {None}

(* A queue that nobody holds and that is not empty has its bit: a snapshot *)
(* taken after a thread was added shows it, so that a CPU finds nothing    *)
(* only if it started before, or met a locked queue.                       *)
BitmapShowsQueues == \A i \in Queues : lock[i] = None /\ queue[i] # <<>> => i \in bitmap

(* A thread is in one place: outside, at hand on one CPU, or once on the   *)
(* one queue that its index, within its priority's range, names.           *)
OnePlace ==
    /\ \A i \in Queues :
          /\ Len(queue[i]) = Cardinality(Queued(i))
          /\ Queued(i) \intersect outside = {}
          /\ \A t \in Queued(i) : /\ index[t] = i
                                  /\ i \in MinQueue[t]..MaxQueue[t] \/ i = Forced[t]
    /\ Threads = outside \union InHand \union UNION {Queued(i) : i \in Queues}

(* Once no more threads are made ready, every queued thread is taken,      *)
(* although CPUs pass by locked queues.                                    *)
QueuedIsTaken == \A i \in Queues : []<>(queue[i] = <<>>)
=============================================================================
