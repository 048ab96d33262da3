----------------------------- MODULE Scheduler ------------------------------
(***************************************************************************)
(* Threads, the CPUs that run them and the events they wait for            *)
(* (kernel/scheduler/scheduler.c, kernel/mp/event.c, kernel/mp/thread.c).  *)
(*                                                                         *)
(* Code that runs with the scheduler paused or in interrupt context is not *)
(* preempted, so its position belongs to the CPU: cpu[c].pc.  A thread     *)
(* that runs its own code (pc "run") may be preempted or call the kernel   *)
(* at any time.  A critical section of thread->lock or of a run queue is   *)
(* one step.  event->lock is held over several steps by event_dispatch,    *)
(* and is a variable.                                                      *)
(*                                                                         *)
(* The run queues are one set: which of the queued threads is picked is    *)
(* left open here.                                                         *)
(***************************************************************************)
EXTENDS Integers, Sequences, FiniteSets

CONSTANTS
    Threads, Cpus, Events, None,
    TermEvent,      \* TermEvent[t] is t->termination_event
    Joins,          \* pairs <<t, u>>: thread t holds a handle on thread u
    Waits,          \* the sequences of events a thread may await at once
    Deletable,      \* the events that event_delete may be called on
    MaxSeq,         \* bound on event_sequence_id
    MaxListed       \* bound on the containers on an event when a wait begins

VARIABLES
    state,       \* thread->state
    regsAway,    \* thread->reg_state.reg_state_not_present
    seq,         \* thread->event_sequence_id
    refs,        \* thread->handle.rc
    joins,       \* the pairs of Joins that are still held
    queue,       \* the threads on a run queue of the load balancer
    cpu,         \* what each CPU is doing
    active,      \* event->is_active
    deleted,     \* event->is_deleted
    waiters,     \* event->head .. event->tail: [thread, seq] containers
    evlock,      \* the CPU that holds event->lock across steps, or None
    overtaken    \* history: a thread has run on while its old CPU still left it

threadVars == <<state, regsAway, seq>>
eventVars == <<active, deleted, waiters, evlock>>
handleVars == <<refs, joins>>
vars == <<threadVars, eventVars, handleVars, queue, cpu, overtaken>>

States == {"none", "queued", "running", "awaiting", "terminated"}

\* A CPU: its position, scheduler->current_thread (or the thread being switched
\* from or to), the events still to be awaited, and the event_dispatch call it
\* is in: the event, the DISPATCH_ALL flag, the container taken from the list
\* and the position to return to.
NoCall == [event |-> None, all |-> FALSE, target |-> None, seq |-> 0, ret |-> "idle"]
IdleCpu == [pc |-> "idle", thread |-> None, rest |-> <<>>, call |-> NoCall]

Locations ==
    {"idle", "run", "await", "await_active", "terminate",
     "pop", "check", "wake", "skip", "settle", "enqueue", "drop",
     "switch", "recheck", "requeue", "delete", "pick", "start"}

Goto(c, l) == cpu' = [cpu EXCEPT ![c].pc = l]
Target(c) == cpu[c].call.target
Event(c) == cpu[c].call.event

-----------------------------------------------------------------------------
(* Every thread has been created and enqueued (thread_create_..., then      *)
(* scheduler_enqueue_thread); the CPUs are in scheduler_task_wait_loop.     *)
Init ==
    /\ state = [t \in Threads |-> "queued"]
    /\ regsAway = [t \in Threads |-> FALSE]
    /\ seq = [t \in Threads |-> 0]
    /\ refs = [t \in Threads |-> 1 + Cardinality({j \in Joins : j[2] = t})]
    /\ joins = Joins
    /\ queue = Threads
    /\ cpu = [c \in Cpus |-> IdleCpu]
    /\ active = [e \in Events |-> FALSE]
    /\ deleted = [e \in Events |-> FALSE]
    /\ waiters = [e \in Events |-> <<>>]
    /\ evlock = [e \in Events |-> None]
    /\ overtaken = FALSE

(* handle_release on thread t.  The last release runs the destructor, which *)
(* deletes the termination event and forgets its waiters.                   *)
Release(t) ==
    /\ refs' = [refs EXCEPT ![t] = @ - 1]
    /\ IF refs[t] = 1
       THEN /\ evlock[TermEvent[t]] = None
            /\ deleted' = [deleted EXCEPT ![TermEvent[t]] = TRUE]
            /\ waiters' = [waiters EXCEPT ![TermEvent[t]] = <<>>]
       ELSE UNCHANGED <<deleted, waiters>>

(* scheduler_enqueue_thread *)
EnqueueThread(t) ==
    /\ IF state[t] = "queued"
       THEN UNCHANGED <<queue, state>>
       ELSE /\ queue' = queue \cup {t}
            /\ state' = [state EXCEPT ![t] = "queued"]
    /\ UNCHANGED <<regsAway, seq>>

-----------------------------------------------------------------------------
(* event_await: the thread announces that it waits, then visits the events  *)
(* in order (_await_event).  An active event ends the wait at once.         *)
Await(c) ==
    LET t == cpu[c].thread IN
    /\ cpu[c].pc = "run"
    /\ seq[t] < MaxSeq
    /\ \A e \in Events : Len(waiters[e]) < MaxListed
    /\ \E w \in Waits :
          /\ \A i \in DOMAIN w, u \in Threads : w[i] = TermEvent[u] => <<t, u>> \in joins
          /\ cpu' = [cpu EXCEPT ![c].pc = "await", ![c].rest = w]
    /\ state' = [state EXCEPT ![t] = "awaiting"]
    /\ regsAway' = [regsAway EXCEPT ![t] = TRUE]
    /\ UNCHANGED <<seq, eventVars, handleVars, queue>>

\* Faulty variant: a container is added although the event is active.
AwaitEventAlwaysListed(c) ==
    LET t == cpu[c].thread
        e == Head(cpu[c].rest) IN
    /\ cpu[c].pc = "await"
    /\ cpu[c].rest # <<>>
    /\ evlock[e] = None
    /\ IF active[e] /\ ~deleted[e]
       THEN cpu' = [cpu EXCEPT ![c].pc = "await_active", ![c].rest = <<>>]
       ELSE cpu' = [cpu EXCEPT ![c].rest = Tail(@)]
    /\ waiters' = [waiters EXCEPT ![e] = Append(@, [thread |-> t, seq |-> seq[t]])]
    /\ UNCHANGED <<threadVars, active, deleted, evlock, handleVars, queue>>

AwaitEvent(c) ==
    LET t == cpu[c].thread
        e == Head(cpu[c].rest) IN
    /\ cpu[c].pc = "await"
    /\ cpu[c].rest # <<>>
    /\ evlock[e] = None
    /\ IF active[e] /\ ~deleted[e]
       THEN cpu' = [cpu EXCEPT ![c].pc = "await_active", ![c].rest = <<>>]
       ELSE cpu' = [cpu EXCEPT ![c].rest = Tail(@)]
    /\ IF active[e] \/ deleted[e]
       THEN UNCHANGED waiters
       ELSE waiters' = [waiters EXCEPT ![e] = Append(@, [thread |-> t, seq |-> seq[t]])]
    /\ UNCHANGED <<threadVars, active, deleted, evlock, handleVars, queue>>

AwaitActive(c) ==
    /\ cpu[c].pc = "await_active"
    /\ state' = [state EXCEPT ![cpu[c].thread] = "running"]
    /\ Goto(c, "run")
    /\ UNCHANGED <<regsAway, seq, eventVars, handleVars, queue>>

AwaitYield(c) ==
    /\ cpu[c].pc = "await"
    /\ cpu[c].rest = <<>>
    /\ Goto(c, "switch")
    /\ UNCHANGED <<threadVars, eventVars, handleVars, queue>>

(* event_set_active *)
SetActive(c) ==
    /\ cpu[c].pc = "run"
    /\ \E e \in Events, b \in BOOLEAN :
          /\ \A u \in Threads : e # TermEvent[u]
          /\ evlock[e] = None
          /\ ~deleted[e]
          /\ active' = [active EXCEPT ![e] = b]
    /\ UNCHANGED <<threadVars, deleted, waiters, evlock, handleVars, queue, cpu>>

(* event_delete: the waiters' containers are dropped, the waiters are not   *)
(* woken (the code logs an error for each one).                             *)
EventDelete(c) ==
    /\ cpu[c].pc = "run"
    /\ \E e \in Deletable :
          /\ evlock[e] = None
          /\ ~deleted[e]
          /\ deleted' = [deleted EXCEPT ![e] = TRUE]
          /\ waiters' = [waiters EXCEPT ![e] = <<>>]
    /\ UNCHANGED <<threadVars, active, evlock, handleVars, queue, cpu>>

-----------------------------------------------------------------------------
(* event_dispatch, called by a thread or, from timer_dispatch_timers, by    *)
(* the scheduler's interrupt.  It holds event->lock from here to Unlock.  A *)
(* call that the event's access control list refuses changes nothing.       *)
Call(c, e, all, ret) == [NoCall EXCEPT !.event = e, !.all = all, !.ret = ret]

LockAndDispatch(c, e, all, activate, ret) ==
    /\ evlock[e] = None
    /\ ~deleted[e]
    /\ evlock' = [evlock EXCEPT ![e] = c]
    /\ active' = [active EXCEPT ![e] = @ \/ activate]
    /\ cpu' = [cpu EXCEPT ![c].pc = "pop", ![c].call = Call(c, e, all, ret)]
    /\ UNCHANGED <<threadVars, deleted, waiters, handleVars, queue>>

Dispatch(c) ==
    /\ cpu[c].pc \in {"run", "pick"}
    /\ \E e \in Events, all, activate \in BOOLEAN :
          /\ \A u \in Threads : e # TermEvent[u]
          /\ LockAndDispatch(c, e, all, activate, cpu[c].pc)

Unlock(c) ==
    /\ evlock' = [evlock EXCEPT ![Event(c)] = None]
    /\ cpu' = [cpu EXCEPT ![c].pc = cpu[c].call.ret, ![c].call = NoCall]

(* The head of the list is taken off; handle_lookup_and_acquire fails for a *)
(* thread that is gone.                                                     *)
\* Faulty variants: the rest of the list is lost; no handle is acquired.
PopAll(c) ==
    /\ cpu[c].pc = "pop"
    /\ waiters[Event(c)] # <<>>
    /\ LET w == Head(waiters[Event(c)]) IN
       /\ refs' = [refs EXCEPT ![w.thread] = @ + 1]
       /\ cpu' = [cpu EXCEPT ![c].pc = "check", ![c].call.target = w.thread,
                             ![c].call.seq = w.seq]
    /\ waiters' = [waiters EXCEPT ![Event(c)] = <<>>]
    /\ UNCHANGED <<threadVars, active, deleted, evlock, joins, queue>>

PopWithoutHandle(c) ==
    /\ cpu[c].pc = "pop"
    /\ waiters[Event(c)] # <<>>
    /\ LET w == Head(waiters[Event(c)]) IN
       cpu' = [cpu EXCEPT ![c].pc = "check", ![c].call.target = w.thread,
                          ![c].call.seq = w.seq]
    /\ waiters' = [waiters EXCEPT ![Event(c)] = Tail(@)]
    /\ UNCHANGED <<threadVars, active, deleted, evlock, handleVars, queue>>

Pop(c) ==
    /\ cpu[c].pc = "pop"
    /\ waiters[Event(c)] # <<>>
    /\ LET w == Head(waiters[Event(c)]) IN
       IF refs[w.thread] = 0
       THEN UNCHANGED <<refs, cpu>>
       ELSE /\ refs' = [refs EXCEPT ![w.thread] = @ + 1]
            /\ cpu' = [cpu EXCEPT ![c].pc = "check", ![c].call.target = w.thread,
                                  ![c].call.seq = w.seq]
    /\ waiters' = [waiters EXCEPT ![Event(c)] = Tail(@)]
    /\ UNCHANGED <<threadVars, active, deleted, evlock, joins, queue>>

PopNone(c) ==
    /\ cpu[c].pc = "pop"
    /\ waiters[Event(c)] = <<>>
    /\ Unlock(c)
    /\ UNCHANGED <<threadVars, active, deleted, waiters, handleVars, queue>>

(* The test of the thread's state is made without thread->lock. *)
\* Faulty variant: the sequence numbers are off by one.
CheckNextSequence(c) ==
    /\ cpu[c].pc = "check"
    /\ Goto(c, IF state[Target(c)] = "awaiting" /\ seq[Target(c)] = cpu[c].call.seq + 1
               THEN "wake" ELSE "skip")
    /\ UNCHANGED <<threadVars, eventVars, handleVars, queue>>

Check(c) ==
    /\ cpu[c].pc = "check"
    /\ Goto(c, IF state[Target(c)] = "awaiting" /\ seq[Target(c)] = cpu[c].call.seq
               THEN "wake" ELSE "skip")
    /\ UNCHANGED <<threadVars, eventVars, handleVars, queue>>

Skip(c) ==
    /\ cpu[c].pc = "skip"
    /\ Release(Target(c))
    /\ cpu' = [cpu EXCEPT ![c].pc = "pop", ![c].call.target = None, ![c].call.seq = 0]
    /\ UNCHANGED <<threadVars, active, evlock, joins, queue>>

Wake(c) ==
    /\ cpu[c].pc = "wake"
    /\ state' = [state EXCEPT ![Target(c)] = "none"]
    /\ seq' = [seq EXCEPT ![Target(c)] = @ + 1]
    /\ Goto(c, "settle")
    /\ UNCHANGED <<regsAway, eventVars, handleVars, queue>>

(* SPINLOOP(thread->reg_state.reg_state_not_present) *)
\* Faulty variant: the saved registers are not waited for.
SettleAtOnce(c) ==
    /\ cpu[c].pc = "settle"
    /\ Goto(c, "enqueue")
    /\ UNCHANGED <<threadVars, eventVars, handleVars, queue>>

Settle(c) ==
    /\ cpu[c].pc = "settle"
    /\ ~regsAway[Target(c)]
    /\ Goto(c, "enqueue")
    /\ UNCHANGED <<threadVars, eventVars, handleVars, queue>>

Enqueue(c) ==
    /\ cpu[c].pc = "enqueue"
    /\ EnqueueThread(Target(c))
    /\ Goto(c, "drop")
    /\ UNCHANGED <<eventVars, handleVars>>

Drop(c) ==
    /\ cpu[c].pc = "drop"
    /\ Release(Target(c))
    /\ IF cpu[c].call.all
       THEN /\ cpu' = [cpu EXCEPT ![c].pc = "pop", ![c].call.target = None,
                                  ![c].call.seq = 0]
            /\ UNCHANGED evlock
       ELSE Unlock(c)
    /\ UNCHANGED <<threadVars, active, joins, queue>>

-----------------------------------------------------------------------------
(* thread_terminate: state is set without thread->lock, the termination     *)
(* event is dispatched to all its waiters and left active.                  *)
Terminate(c) ==
    /\ cpu[c].pc = "run"
    /\ state' = [state EXCEPT ![cpu[c].thread] = "terminated"]
    /\ Goto(c, "terminate")
    /\ UNCHANGED <<regsAway, seq, eventVars, handleVars, queue>>

DispatchTermination(c) ==
    /\ cpu[c].pc = "terminate"
    /\ LockAndDispatch(c, TermEvent[cpu[c].thread], TRUE, TRUE, "switch")

(* The handle of a joined thread is given back (kernel_execute_initializers *)
(* releases the handle of a thread after it awaited its termination event). *)
DropJoin(c) ==
    /\ cpu[c].pc = "run"
    /\ \E u \in Threads :
          /\ <<cpu[c].thread, u>> \in joins
          /\ active[TermEvent[u]]
          /\ joins' = joins \ {<<cpu[c].thread, u>>}
          /\ Release(u)
    /\ UNCHANGED <<threadVars, active, evlock, queue, cpu>>

-----------------------------------------------------------------------------
(* _switch_thread: the timer interrupt, or scheduler_yield. *)
Preempt(c) ==
    /\ cpu[c].pc = "run"
    /\ Goto(c, "switch")
    /\ UNCHANGED <<threadVars, eventVars, handleVars, queue>>

Switch(c) ==
    LET t == cpu[c].thread IN
    /\ cpu[c].pc = "switch"
    /\ IF state[t] = "terminated"
       THEN Goto(c, "delete") /\ UNCHANGED regsAway
       ELSE Goto(c, "recheck") /\ regsAway' = [regsAway EXCEPT ![t] = FALSE]
    /\ UNCHANGED <<state, seq, eventVars, handleVars, queue>>

(* thread->lock has been released: the state is read a second time. *)
Recheck(c) ==
    /\ cpu[c].pc = "recheck"
    /\ IF state[cpu[c].thread] = "running"
       THEN Goto(c, "requeue")
       ELSE cpu' = [cpu EXCEPT ![c].pc = "pick", ![c].thread = None]
    /\ UNCHANGED <<threadVars, eventVars, handleVars, queue>>

Requeue(c) ==
    /\ cpu[c].pc = "requeue"
    /\ EnqueueThread(cpu[c].thread)
    /\ cpu' = [cpu EXCEPT ![c].pc = "pick", ![c].thread = None]
    /\ UNCHANGED <<eventVars, handleVars>>

(* thread_delete *)
Delete(c) ==
    /\ cpu[c].pc = "delete"
    /\ Release(cpu[c].thread)
    /\ cpu' = [cpu EXCEPT ![c].pc = "pick", ![c].thread = None]
    /\ UNCHANGED <<threadVars, active, evlock, joins, queue>>

(* scheduler_load_balancer_get returns a queued thread, or NULL: also when  *)
(* there is one but its queue's lock is taken or its bit is not yet set.    *)
Pick(c, t) ==
    /\ cpu[c].pc = "pick"
    /\ t \in queue
    /\ queue' = queue \ {t}
    /\ cpu' = [cpu EXCEPT ![c].pc = "start", ![c].thread = t]
    /\ UNCHANGED <<threadVars, eventVars, handleVars>>

PickNone(c) ==
    /\ cpu[c].pc = "pick"
    /\ Goto(c, "idle")
    /\ UNCHANGED <<threadVars, eventVars, handleVars, queue>>

(* The picked thread's registers are restored under its lock.               *)
Start(c) ==
    /\ cpu[c].pc = "start"
    /\ state' = [state EXCEPT ![cpu[c].thread] = "running"]
    /\ Goto(c, "run")
    /\ UNCHANGED <<regsAway, seq, eventVars, handleVars, queue>>

(* The timer interrupt of a CPU without a thread. *)
WakeCpu(c) ==
    /\ cpu[c].pc = "idle"
    /\ Goto(c, "pick")
    /\ UNCHANGED <<threadVars, eventVars, handleVars, queue>>

-----------------------------------------------------------------------------
\* What a thread does of its own accord.
ThreadStep(c) ==
    Await(c) \/ SetActive(c) \/ EventDelete(c) \/ Dispatch(c) \/ Terminate(c) \/ DropJoin(c)

\* What a CPU does without being preempted, once it has begun.
KernelStep(c) ==
    \/ AwaitEvent(c) \/ AwaitActive(c) \/ AwaitYield(c)
    \/ Pop(c) \/ PopNone(c) \/ Check(c) \/ Skip(c) \/ Wake(c) \/ Settle(c)
    \/ Enqueue(c) \/ Drop(c) \/ DispatchTermination(c)
    \/ Switch(c) \/ Recheck(c) \/ Requeue(c) \/ Delete(c) \/ Start(c) \/ WakeCpu(c)

CpuStep(c) ==
    \/ ThreadStep(c) \/ KernelStep(c) \/ Preempt(c) \/ PickNone(c)
    \/ \E t \in Threads : Pick(c, t)

\* A thread starts before the CPU that switched away from it has taken its second
\* look at the state (Recheck), which will then find it running.  Nothing in the
\* code keeps the others from being faster than those few instructions.
Overtakes(c) ==
    /\ cpu[c].pc = "start"
    /\ \E d \in Cpus \ {c} : cpu[d].pc = "recheck" /\ cpu[d].thread = cpu[c].thread

Noted(c, A) == A /\ overtaken' = (overtaken \/ Overtakes(c))

Next == \E c \in Cpus : Noted(c, CpuStep(c))

Spec == Init /\ [][Next]_vars

\* Kernel code goes on; the timer of a running thread fires in the end, although
\* the thread keeps entering the kernel (scheduler_resume restarts the timer with
\* what was left of it); a thread on a run queue is not passed over for ever.
FairSpec ==
    /\ Spec
    /\ \A c \in Cpus : WF_vars(Noted(c, KernelStep(c))) /\ SF_vars(Noted(c, Preempt(c)))
    /\ \A t \in Threads : SF_vars(\E c \in Cpus : Noted(c, Pick(c, t)))

-----------------------------------------------------------------------------
(* Types of the variables; the sequence numbers are within their bound.     *)
TypeOK ==
    /\ state \in [Threads -> States]
    /\ regsAway \in [Threads -> BOOLEAN]
    /\ seq \in [Threads -> 0 .. MaxSeq]
    /\ refs \in [Threads -> Nat]
    /\ joins \subseteq Joins
    /\ queue \subseteq Threads
    /\ \A c \in Cpus :
          /\ cpu[c].pc \in Locations
          /\ cpu[c].thread \in Threads \cup {None}
          /\ Target(c) \in Threads \cup {None}
          /\ Event(c) \in Events \cup {None}
    /\ active \in [Events -> BOOLEAN]
    /\ deleted \in [Events -> BOOLEAN]
    /\ \A e \in Events : \A i \in DOMAIN waiters[e] : waiters[e][i].thread \in Threads
    /\ evlock \in [Events -> Cpus \cup {None}]
    /\ overtaken \in BOOLEAN

\* The CPUs that will go on with thread t or put it on a queue.
OnCpu(t) ==
    {c \in Cpus : cpu[c].thread = t /\ (cpu[c].pc = "recheck" => state[t] = "running")}

Wakers(t, locations) == {c \in Cpus : cpu[c].pc \in locations /\ Target(c) = t}

\* A container that will wake t is on a list, or in the hands of a dispatcher.
HasContainer(t) ==
    \/ \E e \in Events : \E i \in DOMAIN waiters[e] :
          waiters[e][i] = [thread |-> t, seq |-> seq[t]]
    \/ \E c \in Wakers(t, {"check", "wake"}) : cpu[c].call.seq = seq[t]

(* A thread is in one place: on one CPU, on a run queue, or about to be     *)
(* queued by the event_dispatch call that woke it, and never in two of      *)
(* these.  Two CPUs never execute the same thread.                          *)
NoThreadTwice ==
    \A t \in Threads :
        Cardinality(OnCpu(t)) + Cardinality(Wakers(t, {"enqueue"}))
            + (IF t \in queue THEN 1 ELSE 0) <= 1

(* No wakeup is lost between event_await and event_dispatch: a thread that  *)
(* has not terminated is on a CPU, on a run queue, being woken, or waits    *)
(* with a container that a later dispatch will find.  event_delete drops    *)
(* the containers of its event, and its waiters sleep on.                   *)
NoThreadLost ==
    \A t \in Threads :
        \/ state[t] = "terminated"
        \/ OnCpu(t) # {}
        \/ t \in queue
        \/ Wakers(t, {"settle", "enqueue"}) # {}
        \/ state[t] = "awaiting" /\ (HasContainer(t) \/ \E e \in Deletable : deleted[e])

(* Every thread that is to run is on one run queue or one CPU, or in the   *)
(* hands of one dispatch that will queue it, and on no more than one, until *)
(* a thread overtakes the CPU that leaves it (scheduler.c, event.c).       *)
ThreadsAreInOnePlace == overtaken \/ (NoThreadTwice /\ NoThreadLost)

(* event_dispatch looks at thread->state and event_sequence_id without      *)
(* thread->lock; what it saw still holds when it changes them, until a      *)
(* thread overtakes the CPU that leaves it.                                 *)
CheckStillHolds ==
    \A c \in Cpus :
        cpu[c].pc = "wake" /\ ~overtaken =>
            state[Target(c)] = "awaiting" /\ seq[Target(c)] = cpu[c].call.seq

(* _thread_handle_destructor never panics: a CPU that gives up the last     *)
(* handle of a thread, after a switch or after a dispatch, finds the thread *)
(* terminated, until a thread overtakes the CPU that leaves it.             *)
NoUnterminatedDelete ==
    \A c \in Cpus, t \in Threads :
        /\ refs[t] = 1 /\ ~overtaken
        /\ \/ cpu[c].pc = "delete" /\ cpu[c].thread = t
           \/ cpu[c].pc \in {"skip", "drop"} /\ Target(c) = t
        => state[t] = "terminated"

(* A thread that waits for the end of another one, as                       *)
(* kernel_execute_initializers does, runs again after that thread ended,    *)
(* unless one overtakes the CPU that leaves it.                             *)
JoinReturns ==
    \A j \in Joins :
        (state[j[2]] = "terminated" /\ state[j[1]] = "awaiting"
            /\ \E i \in DOMAIN waiters[TermEvent[j[2]]] :
                  waiters[TermEvent[j[2]]][i] = [thread |-> j[1], seq |-> seq[j[1]]])
        ~> state[j[1]] = "running" \/ overtaken

=============================================================================
