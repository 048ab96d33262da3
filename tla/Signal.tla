-------------------------------- MODULE Signal ------------------------------
(***************************************************************************)
(* Signals (kernel/signal/signal.c) of one user process and its threads: a *)
(* signal is sent to a thread or to the process, is refused when masked,   *)
(* and stays pending at the first thread that does not mask it, or at the  *)
(* process.  It wakes a sleeping thread and is delivered when the thread   *)
(* leaves the kernel.  SIGNAL_KILL, which signal_dispatch does not let     *)
(* through, is left out.                                                   *)
(***************************************************************************)
EXTENDS Integers, Sequences

CONSTANTS
    Threads,    \* in the order of thread_list, a sequence
    SignalMax,  \* SIGNAL_MAX
    IntBits,    \* width of the int in the expression 1<<signal
    Sent,       \* the signals that are sent
    Stale,      \* the signals that a new process's memory may hold
    MaskSets    \* the masks that threads set

VARIABLES
    process,    \* mask and pending signals of process->signal_state
    thread,     \* state, mask, pending signals and handler of every thread
    active,     \* threads whose signal_state.event is active; nothing resets it
    todo,       \* threads whose event is still to be dispatched
    origin      \* history: signals that were sent, or found in a new process's memory

vars == <<process, thread, active, todo, origin>>

Tids == {Threads[k] : k \in DOMAIN Threads}

(* 1<<signal has the width of int: its top bit is extended into the upper  *)
(* half of the 64-bit set, and a larger shift wraps around.                *)
Bit(s) == LET i == s % IntBits IN IF i = IntBits - 1 THEN i..SignalMax ELSE {i}
Masks(mask, s) == mask \intersect Bit(s) # {}
FirstOf(S) == CHOOSE b \in S : \A c \in S : b <= c

(* A new process's signal_state is not initialised (process.c:164 sets up  *)
(* the kernel process's once more): it holds what was in the memory, such  *)
(* as the signals of a process that is gone.  A thread's is initialised.   *)
NewThread == [state |-> "running", mask |-> {}, pending |-> {}, handler |-> "none"]

Init ==
    /\ \E mask, pending \in SUBSET Stale :
          process = [mask |-> mask, pending |-> pending] /\ origin = pending
    /\ thread = [t \in Tids |-> IF t = Threads[1] THEN NewThread
                                ELSE [NewThread EXCEPT !.state = "none"]]
    /\ active = {} /\ todo = {}

Alive(t) == thread[t].state \in {"running", "asleep"}

(* Faulty variant: a thread that sleeps is not woken.                      *)
SignalledAsleep(th, s) == [th EXCEPT !.pending = @ \union Bit(s)]

(* _thread_wakeup_if_waiting, with the new signal added                    *)
Signalled(th, s) ==
    [th EXCEPT !.pending = @ \union Bit(s),
               !.state = IF @ = "asleep" THEN "running" ELSE @]

(* Faulty variant: the event is not dispatched.                            *)
SignalThreadSilent(t, s) ==
    /\ Alive(t) /\ ~Masks(thread[t].mask, s)
    /\ thread' = [thread EXCEPT ![t] = Signalled(@, s)]
    /\ origin' = origin \union {s}
    /\ UNCHANGED <<process, active, todo>>

(* _dispatch_signal_to_thread; the event follows in DispatchEvent          *)
SignalThread(t, s) ==
    /\ Alive(t) /\ ~Masks(thread[t].mask, s)
    /\ thread' = [thread EXCEPT ![t] = Signalled(@, s)]
    /\ todo' = todo \union {t}
    /\ origin' = origin \union {s}
    /\ UNCHANGED <<process, active>>

(* _dispatch_signal_to_process, under the locks of the process and of its  *)
(* thread list (a group's members get it one after the other)              *)
Takers(s) == {k \in DOMAIN Threads : Alive(Threads[k]) /\ ~Masks(thread[Threads[k]].mask, s)}

SignalProcess(s) ==
    /\ ~Masks(process.mask, s)
    /\ IF Takers(s) # {}
       THEN LET t == Threads[FirstOf(Takers(s))]
            IN  /\ thread' = [thread EXCEPT ![t] = Signalled(@, s)]
                /\ todo' = todo \union {t}
                /\ UNCHANGED process
       ELSE /\ process' = [process EXCEPT !.pending = @ \union Bit(s)]
            /\ UNCHANGED <<thread, todo>>
    /\ origin' = origin \union {s}
    /\ UNCHANGED active

(* event_dispatch, after the locks were released (lines 69, 110 and 300)   *)
DispatchEvent(t) ==
    /\ t \in todo /\ todo' = todo \ {t}
    /\ active' = active \union {t}
    /\ UNCHANGED <<process, thread, origin>>

-----------------------------------------------------------------------------
Runs(t) == thread[t].state = "running"

(* event_await on any event: the pending signals are not looked at         *)
Await(t) ==
    /\ Runs(t)
    /\ thread' = [thread EXCEPT ![t].state = "asleep"]
    /\ UNCHANGED <<process, active, todo, origin>>

Wake(t) ==
    /\ thread[t].state = "asleep"
    /\ thread' = [thread EXCEPT ![t].state = "running"]
    /\ UNCHANGED <<process, active, todo, origin>>

(* _signal_return_from_syscall, and syscall_signal_get_signal of a thread  *)
(* with the synchronous handler: one signal, the lowest.  Without handler  *)
(* the thread ends.                                                        *)
Deliver(t) ==
    /\ Runs(t) /\ thread[t].pending # {}
    /\ LET s == FirstOf(thread[t].pending)
       IN  thread' = [thread EXCEPT ![t].pending = @ \ {s},
                        ![t].state = IF thread[t].handler = "none" THEN "gone" ELSE @]
    /\ UNCHANGED <<process, active, todo, origin>>

(* syscall_signal_set_handler; SIGNAL_HANDLER_SYNC and a function differ   *)
(* only in who takes the signal                                            *)
SetHandler(t) ==
    /\ Runs(t) /\ thread[t].handler = "none"
    /\ thread' = [thread EXCEPT ![t].handler = "set"]
    /\ UNCHANGED <<process, active, todo, origin>>

(* syscall_signal_set_mask, of the process or of the calling thread, which *)
(* then takes over what the process kept                                   *)
SetProcessMask(t, mask) ==
    /\ Runs(t)
    /\ process' = [mask |-> mask, pending |-> process.pending \ mask]
    /\ UNCHANGED <<thread, active, todo, origin>>

(* Faulty variant: the process's signals are cleared but not taken over.   *)
SetThreadMaskForgetting(t, mask) ==
    /\ Runs(t)
    /\ process' = [process EXCEPT !.pending = @ \intersect mask]
    /\ thread' = [thread EXCEPT ![t].mask = mask, ![t].pending = @ \ mask]
    /\ UNCHANGED <<active, todo, origin>>

SetThreadMask(t, mask) ==
    LET moved == process.pending \ mask
    IN  /\ Runs(t)
        /\ process' = [process EXCEPT !.pending = @ \ moved]
        /\ thread' = [thread EXCEPT ![t].mask = mask, ![t].pending = (@ \ mask) \union moved]
        /\ todo' = IF moved = {} THEN todo ELSE todo \union {t}
        /\ UNCHANGED <<active, origin>>

(* thread_create_user_thread: signal_thread_state_init                     *)
CreateThread(t) ==
    /\ thread[t].state = "none" /\ \E u \in Tids : Runs(u)
    /\ thread' = [thread EXCEPT ![t] = NewThread]
    /\ UNCHANGED <<process, active, todo, origin>>

Next ==
    \/ \E s \in Sent : SignalProcess(s) \/ \E t \in Tids : SignalThread(t, s)
    \/ \E t \in Tids :
          \/ DispatchEvent(t) \/ Await(t) \/ Wake(t) \/ Deliver(t) \/ SetHandler(t) \/ CreateThread(t)
          \/ \E mask \in MaskSets : SetProcessMask(t, mask) \/ SetThreadMask(t, mask)

Spec == Init /\ [][Next]_vars

-----------------------------------------------------------------------------
(* A signal interrupts a sleeping thread: none becomes pending at a thread *)
(* that stays asleep.  (One that was pending when the thread went to sleep *)
(* may stay so: event_await does not look.)                                *)
SignalsInterruptSleep ==
    [][\A t \in Tids : thread[t].state = "asleep" /\ thread'[t].state = "asleep"
                       => thread'[t].pending \subseteq thread[t].pending]_vars

(* A signal that the process keeps is one that every thread masks, the     *)
(* first of them to unmask it takes it, and it goes nowhere else unless    *)
(* the process masks it, however masks and signals interleave.  (A thread  *)
(* created later does not take it.)                                        *)
KeptUntilUnmasked ==
    [][/\ \A t \in Tids, s \in process'.pending :
             Alive(t) /\ (s \in thread[t].mask \/ s \notin process.pending)
             => s \in thread'[t].mask
       /\ \A s \in process.pending \ process'.pending :
             s \in process'.mask \/ \E t \in Tids : s \in thread'[t].pending]_vars

(* A thread with a pending signal has an active event, or is about to: its *)
(* loop that waits for signals does not sleep over one.                    *)
PendingIsAnnounced ==
    \A t \in Tids : Alive(t) /\ thread[t].pending # {} => t \in active \/ t \in todo

(* A signal is pending, at the process or at a thread, only if one of that *)
(* number was sent and not refused, or was in the memory that the process  *)
(* was made in: none turns into another on its way.                        *)
PendingHasOrigin ==
    process.pending \union UNION {thread[t].pending : t \in Tids} \subseteq origin
=============================================================================
