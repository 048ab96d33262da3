-------------------------------- MODULE Timer -------------------------------
(***************************************************************************)
(* Timers (kernel/timer/timer.c).  Armed timers are nodes of a tree keyed  *)
(* by their deadline; timers with equal deadlines are meant to hang off    *)
(* the one in the tree.  The scheduler's interrupt calls                   *)
(* timer_dispatch_timers on every CPU; each timer is updated and deleted   *)
(* by one owner (timer_update and timer_delete take the timer's and the    *)
(* tree's lock in opposite orders, so two owners could block each other);  *)
(* any thread may sleep on a timer's event, without the timer's locks.     *)
(***************************************************************************)
EXTENDS EventQueue, Integers, FiniteSets

CONSTANTS Timers, CPUs, Threads, None, MaxTime, MaxUpdates, Intervals, Counts

VARIABLES
    clock,      \* clock_get_time()
    tree,       \* _timer_tree: the timers whose node is in it
    treeLock,   \* holder of _timer_tree_lock
    timer,      \* the fields of every timer_t; lock is its holder
    event,      \* timer->event
    cpu,        \* the call of timer_dispatch_timers on every CPU
    late,       \* history: threads that slept between line 184 and line 186
    updates     \* history: calls of timer_update, at most MaxUpdates

vars == <<clock, tree, treeLock, timer, event, cpu, late, updates>>

NewTimer == [key |-> 0, prev |-> None, next |-> None, interval |-> 0,
             count |-> 0, deleted |-> FALSE, lock |-> None]

Init ==
    /\ clock = 1 /\ tree = {} /\ treeLock = None /\ late = {} /\ updates = 0
    /\ timer = [t \in Timers |-> NewTimer]
    /\ event = [t \in Timers |-> NewEvent]
    /\ cpu = [c \in CPUs |-> [pc |-> "idle", time |-> 0, timer |-> None]]

(* The tree and the timers, as one value that the helpers below transform. *)
Heap == [tree |-> tree, timer |-> timer]

(* rb_tree_lookup_or_insert_node: nothing is inserted when the key is      *)
(* there already, and the caller then gets its own node, not the other one *)
Inserted(h, t) == \A u \in h.tree : h.timer[u].key # h.timer[t].key

(* _schedule_timer: chain is the node that the lookup returned, t itself;  *)
(* as every caller has cleared t's links, t ends up linked to itself.      *)
_schedule_timer(h, t) ==
    IF Inserted(h, t) THEN [h EXCEPT !.tree = @ \union {t}]
    ELSE [h EXCEPT !.timer[t].prev = t, !.timer[t].next = t]

RemoveNode(h, t) ==
    IF h.timer[t].prev = None /\ h.timer[t].key # 0
    THEN [h EXCEPT !.tree = @ \ {t}] ELSE h

SetPrev(h, t, p) == IF t = None THEN h ELSE [h EXCEPT !.timer[t].prev = p]
SetNext(h, t, n) == IF t = None THEN h ELSE [h EXCEPT !.timer[t].next = n]

_remove_from_chain(h, t) ==
    LET prev == h.timer[t].prev
        next == h.timer[t].next
        head == IF prev = None /\ next # None
                THEN [h EXCEPT !.tree = @ \union {next}]
                ELSE SetNext(h, prev, next)
    IN  SetNext(SetPrev(SetPrev(head, next, prev), t, None), t, None)

Leave(h, t) == _remove_from_chain(RemoveNode(h, t), t)

Become(h) == tree' = h.tree /\ timer' = h.timer

-----------------------------------------------------------------------------
(* timer_update.  Holding the tree's lock it waits for the timer's, which  *)
(* then only its owner could hold.  A count of 0 gives an absolute time,   *)
(* where 0 disarms the timer.                                              *)
Rearmed(t, interval, count) ==
    LET gone == Leave(Heap, t)
        key  == IF count = 0 THEN interval ELSE clock + interval
        set  == [gone EXCEPT !.timer[t].key = key,
                             !.timer[t].count = count,
                             !.timer[t].interval = IF count = 0 THEN @ ELSE interval]
    IN  IF key = 0 THEN set ELSE _schedule_timer(set, t)

timer_update(t, interval, count) ==
    /\ treeLock = None /\ timer[t].lock = None /\ ~timer[t].deleted
    /\ Become(Rearmed(t, interval, count))
    /\ event' = [event EXCEPT ![t] = SetActive(@, FALSE)]
    /\ updates < MaxUpdates /\ updates' = updates + 1
    /\ UNCHANGED <<clock, treeLock, cpu, late>>

(* timer_delete: the timer's lock first, then the tree's.  event_delete    *)
(* leaves the threads that sleep on the event as they are (event.c:148).   *)
DeleteBegin(t) ==
    /\ timer[t].lock = None /\ ~timer[t].deleted
    /\ timer' = [timer EXCEPT ![t].lock = t, ![t].deleted = TRUE]
    /\ UNCHANGED <<clock, tree, treeLock, event, cpu, late, updates>>

(* Faulty variant: a deleted timer stays in the tree.                      *)
DeleteEndInTree(t) ==
    /\ timer[t].lock = t /\ treeLock = None
    /\ timer' = [timer EXCEPT ![t].lock = None]
    /\ UNCHANGED <<clock, tree, treeLock, event, cpu, late, updates>>

DeleteEnd(t) ==
    /\ timer[t].lock = t /\ treeLock = None
    /\ LET gone == Leave(Heap, t)
       IN  Become([gone EXCEPT !.timer[t].lock = None])
    /\ UNCHANGED <<clock, treeLock, event, cpu, late, updates>>

-----------------------------------------------------------------------------
(* timer_dispatch_timers: the time is read before the lock is taken.       *)
DispatchBegin(c) ==
    /\ cpu[c].pc = "idle"
    /\ cpu' = [cpu EXCEPT ![c].pc = "lock", ![c].time = clock]
    /\ UNCHANGED <<clock, tree, treeLock, timer, event, late, updates>>

(* rb_tree_lookup_decreasing_node: the latest deadline that has passed     *)
Due(time) == {t \in tree : timer[t].key <= time}
Latest(S) == CHOOSE t \in S : \A u \in S : timer[u].key <= timer[t].key

(* Nothing due, or the timer's lock is taken: only the delay is computed.  *)
DispatchNone(c) ==
    /\ cpu[c].pc = "lock" /\ treeLock = None
    /\ LET due == Due(cpu[c].time) IN due # {} => timer[Latest(due)].lock # None
    /\ cpu' = [cpu EXCEPT ![c].pc = "idle", ![c].time = 0]
    /\ UNCHANGED <<clock, tree, treeLock, timer, event, late, updates>>

(* Faulty variant: the sleepers are not woken.                             *)
DispatchWakeNobody(c) ==
    /\ cpu[c].pc = "lock" /\ treeLock = None /\ Due(cpu[c].time) # {}
    /\ LET t    == Latest(Due(cpu[c].time))
           gone == Leave(Heap, t)
       IN  /\ timer[t].lock = None
           /\ Become([gone EXCEPT !.timer[t].lock = c])
           /\ cpu' = [cpu EXCEPT ![c].pc = "fire", ![c].timer = t]
    /\ treeLock' = c
    /\ UNCHANGED <<clock, event, late, updates>>

(* Lines 174-184: the timer leaves the tree and its sleepers are woken.    *)
DispatchWake(c) ==
    /\ cpu[c].pc = "lock" /\ treeLock = None /\ Due(cpu[c].time) # {}
    /\ LET t    == Latest(Due(cpu[c].time))
           gone == Leave(Heap, t)
       IN  /\ timer[t].lock = None
           /\ Become([gone EXCEPT !.timer[t].lock = c])
           /\ event' = [event EXCEPT ![t].waiting = <<>>]
           /\ cpu' = [cpu EXCEPT ![c].pc = "fire", ![c].timer = t]
    /\ treeLock' = c
    /\ UNCHANGED <<clock, late, updates>>

(* Lines 185-199: the last expiry makes the event active, an earlier one   *)
(* schedules the next.                                                     *)
DispatchFire(c) ==
    LET t    == cpu[c].timer
        last == timer[t].count <= 1
        key  == IF last THEN 0 ELSE cpu[c].time + timer[t].interval
        set  == [Heap EXCEPT !.timer[t].lock = None, !.timer[t].key = key,
                             !.timer[t].count = IF last THEN 0 ELSE @ - 1]
    IN  /\ cpu[c].pc = "fire"
        /\ Become(IF last THEN set ELSE _schedule_timer(set, t))
        /\ event' = [event EXCEPT ![t] = IF last THEN SetActive(@, TRUE) ELSE @]
        /\ treeLock' = None
        /\ cpu' = [cpu EXCEPT ![c] = [pc |-> "idle", time |-> 0, timer |-> None]]
        /\ UNCHANGED <<clock, late, updates>>

-----------------------------------------------------------------------------
Sleepers(t) == WokenAll(event[t])
Asleep == UNION {Sleepers(t) : t \in Timers}
Firing(t) == \E c \in CPUs : cpu[c].timer = t

(* event_await on the timer's event (the ARP and DNS queries, the memory   *)
(* reset thread); a caller that finds it active returns at once.           *)
Await(th, t) ==
    /\ th \notin Asleep /\ ~timer[t].deleted /\ MustSleep(event[t])
    /\ event' = [event EXCEPT ![t] = Sleep(@, th)]
    /\ late' = IF Firing(t) THEN late \union {th} ELSE late \ {th}
    /\ UNCHANGED <<clock, tree, treeLock, timer, cpu, updates>>

Tick ==
    /\ clock < MaxTime
    /\ clock' = clock + 1
    /\ UNCHANGED <<tree, treeLock, timer, event, cpu, late, updates>>

Dispatch(c) == DispatchBegin(c) \/ DispatchNone(c) \/ DispatchWake(c) \/ DispatchFire(c)

Next ==
    \/ \E t \in Timers :
          \/ \E i \in Intervals, n \in Counts : timer_update(t, i, n)
          \/ DeleteBegin(t) \/ DeleteEnd(t)
          \/ \E th \in Threads : Await(th, t)
    \/ \E c \in CPUs : Dispatch(c)
    \/ Tick

(* The interrupt comes again and again on every CPU, spin locks are        *)
(* granted, and the clock runs.                                            *)
Fairness ==
    /\ \A c \in CPUs : WF_vars(DispatchBegin(c))
                       /\ WF_vars(DispatchNone(c) \/ DispatchWake(c))
                       /\ WF_vars(DispatchFire(c))
    /\ \A t \in Timers : WF_vars(DeleteEnd(t))
    /\ WF_vars(Tick)

Spec == Init /\ [][Next]_vars /\ Fairness

-----------------------------------------------------------------------------
(* The code's own shape of the collision of two deadlines: the second      *)
(* timer is linked to itself and is not in the tree.                       *)
Collided(t) == timer[t].prev = t

(* Whenever the tree's lock is free, the tree holds exactly the armed      *)
(* timers, one for each deadline, and nothing of a deleted one; an armed   *)
(* timer that is missing is one whose deadline was taken when it was       *)
(* scheduled, so dispatch, update and deletion leave no other timer behind *)
TreeIsExact ==
    treeLock = None =>
        /\ \A t \in Timers : ~Collided(t) =>
              (t \in tree <=> timer[t].key # 0 /\ (timer[t].deleted => timer[t].lock = t))
        /\ \A t \in tree : timer[t].prev = None /\ timer[t].next = None
        /\ \A t, u \in tree : timer[t].key = timer[u].key => t = u

(* A thread sleeps on a timer that has fired for the last time only if it  *)
(* went to sleep between the wake-up and the store that makes the event    *)
(* active (line 184 against 186).                                          *)
NoLostWakeup ==
    \A t \in Timers : event[t].active => Sleepers(t) \subseteq late

(* A timer in the tree whose deadline has passed is fired, set again or    *)
(* deleted, however the other timers, which are dispatched first when      *)
(* their deadline is later, interleave.  (Timers that are set again and    *)
(* again to deadlines that have passed would keep it waiting: the bound on *)
(* the calls of timer_update is what ends that.)                           *)
DueTimerLeaves ==
    \A t \in Timers : []<>(t \notin tree \/ timer[t].key > clock)
=============================================================================
