------------------------------- MODULE MCSync -------------------------------
(* The parts that threads and CPUs synchronise by, on small instances: the *)
(* reader-writer lock with three threads and a word of five bits, which    *)
(* wraps around in the same way as one of 32; the mutex with three         *)
(* threads; two timers; three run queues and two CPUs; a ring with two     *)
(* readers and two writers; and two callers of the module loader.  `part`  *)
(* says which of them a behaviour is about; the others stay in their       *)
(* initial states.                                                         *)
EXTENDS RWLock

CONSTANTS
    a, b, c, d, NoThread,
    BadKind     \* how the file of the module "bad" is broken

VARIABLES part,
    mvalue, mlockpc, mmet, holder, sleeping, mpc, owns, rc, isDeleted, gone,
    clock, tree, treeLock, timer, event, tcpu, late, updates,
    queue, qlock, bitmap, index, qcpu, outside, adds,
    buffer, read_index, write_index, read_count, write_count, read_lock, write_lock,
    read_event, write_event, rpc, received, peeked,
    module, loader, symbols, caller, loads, initialised

\* Three threads that read, two of which also write.
WritersAB == {a, b}
ReadersABC == {a, b, c}
MCWordSize == 32

Mutex == INSTANCE Mutex WITH
    Threads <- {a, b, c}, Queriers <- {a, b}, Deleters <- {a, b}, WordSize <- 16,
    value <- mvalue, lockpc <- mlockpc, met <- mmet, pc <- mpc
mutexVars == <<mvalue, mlockpc, mmet, holder, sleeping, mpc, owns, rc, isDeleted, gone>>

\* Two timers, with at most two calls of timer_update until time 2.
Timers == INSTANCE Timer WITH
    Timers <- {a, b}, CPUs <- {1}, Threads <- {c}, None <- NoThread,
    MaxTime <- 2, MaxUpdates <- 2, Intervals <- {0, 1}, Counts <- {0, 2}, cpu <- tcpu
timerVars == <<clock, tree, treeLock, timer, event, tcpu, late, updates>>

\* Thread b has a higher range of queues, and c is forced to the last one.
RunQueues == INSTANCE LoadBalancer WITH
    Threads <- {a, b, c}, CPUs <- {1, 2}, None <- NoThread, QueueCount <- 3, MaxAdds <- 4,
    MinQueue <- [t \in {a, b, c} |-> IF t = b THEN 1 ELSE 0],
    MaxQueue <- [t \in {a, b, c} |-> IF t = b THEN 2 ELSE 1],
    Forced <- [t \in {a, b, c} |-> IF t = c THEN 2 ELSE 0],
    lock <- qlock, cpu <- qcpu
queueVars == <<queue, qlock, bitmap, index, qcpu, outside, adds>>

\* Two slots and three items.
Ring == INSTANCE Ring WITH
    Readers <- {a, b}, Writers <- {c, d}, Peekers <- {a}, None <- NoThread,
    Capacity <- 2, MaxItems <- 3, pc <- rpc
ringVars == <<buffer, read_index, write_index, read_count, write_count, read_lock, write_lock,
              read_event, write_event, rpc, received, peeked>>

\* One module needs another; a third unloads itself, a fourth is broken.
Modules == INSTANCE ModuleLoader WITH
    Names <- {"net", "udp", "init", "bad"}, PreventLoads <- {"net"},
    Kind <- [net |-> "good", udp |-> "good", init |-> "unloads_itself", bad |-> BadKind],
    Depends <- [net |-> <<>>, udp |-> <<"net">>, init |-> <<>>, bad |-> <<>>],
    Callers <- {a, b}, Unloaders <- {a}, Alone <- TRUE, MaxLoads <- 2, thread <- loader
moduleVars == <<module, loader, symbols, caller, loads, initialised>>

mcvars == <<part, vars, mutexVars, timerVars, queueVars, ringVars, moduleVars>>

MCInit ==
    /\ part \in {"rwlock", "mutex", "timer", "queues", "ring", "modules"}
    /\ Init /\ Mutex!Init /\ Timers!Init /\ RunQueues!Init /\ Ring!Init /\ Modules!Init

RWLockStep(A) == part = "rwlock" /\ A /\ UNCHANGED <<part, mutexVars, timerVars, queueVars, ringVars, moduleVars>>
MutexStep(A) == part = "mutex" /\ A /\ UNCHANGED <<part, vars, timerVars, queueVars, ringVars, moduleVars>>
TimerStep(A) == part = "timer" /\ A /\ UNCHANGED <<part, vars, mutexVars, queueVars, ringVars, moduleVars>>
QueueStep(A) == part = "queues" /\ A /\ UNCHANGED <<part, vars, mutexVars, timerVars, ringVars, moduleVars>>
RingStep(A) == part = "ring" /\ A /\ UNCHANGED <<part, vars, mutexVars, timerVars, queueVars, moduleVars>>
ModuleStep(A) == part = "modules" /\ A /\ UNCHANGED <<part, vars, mutexVars, timerVars, queueVars, ringVars>>

MCNext ==
    \/ RWLockStep(Next) \/ MutexStep(Mutex!Next) \/ TimerStep(Timers!Next)
    \/ QueueStep(RunQueues!Next) \/ RingStep(Ring!Next) \/ ModuleStep(Modules!Next)

(* The fairness of RWLock!FairSpec, Timer!Fairness, LoadBalancer!Fairness, *)
(* Ring!FairSpec and ModuleLoader!Fairness.  As a behaviour is about one   *)
(* part only, the fairness of one action of every part is stated together. *)
MCSpec ==
    /\ MCInit /\ [][MCNext]_mcvars
    /\ WF_mcvars(RWLockStep(Proceed(a)) \/ RingStep(Ring!Proceed(a))
                 \/ TimerStep(Timers!DispatchBegin(1)) \/ QueueStep(RunQueues!GetBegin(1))
                 \/ ModuleStep(Modules!CallerStep(a)))
    /\ WF_mcvars(RWLockStep(Proceed(b)) \/ RingStep(Ring!Proceed(b))
                 \/ TimerStep(Timers!DispatchNone(1) \/ Timers!DispatchWake(1))
                 \/ QueueStep(RunQueues!Get(1)) \/ ModuleStep(Modules!CallerStep(b)))
    /\ WF_mcvars(RWLockStep(Proceed(c)) \/ RingStep(Ring!Proceed(c))
                 \/ TimerStep(Timers!DispatchFire(1)) \/ QueueStep(RunQueues!Add(1))
                 \/ ModuleStep(Modules!ThreadStep("net")))
    /\ WF_mcvars(RingStep(Ring!Proceed(d)) \/ TimerStep(Timers!DeleteEnd(a))
                 \/ QueueStep(RunQueues!GetBegin(2)) \/ ModuleStep(Modules!ThreadStep("udp")))
    /\ WF_mcvars(RingStep(Ring!Call(a)) \/ TimerStep(Timers!DeleteEnd(b))
                 \/ QueueStep(RunQueues!Get(2)) \/ ModuleStep(Modules!ThreadStep("init")))
    /\ WF_mcvars(RingStep(Ring!Call(b)) \/ TimerStep(Timers!Tick) \/ QueueStep(RunQueues!Add(2))
                 \/ ModuleStep(Modules!ThreadStep("bad")))

\* The module loader alone.
LoaderSpec == MCSpec /\ part = "modules"

(* The handle's reference count keeps the mutex alive for the calls in     *)
(* progress (mutex.c, syscall_mutex_delete), and that of a module counts   *)
(* who uses it, on every way to load and unload it; its symbols are in the *)
(* table as long as its code may run (module.c).                           *)
NoUseAfterDelete ==
    /\ part = "mutex" => Mutex!NoUseAfterDelete
    /\ part = "modules" => Modules!ModulesAreCounted /\ Modules!SymbolsAreOfModules

(* The mutex implements an exclusive lock, held from the return of         *)
(* mutex_acquire to the call of mutex_release, until two queries for the   *)
(* holder meet.                                                            *)
ImplementsExclusiveLock == Mutex!ImplementsExclusiveLock

(* Whenever its lock is free, the timer tree holds exactly the armed       *)
(* timers, but for those that collided with a deadline (timer.c).          *)
TreeIsExact == part = "timer" => Timers!TreeIsExact

(* A thread sleeps on a timer that has fired for the last time only if it  *)
(* went to sleep between lines 184 and 186 of timer_dispatch_timers, and   *)
(* the readers or writers of a ring sleep over work only while somebody is *)
(* about to wake one (ring.c); a thread that sleeps for a mutex is on the  *)
(* list of its event exactly once (mutex.c, mutex_acquire).                *)
NoLostWakeup ==
    /\ part = "timer" => Timers!NoLostWakeup
    /\ part = "ring" => Ring!NoSleepOverWork
    /\ part = "mutex" => Mutex!SleepersAreListed

(* A thread is in one place, and a queue that is not empty and that nobody *)
(* holds has its bit in the bitmap (load_balancer.c); the items of a ring  *)
(* are popped in the order of its slots, none lost and none twice          *)
(* (ring.c); modules are initialised after those that they need            *)
(* (module.c).                                                             *)
QueuesAreExact ==
    /\ part = "queues" => RunQueues!BitmapShowsQueues /\ RunQueues!OnePlace
    /\ part = "ring" => Ring!InOrderInBuffer
    /\ part = "modules" => Modules!DependenciesFirst

(* Every queued thread is taken once no more are added                     *)
(* (scheduler_load_balancer_get), every item of a ring is popped, a timer  *)
(* in the tree whose deadline has passed leaves it or is set again         *)
(* (timer_dispatch_timers), and who waits for a module that can be loaded  *)
(* returns (module_load).                                                  *)
QueuesDrain ==
    /\ Timers!DueTimerLeaves /\ RunQueues!QueuedIsTaken
    /\ Ring!Delivered /\ Modules!LoadOfGoodReturns

(* Every call of module_load returns, as the tests of modules that cannot  *)
(* be loaded expect (module/test/test/module.c).                           *)
LoadReturns == Modules!LoadReturns
=============================================================================
