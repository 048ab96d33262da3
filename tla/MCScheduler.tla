---------------------------- MODULE MCScheduler -----------------------------
(* Small instances of Scheduler: two threads, events that they share and   *)
(* the termination event of each.  MCSpec is about two machines at once:   *)
(* one with two CPUs, whose threads wait for one event at a time, and one  *)
(* with a single CPU, whose threads also wait for two.  When the set of    *)
(* CPUs is empty a behaviour is one of Process instead: two processes and  *)
(* three thread structures, two of them when a process has changed its     *)
(* directory to another one than that of the first.  Of a machine on which *)
(* a thread has overtaken the CPU that leaves it nothing is claimed, and   *)
(* it stops there.                                                         *)
EXTENDS Scheduler

CONSTANTS a, b, c1, c2, ev, ev2, ta, tb

VARIABLES
    machine,        \* the CPUs of the machine
    process, thread, member, grouprc, noderc, broken

Process == INSTANCE Process WITH
    Processes <- {1, 2}, Threads <- {1, 2, 3}, First <- 1, FirstThread <- 1,
    Nodes <- {"home", "other"}, Home <- "home"

processVars == <<process, thread, member, grouprc, noderc, broken>>

TwoThreads == {a, b}
TwoCpus == {c1, c2}
MCTermEvent == [t \in Threads |-> IF t = a THEN ta ELSE tb]
OneEvent == {ev, ta, tb}
TwoEvents == {ev, ev2, ta, tb}
AJoinsB == {<<a, b>>}
OnlyEv == {ev}
DoubleWaits == {<<ev, ev2>>}
WaitsAndJoins == {<<ev>>, <<tb>>, <<ev, tb>>}

MCInit == Init /\ Process!Init /\ machine \in {{}, {c1}, {c1, c2}}

Machine(A) == A /\ UNCHANGED <<processVars, machine>>

MCNext ==
    \/ /\ ~overtaken /\ Machine(\E c \in machine : Noted(c, CpuStep(c)))
       /\ \A c \in Cpus : Len(cpu'[c].rest) > 1 => machine = {c1}
    \/ overtaken /\ Machine(UNCHANGED vars)
    \/ /\ machine = {} /\ Process!Next /\ UNCHANGED <<vars, machine>>
       /\ noderc'["other"] > 0 /\ ~broken' => thread'[3].state = "free"

mcvars == <<vars, processVars, machine>>

\* The fairness of FairSpec, for the CPUs that the machine has.
MCSpec ==
    /\ MCInit /\ [][MCNext]_mcvars
    /\ \A c \in Cpus :
          /\ WF_mcvars(Machine(c \in machine /\ ~overtaken /\ Noted(c, KernelStep(c))))
          /\ SF_mcvars(Machine(c \in machine /\ ~overtaken /\ Noted(c, Preempt(c))))
    /\ \A t \in Threads :
          SF_mcvars(Machine(\E c \in machine : ~overtaken /\ Noted(c, Pick(c, t))))

\* A machine with two CPUs and waits for two events.
PairSpec == Init /\ Process!Init /\ machine = Cpus /\ [][Machine(Next)]_mcvars

(* Processes, threads, process groups and the directories of processes are *)
(* counted exactly by those who use them, a process keeps itself while it  *)
(* has threads and announces its end when they are gone, as long as no two *)
(* callers start one thread or change one directory at once, no directory  *)
(* changes while process_create copies it and no two last threads of a     *)
(* process leave its list together (process.c, thread.c, thread_list.c,    *)
(* process_group.c, elf.c).                                                *)
ProcessesAreHeld ==
    machine = {} => /\ Process!ProcessesAreCounted /\ Process!ThreadsAreCounted
                    /\ Process!GroupAndDirectoriesAreCounted
=============================================================================
