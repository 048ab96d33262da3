------------------------------ MODULE Process -------------------------------
(***************************************************************************)
(* Processes and their threads (kernel/mp/process.c, thread.c,             *)
(* thread_list.c, process_group.c, and elf_load in kernel/elf/elf.c): a    *)
(* thread starts processes and threads, holds them, changes the working    *)
(* directory of a process and ends; the last reference of a thread takes   *)
(* it off the list of its process, and the thread that leaves the list     *)
(* empty gives the reference back that kept the process.                   *)
(*                                                                         *)
(* A release of a handle and what its destructor does first are one step   *)
(* (module Handle is about how they meet), as is each critical section.    *)
(* thread_t structures come from a cache and are used again.               *)
(***************************************************************************)
EXTENDS Integers, FiniteSets

CONSTANTS
    Processes, Threads, None,
    First,          \* the process that the kernel starts
    FirstThread,    \* its thread
    Nodes,          \* directories
    Home            \* the directory of First

VARIABLES
    process,        \* process_t: state, handle.rc, threads, event, cwd, and who may
                    \* start its main thread
    thread,         \* thread_t: state, process, handle.rc, and what it is doing
    member,         \* process_group->tree: First and what descends from it
    grouprc,        \* process_group->handle.rc
    noderc,         \* external: references of the directories' nodes
    broken          \* history: one of the races below has happened

vars == <<process, thread, member, grouprc, noderc, broken>>

NoProcess == [state |-> "free", rc |-> 0, list |-> {}, main |-> None, ended |-> FALSE,
              cwd |-> None, config |-> None]
NoThread == [state |-> "free", process |-> None, rc |-> 0,
             pc |-> "run", arg |-> None, old |-> None, by |-> None]

Init ==
    /\ process = [p \in Processes |->
          IF p = First THEN [state |-> "live", rc |-> 1, list |-> {FirstThread},
                             main |-> FirstThread, ended |-> FALSE, cwd |-> Home, config |-> None]
          ELSE NoProcess]
    /\ thread = [t \in Threads |->
          IF t = FirstThread THEN [NoThread EXCEPT !.state = "running", !.process = First,
                                                   !.rc = 1]
          ELSE NoThread]
    /\ member = {First}
    /\ grouprc = 1
    /\ noderc = [n \in Nodes |-> IF n = Home THEN 1 ELSE 0]
    /\ broken = FALSE

Runs(t) == thread[t].state = "running" /\ thread[t].pc = "run"
At(t, l) == thread[t].state = "running" /\ thread[t].pc = l
groupVars == <<member, grouprc>>

-----------------------------------------------------------------------------
GroupJoin(p) == member' = member \union {p} /\ grouprc' = grouprc + 1
GroupLeave(p) == member' = member \ {p} /\ grouprc' = grouprc - 1

(* handle_release on a process, `count` times; the last one leaves the     *)
(* group and the directory (_process_handle_destructor).                   *)
ReleaseProcess(p, count) ==
    IF process[p].rc > count
    THEN /\ process' = [process EXCEPT ![p].rc = @ - count]
         /\ UNCHANGED <<groupVars, noderc>>
    ELSE /\ process' = [process EXCEPT ![p].rc = 0, ![p].state = "deleted"]
         /\ GroupLeave(p)
         /\ noderc' = [noderc EXCEPT ![process[p].cwd] = @ - 1]

\* scheduler_enqueue_thread, on a thread that is not running
Enqueued(th) == [th EXCEPT !.state = "queued"]
\* ... which the caller does not know: somebody else may have started it.
EnqueueBreaks(u) == thread[u].state \notin {"none", "queued"}

Call(t, l, arg) == [thread EXCEPT ![t].pc = l, ![t].arg = arg]
Return(t) == [thread EXCEPT ![t].pc = "run", ![t].arg = None, ![t].old = None]

\* _thread_create, with a structure of the cache or a new one
NewThread(p) ==
    [NoThread EXCEPT !.state = "none", !.process = p, !.rc = 1]

ThreadListAdd(p, u) == [process EXCEPT ![p].list = @ \union {u}]

-----------------------------------------------------------------------------
(* syscall_process_start: elf_load makes the process, with a reference for *)
(* itself and one that the process keeps while it has threads.  The new    *)
(* process gets the directory of the caller's, which is read once more to  *)
(* be referenced, without a lock.                                          *)
ProcessCreate(t, p) ==
    /\ Runs(t) /\ process[p].state = "free"
    /\ process' = [process EXCEPT ![p] =
          [NoProcess EXCEPT !.state = "live", !.rc = 2, !.cwd = process[thread[t].process].cwd]]
    /\ thread' = Call(t, "create", p)
    /\ UNCHANGED <<groupVars, noderc, broken>>

ReferenceDirectory(t) ==
    LET p == thread[t].arg
    IN  /\ At(t, "create")
        /\ noderc' = [noderc EXCEPT ![process[thread[t].process].cwd] = @ + 1]
        /\ GroupJoin(p)
        /\ thread' = Call(t, "load", p)
        /\ UNCHANGED <<process, broken>>

LoadError(t) ==
    /\ At(t, "load") /\ ReleaseProcess(thread[t].arg, 2) /\ thread' = Return(t)
    /\ UNCHANGED broken

CreateExecutableThread(t, u) ==
    LET p == thread[t].arg
    IN  /\ At(t, "load") /\ thread[u].state = "free"
        /\ process' = [ThreadListAdd(p, u) EXCEPT ![p].main = u]
        /\ thread' = [Call(t, "loaded", p) EXCEPT ![u] = NewThread(p)]
        /\ UNCHANGED <<groupVars, noderc, broken>>

Loaded(t) ==
    /\ At(t, "loaded") /\ ReleaseProcess(thread[t].arg, 1)
    /\ thread' = Call(t, "lookup", thread[t].arg)
    /\ UNCHANGED broken

LookupStarted(t) ==
    LET p == thread[t].arg
    IN  /\ At(t, "lookup")
        /\ IF process[p].state = "live"
           THEN /\ process' = [process EXCEPT ![p].rc = @ + 1, ![p].config = thread[t].process]
                /\ thread' = Call(t, "start", p)
           ELSE thread' = Return(t) /\ UNCHANGED process
        /\ UNCHANGED <<groupVars, noderc, broken>>

StartMain(t, pause) ==
    LET p == thread[t].arg
        u == process[p].main
        called == Call(t, "holding", p)
    IN  /\ At(t, "start")
        /\ thread' = IF pause THEN called ELSE [called EXCEPT ![u] = Enqueued(@)]
        /\ broken' = (~pause /\ EnqueueBreaks(u))
        /\ UNCHANGED <<process, groupVars, noderc>>

-----------------------------------------------------------------------------
(* Calls that look a process up and give it back, as to get its event.     *)
HoldProcess(t, p) ==
    /\ Runs(t) /\ process[p].state = "live"
    /\ process' = [process EXCEPT ![p].rc = @ + 1] /\ thread' = Call(t, "holding", p)
    /\ UNCHANGED <<groupVars, noderc, broken>>

DropProcess(t) ==
    /\ At(t, "holding") /\ ReleaseProcess(thread[t].arg, 1) /\ thread' = Return(t)
    /\ UNCHANGED broken

\* Faulty variant: the old directory is not given back.
SetCwdKeeping(t) ==
    LET p == thread[t].arg
    IN  /\ At(t, "cwd")
        /\ process' = [process EXCEPT ![p].cwd = thread[t].old.new]
        /\ thread' = [Call(t, "holding", p) EXCEPT ![t].old = None]
        /\ UNCHANGED <<groupVars, noderc, broken>>

(* syscall_process_set_cwd: the old directory is read, then the new one is *)
(* put in its place and the old one given back, without a lock.  Two such  *)
(* calls give one directory back twice; a process_create that has read the *)
(* old directory references the new one instead.                           *)
SetCwdBegin(t, n) ==
    LET p == thread[t].arg
    IN  /\ At(t, "holding")
        /\ thread' = [thread EXCEPT ![t].pc = "cwd", ![t].old = [old |-> process[p].cwd, new |-> n]]
        /\ noderc' = [noderc EXCEPT ![n] = @ + 1]
        /\ broken' = \E u \in Threads : At(u, "cwd") /\ thread[u].arg = p
        /\ UNCHANGED <<process, groupVars>>

SetCwd(t) ==
    LET p == thread[t].arg
        was == thread[t].old
    IN  /\ At(t, "cwd")
        /\ process' = [process EXCEPT ![p].cwd = was.new]
        /\ noderc' = [noderc EXCEPT ![was.old] = @ - 1]
        /\ thread' = [Call(t, "holding", p) EXCEPT ![t].old = None]
        /\ broken' = (was.new # process[p].cwd
                      /\ \E u \in Threads : At(u, "create") /\ thread[u].process = p)
        /\ UNCHANGED groupVars

-----------------------------------------------------------------------------
(* syscall_thread_create                                                   *)
ThreadCreate(t, u) ==
    LET p == thread[t].process
    IN  /\ Runs(t) /\ thread[u].state = "free"
        /\ process' = ThreadListAdd(p, u)
        /\ thread' = [Call(t, "enqueue", u) EXCEPT ![u] = NewThread(p)]
        /\ UNCHANGED <<groupVars, noderc, broken>>

ThreadEnqueue(t) ==
    /\ At(t, "enqueue")
    /\ thread' = [Return(t) EXCEPT ![thread[t].arg] = Enqueued(@)]
    /\ broken' = EnqueueBreaks(thread[t].arg)
    /\ UNCHANGED <<process, groupVars, noderc>>

(* The scheduler: a queued thread gets a CPU.                              *)
Dispatch(t) ==
    /\ thread[t].state = "queued"
    /\ thread' = [thread EXCEPT ![t].state = "running"]
    /\ UNCHANGED <<process, groupVars, noderc, broken>>

(* thread_terminate, and the scheduler's reference of a thread that ended  *)
Terminate(t) ==
    /\ Runs(t)
    /\ thread' = [thread EXCEPT ![t].state = "terminated"]
    /\ UNCHANGED <<process, groupVars, noderc, broken>>

\* handle_release on thread u by `by`, a thread or the scheduler
Released(th, by) ==
    [th EXCEPT !.rc = @ - 1, !.state = IF th.rc = 1 THEN "remove" ELSE "kept",
               !.by = IF th.rc = 1 THEN by ELSE None]

ThreadDelete(t) ==
    /\ thread[t].state = "terminated"
    /\ thread' = [thread EXCEPT ![t] = Released(@, None)]
    /\ UNCHANGED <<process, groupVars, noderc, broken>>

(* Calls that look a thread up, as to get its return value                 *)
HoldThread(t, u) ==
    /\ Runs(t) /\ t # u /\ thread[u].rc > 0
    /\ thread' = [Call(t, "thread", u) EXCEPT ![u].rc = @ + 1]
    /\ UNCHANGED <<process, groupVars, noderc, broken>>

DropThread(t) ==
    LET u == thread[t].arg
        last == thread[u].rc = 1
    IN  /\ At(t, "thread")
        /\ thread' = IF last THEN [Call(t, "destroy", u) EXCEPT ![u] = Released(@, t)]
                     ELSE [Return(t) EXCEPT ![u].rc = @ - 1]
        /\ UNCHANGED <<process, groupVars, noderc, broken>>

\* The access control list of a thread: THREAD_ACL_FLAG_CONFIG
Config(t, u) ==
    LET p == thread[u].process
    IN  \/ thread[t].process = p
        \/ process[p].main = u /\ process[p].config = thread[t].process

(* syscall_thread_start: the state is tested under thread->lock, and the   *)
(* thread queued after it.                                                 *)
StartTest(t) ==
    LET u == thread[t].arg
    IN  /\ At(t, "thread") /\ Config(t, u) /\ thread[u].state = "none"
        /\ thread' = [thread EXCEPT ![t].pc = "starting"]
        /\ UNCHANGED <<process, groupVars, noderc, broken>>

StartEnqueue(t) ==
    LET u == thread[t].arg
    IN  /\ At(t, "starting")
        /\ thread' = [thread EXCEPT ![t].pc = "thread", ![u] = Enqueued(@)]
        /\ broken' = EnqueueBreaks(u)
        /\ UNCHANGED <<process, groupVars, noderc>>

-----------------------------------------------------------------------------
(* _thread_handle_destructor.  thread_list_remove looks at the head of the *)
(* list after it released its lock.                                        *)
Remove(u) ==
    LET p == thread[u].process
        rest == process[p].list \ {u}
    IN  /\ thread[u].state = "remove"
        /\ process' = [process EXCEPT ![p].list = rest]
        /\ thread' = [thread EXCEPT ![u].state = "test"]
        /\ broken' = (rest = {} /\ \E v \in Threads :
                                       thread[v].state = "test" /\ thread[v].process = p)
        /\ UNCHANGED <<groupVars, noderc>>

\* The structure goes to the cache, and who released it goes on.
Gone(u) ==
    LET by == thread[u].by
        gone == [thread EXCEPT ![u] = NoThread]
    IN  IF by = None THEN gone ELSE [gone EXCEPT ![by].pc = "run", ![by].arg = None]

\* Faulty variant: the first thread to leave ends the process.
TestAlways(u) ==
    /\ thread[u].state = "test"
    /\ thread' = [thread EXCEPT ![u].state = "announce"]
    /\ UNCHANGED <<process, groupVars, noderc, broken>>

Test(u) ==
    /\ thread[u].state = "test"
    /\ thread' = IF process[thread[u].process].list = {}
                 THEN [thread EXCEPT ![u].state = "announce"] ELSE Gone(u)
    /\ UNCHANGED <<process, groupVars, noderc, broken>>

Announce(u) ==
    /\ thread[u].state = "announce"
    /\ process' = [process EXCEPT ![thread[u].process].ended = TRUE]
    /\ thread' = [thread EXCEPT ![u].state = "release"]
    /\ UNCHANGED <<groupVars, noderc, broken>>

ReleaseOwn(u) ==
    /\ thread[u].state = "release"
    /\ ReleaseProcess(thread[u].process, 1) /\ thread' = Gone(u)
    /\ UNCHANGED broken

-----------------------------------------------------------------------------
Step(t) ==
    \/ \E p \in Processes : ProcessCreate(t, p) \/ HoldProcess(t, p)
    \/ ReferenceDirectory(t) \/ LoadError(t) \/ Loaded(t) \/ LookupStarted(t) \/ DropProcess(t) \/ SetCwd(t)
    \/ \E pause \in BOOLEAN : StartMain(t, pause)
    \/ \E n \in Nodes : SetCwdBegin(t, n)
    \/ \E u \in Threads :
          CreateExecutableThread(t, u) \/ ThreadCreate(t, u) \/ HoldThread(t, u)
    \/ ThreadEnqueue(t) \/ Dispatch(t) \/ Terminate(t) \/ ThreadDelete(t) \/ DropThread(t)
    \/ StartTest(t) \/ StartEnqueue(t)
    \/ Remove(t) \/ Test(t) \/ Announce(t) \/ ReleaseOwn(t)

(* After one of the races a thread, a process or a directory is queued or  *)
(* given back twice; nothing is said about what follows.                   *)
Idle ==
    /\ broken \/ \A t \in Threads : thread[t].state \in {"free", "none"}
    /\ UNCHANGED vars

Next == (~broken /\ \E t \in Threads : Step(t)) \/ Idle

Spec == Init /\ [][Next]_vars

-----------------------------------------------------------------------------
Destructing == {"remove", "test", "announce", "release"}
Uses(t, p) == thread[t].state = "running" /\ thread[t].arg = p
Holders(p) ==
    {t \in Threads :
        Uses(t, p) /\ thread[t].pc \in {"create", "load", "loaded", "start", "holding", "cwd"}}
\* The reference for the threads: from process_create to the end of the last one.
Owned(p) ==
    \/ process[p].list # {}
    \/ \E t \in Threads : \/ Uses(t, p) /\ thread[t].pc \in {"create", "load"}
                          \/ thread[t].process = p /\ thread[t].state \in Destructing
(* A process is counted once by each call that uses it and once for all of *)
(* its threads, and is destroyed when nobody uses it any more              *)
(* (process_create, elf_load, _thread_handle_destructor), so that it never *)
(* goes while it has threads (the panic of process.c:62).  Its event is    *)
(* active exactly when its threads are gone.                               *)
ProcessesAreCounted ==
    ~broken => \A p \in Processes :
       /\ (process[p].state = "live") = (Holders(p) # {} \/ Owned(p))
       /\ process[p].rc = Cardinality(Holders(p)) + (IF Owned(p) THEN 1 ELSE 0)
       /\ process[p].main # None => /\ process[p].ended => process[p].list = {}
                                    /\ Owned(p) \/ process[p].ended

(* A thread is destroyed once it has ended and nobody uses it.             *)
ThreadsAreCounted ==
    ~broken => \A t \in Threads : LET th == thread[t] IN
       /\ th.rc = Cardinality({u \in Threads : /\ thread[u].state = "running" /\ thread[u].arg = t
                                               /\ thread[u].pc \in {"thread", "starting"}})
                  + (IF th.state \in {"none", "queued", "running", "terminated"} THEN 1 ELSE 0)
       /\ th.state # "free" => (t \in process[th.process].list) =
             (th.state \in {"none", "queued", "running", "terminated", "kept", "remove"})

(* The group has the processes that are not destroyed and is kept by them; *)
(* a directory is referenced once by every process that is in it and every *)
(* call that is about to put one there, less the references that           *)
(* process_create is about to take.                                        *)
GroupAndDirectoriesAreCounted ==
    ~broken =>
       LET live == {p \in Processes : process[p].state = "live"}
           creators == {t \in Threads : At(t, "create")}
       IN  /\ member = live \ {thread[t].arg : t \in creators}
           /\ grouprc = Cardinality(member)
           /\ \A n \in Nodes :
                 noderc[n] + Cardinality({t \in creators : process[thread[t].process].cwd = n})
                    = Cardinality({p \in live : process[p].cwd = n})
                      + Cardinality({t \in Threads : At(t, "cwd") /\ thread[t].old.new = n})
=============================================================================
