------------------------- MODULE SchedulerInvariant -------------------------
(***************************************************************************)
(* The inductive invariant of Scheduler, for any number of threads, CPUs   *)
(* and events, if threads wait for one event at a time (Setting); and that *)
(* every action that neither takes nor gives back a reference keeps it, if *)
(* no thread overtakes the CPU that leaves it.  The other actions and the  *)
(* theorems are in SchedulerProofs.                                        *)
(***************************************************************************)
EXTENDS Scheduler, TLAPS

Setting ==
    /\ IsFiniteSet(Cpus) /\ IsFiniteSet(Joins) /\ Joins \subseteq Threads \X Threads
    /\ None \notin Threads \cup Cpus \cup Events
    /\ TermEvent \in [Threads -> Events]
    /\ \A t, u \in Threads : TermEvent[t] = TermEvent[u] => t = u
    /\ \A w \in Waits : \E e \in Events : w = <<e>>
    /\ Deletable \subseteq Events

-----------------------------------------------------------------------------
(* The fields of a CPU and the containers of a list.  The provers see them  *)
(* as plain functions, of the table before or after a step.                *)
Pc(k, c) == k[c].pc
Thread(k, c) == k[c].thread
Rest(k, c) == k[c].rest
To(k, c) == k[c].call.target
Stamp(k, c) == k[c].call.seq
On(k, c) == k[c].call.event
Ret(k, c) == k[c].call.ret

Places(w, e) == DOMAIN w[e]
Sleeper(w, e, i) == w[e][i].thread
Wait(w, e, i) == w[e][i].seq

One(e) == <<e>>
Rests == {<<>>} \cup {One(e) : e \in Events}
Rets == {"idle", "run", "pick", "switch"}
CallType == [event : Events \cup {None}, all : BOOLEAN, target : Threads \cup {None}, seq : Nat, ret : Rets]
CpuType == [pc : Locations, thread : Threads \cup {None}, rest : Rests, call : CallType]
Tables == [Cpus -> CpuType]
Container == [thread : Threads, seq : Nat]
Lists == [Events -> Seq(Container)]

-----------------------------------------------------------------------------
(* The inductive invariant.                                                *)
Types ==
    /\ state \in [Threads -> States]
    /\ regsAway \in [Threads -> BOOLEAN]
    /\ seq \in [Threads -> Nat]
    /\ refs \in [Threads -> Int]
    /\ joins \subseteq Joins
    /\ queue \subseteq Threads
    /\ cpu \in Tables
    /\ active \in [Events -> BOOLEAN]
    /\ deleted \in [Events -> BOOLEAN]
    /\ waiters \in Lists

\* Inside event_dispatch; with a thread's handle in hand.
Dispatching == {"pop", "check", "wake", "skip", "settle", "enqueue", "drop"}
Holding == {"check", "wake", "skip", "settle", "enqueue", "drop"}

\* A call of event_dispatch has an event, and a thread while it handles one.
Calls ==
    \A c \in Cpus :
        /\ Pc(cpu, c) \in Dispatching => On(cpu, c) \in Events /\ Ret(cpu, c) # "idle"
        /\ Pc(cpu, c) \in Holding <=> To(cpu, c) # None
        /\ Pc(cpu, c) # "skip"

\* Whose thread a CPU has, and in which state s the thread then is (r: its registers are not saved).
Has(k, c, locations, ret) ==
    Pc(k, c) \in locations \/ (Pc(k, c) \in Dispatching /\ Ret(k, c) = ret)

Runner(k, s, r, c) ==
    LET t == Thread(k, c) IN
    /\ t = None <=> Has(k, c, {"idle", "pick"}, "pick")
    /\ Has(k, c, {"run", "requeue"}, "run") => s[t] = "running"
    /\ Has(k, c, {"terminate", "delete"}, "switch") => s[t] = "terminated"
    /\ Pc(k, c) = "await" => r[t] /\ (s[t] = "awaiting" \/ (Rest(k, c) = <<>> /\ s[t] = "none"))
    /\ Pc(k, c) = "await_active" => s[t] = "awaiting"
    /\ Pc(k, c) = "switch" => s[t] # "queued" /\ (s[t] \in {"awaiting", "none"} => r[t])
    /\ Pc(k, c) = "recheck" => s[t] # "terminated"
    /\ Pc(k, c) = "start" => s[t] = "queued"

Runners == \A c \in Cpus : Runner(cpu, state, regsAway, c)

\* Where a thread may be in two places: a CPU that is switching away from it.
Apart ==
    /\ \A c, d \in Cpus :
          c # d /\ Thread(cpu, c) = Thread(cpu, d) /\ Thread(cpu, c) # None =>
             \/ Pc(cpu, c) = "recheck" /\ Pc(cpu, d) = "start"
             \/ Pc(cpu, d) = "recheck" /\ Pc(cpu, c) = "start"
    /\ \A t \in queue :
          state[t] = "queued" /\ \A c \in Cpus : Thread(cpu, c) = t => Pc(cpu, c) = "recheck"

Waking(k, c) == Pc(k, c) \in {"settle", "enqueue"}

\* Who wakes a thread is alone, and queues it when no CPU goes on with it.
WakersAlone ==
    \A c \in Cpus : Waking(cpu, c) =>
        /\ state[To(cpu, c)] = "none"
        /\ Pc(cpu, c) = "enqueue" => ~regsAway[To(cpu, c)]
        /\ \A d \in Cpus : Waking(cpu, d) /\ To(cpu, d) = To(cpu, c) => c = d

\* A thread that will find its event before it sleeps.
Arriving(k, t) ==
    \E c \in Cpus : /\ Thread(k, c) = t
                    /\ Pc(k, c) = "await_active" \/ (Pc(k, c) = "await" /\ Rest(k, c) # <<>>)

Taken(k, c) == Pc(k, c) \in {"check", "wake"}

\* Every container, on a list or taken off it, is that of a thread's only wait.
ListsCurrent ==
    \A e \in Events : \A i \in Places(waiters, e) :
        /\ Sleeper(waiters, e, i) \in Threads
        /\ state[Sleeper(waiters, e, i)] = "awaiting"
        /\ Wait(waiters, e, i) = seq[Sleeper(waiters, e, i)]
        /\ ~Arriving(cpu, Sleeper(waiters, e, i))

ListsSingle ==
    \A e \in Events : \A i \in Places(waiters, e) :
        /\ \A f \in Events : \A j \in Places(waiters, f) :
              Sleeper(waiters, f, j) = Sleeper(waiters, e, i) => e = f /\ i = j
        /\ \A c \in Cpus : Taken(cpu, c) => To(cpu, c) # Sleeper(waiters, e, i)

ListsHeld ==
    \A u \in Threads : \A i \in Places(waiters, TermEvent[u]) :
        <<Sleeper(waiters, TermEvent[u], i), u>> \in joins

TakenCurrent ==
    \A c \in Cpus : Taken(cpu, c) =>
        /\ state[To(cpu, c)] = "awaiting" /\ Stamp(cpu, c) = seq[To(cpu, c)]
        /\ ~Arriving(cpu, To(cpu, c))
        /\ \A d \in Cpus : Taken(cpu, d) /\ To(cpu, d) = To(cpu, c) => c = d

\* The references of a thread: its own until it is deleted, those of dispatchers and of others.
Alive(s, k, t) == s[t] # "terminated" \/ \E c \in Cpus : Thread(k, c) = t
Dispatchers(k, t) == {c \in Cpus : To(k, c) = t}
Joiners(j, t) == {p \in j : p[2] = t}

References ==
    \A t \in Threads :
        refs[t] = Cardinality(Dispatchers(cpu, t)) + Cardinality(Joiners(joins, t))
                  + (IF Alive(state, cpu, t) THEN 1 ELSE 0)

\* An event goes with its owner or by event_delete; who awaits another thread holds it.
Deletions ==
    /\ \A e \in Events : deleted[e] =>
          e \in Deletable \/ (\E u \in Threads : e = TermEvent[u] /\ refs[u] = 0)
    /\ \A c \in Cpus, u \in Threads :
          Pc(cpu, c) = "await" /\ Rest(cpu, c) = One(TermEvent[u]) => <<Thread(cpu, c), u>> \in joins

\* A container that will wake t: HasContainer in these terms.
Contained(w, k, s, t) ==
    \/ \E e \in Events : \E i \in Places(w, e) : Sleeper(w, e, i) = t /\ Wait(w, e, i) = s[t]
    \/ \E c \in Cpus : Taken(k, c) /\ To(k, c) = t /\ Stamp(k, c) = s[t]

\* A thread is where its state says.
RunningFound == \A t \in Threads : state[t] = "running" => \E c \in Cpus : Thread(cpu, c) = t
QueuedFound ==
    \A t \in Threads : state[t] = "queued" =>
        t \in queue \/ \E c \in Cpus : Thread(cpu, c) = t /\ Pc(cpu, c) = "start"
WokenFound ==
    \A t \in Threads : state[t] = "none" => \E c \in Cpus : Waking(cpu, c) /\ To(cpu, c) = t
SleepersFound ==
    \A t \in Threads : state[t] = "awaiting" =>
        Arriving(cpu, t) \/ Contained(waiters, cpu, seq, t) \/ \E e \in Deletable : deleted[e]

Found == RunningFound /\ QueuedFound /\ WokenFound /\ SleepersFound

IInv ==
    /\ Types /\ Calls /\ Runners /\ Apart /\ WakersAlone
    /\ ListsCurrent /\ ListsSingle /\ ListsHeld /\ TakenCurrent
    /\ References /\ Deletions /\ Found

-----------------------------------------------------------------------------
(* What a step does to a CPU and to its thread.                            *)
LEMMA LocationsAre ==
    /\ {"idle", "run", "await", "await_active", "terminate"} \cup Dispatching \subseteq Locations
    /\ {"switch", "recheck", "requeue", "delete", "pick", "start"} \cup Rets \subseteq Locations
BY DEF Locations, Dispatching, Rets

\* The fields of a CPU have their types.
Fields(k) ==
    \A c \in Cpus :
        /\ Pc(k, c) \in Locations /\ Thread(k, c) \in Threads \cup {None} /\ Rest(k, c) \in Rests
        /\ To(k, c) \in Threads \cup {None} /\ Stamp(k, c) \in Nat
        /\ On(k, c) \in Events \cup {None} /\ Ret(k, c) \in Rets

LEMMA FieldsOfTable == ASSUME NEW k \in Tables PROVE Fields(k)
BY DEF Fields, Tables, CpuType, CallType, Pc, Thread, Rest, To, Stamp, On, Ret

\* The other CPUs stay as they are, and c keeps its call.
Others(c) ==
    /\ cpu' \in Tables
    /\ \A d \in Cpus : d # c =>
          /\ Pc(cpu', d) = Pc(cpu, d) /\ Thread(cpu', d) = Thread(cpu, d) /\ Rest(cpu', d) = Rest(cpu, d)
          /\ To(cpu', d) = To(cpu, d) /\ Stamp(cpu', d) = Stamp(cpu, d)
          /\ On(cpu', d) = On(cpu, d) /\ Ret(cpu', d) = Ret(cpu, d)

SameCall(c) ==
    /\ To(cpu', c) = To(cpu, c) /\ Stamp(cpu', c) = Stamp(cpu, c)
    /\ On(cpu', c) = On(cpu, c) /\ Ret(cpu', c) = Ret(cpu, c)

Becomes(c, l, t, r) ==
    Others(c) /\ Pc(cpu', c) = l /\ Thread(cpu', c) = t /\ Rest(cpu', c) = r

LEMMA Updated ==
    ASSUME cpu \in Tables, NEW c \in Cpus, NEW r \in CpuType, cpu' = [cpu EXCEPT ![c] = r]
    PROVE  Others(c) /\ cpu'[c] = r
<1>1. cpu' \in Tables /\ cpu'[c] = r /\ \A d \in Cpus : d # c => cpu'[d] = cpu[d]
  <2> HIDE DEF CpuType
  <2> QED
    BY DEF Tables
<1> QED
  BY <1>1 DEF Others, Pc, Thread, Rest, To, Stamp, On, Ret

LEMMA GotoBecomes ==
    ASSUME cpu \in Tables, NEW c \in Cpus, NEW l \in Locations, Goto(c, l)
    PROVE  Becomes(c, l, Thread(cpu, c), Rest(cpu, c)) /\ SameCall(c)
<1> DEFINE r == [cpu[c] EXCEPT !.pc = l]
<1>1. /\ r \in CpuType /\ r.pc = l /\ r.thread = cpu[c].thread
      /\ r.rest = cpu[c].rest /\ r.call = cpu[c].call
  BY Zenon DEF Tables, CpuType
<1>2. cpu' = [cpu EXCEPT ![c] = r]
  BY DEF Goto
<1> HIDE DEF r
<1>3. Others(c) /\ cpu'[c] = r
  BY <1>1, <1>2, Updated, Zenon
<1> QED
  BY <1>1, <1>3 DEF Becomes, SameCall, Pc, Thread, Rest, To, Stamp, On, Ret

LEMMA ThreadBecomes ==
    ASSUME cpu \in Tables, NEW c \in Cpus, NEW l \in Locations, NEW t \in Threads \cup {None},
           cpu' = [cpu EXCEPT ![c].pc = l, ![c].thread = t]
    PROVE  Becomes(c, l, t, Rest(cpu, c)) /\ SameCall(c)
<1> DEFINE r == [cpu[c] EXCEPT !.pc = l, !.thread = t]
<1>1. r \in CpuType /\ r.pc = l /\ r.thread = t /\ r.rest = cpu[c].rest /\ r.call = cpu[c].call
  BY Zenon DEF Tables, CpuType
<1>2. cpu' = [cpu EXCEPT ![c] = r]
  BY Zenon
<1> HIDE DEF r
<1>3. Others(c) /\ cpu'[c] = r
  BY <1>1, <1>2, Updated, Zenon
<1> QED
  BY <1>1, <1>3, Zenon DEF Becomes, SameCall, Pc, Thread, Rest, To, Stamp, On, Ret

-----------------------------------------------------------------------------
(* What a step of CPU c with thread t leaves alone.                        *)

\* The other threads stay as they are, and no other thread begins to arrive.
OnlyThread(t) ==
    \A u \in Threads : u # t =>
        /\ state'[u] = state[u] /\ seq'[u] = seq[u] /\ regsAway'[u] = regsAway[u]
        /\ Arriving(cpu', u) <=> Arriving(cpu, u)

\* No list has a container of t, and no other CPU wakes it.
Quiet(c, t) ==
    /\ \A e \in Events : \A i \in Places(waiters, e) : Sleeper(waiters, e, i) # t
    /\ \A d \in Cpus : d # c => (Taken(cpu, d) \/ Waking(cpu, d) => To(cpu, d) # t)

\* Who is taken off a list, or woken, is a thread.
LEMMA HeldIsThread ==
    ASSUME Setting, IInv
    PROVE  \A c \in Cpus : Taken(cpu, c) \/ Waking(cpu, c) \/ Pc(cpu, c) = "drop" => To(cpu, c) \in Threads
BY FieldsOfTable DEF IInv, Types, Fields, Calls, Taken, Waking, Holding

LEMMA Awake ==
    ASSUME IInv, NEW t \in Threads, state[t] \notin {"awaiting", "none"}
    PROVE  \A c \in Cpus : Quiet(c, t) /\ (Taken(cpu, c) \/ Waking(cpu, c) => To(cpu, c) # t)
BY DEF IInv, Quiet, ListsCurrent, TakenCurrent, WakersAlone

LEMMA ListsKept ==
    ASSUME Setting, IInv, NEW c \in Cpus, NEW t, Others(c), OnlyThread(t), Quiet(c, t), UNCHANGED <<waiters, joins>>,
           Taken(cpu', c) => Taken(cpu, c) /\ SameCall(c) /\ To(cpu, c) # t
    PROVE  ListsCurrent' /\ ListsSingle' /\ ListsHeld' /\ TakenCurrent'
<1>1. \A d \in Cpus : Taken(cpu', d) =>
         /\ Taken(cpu, d) /\ To(cpu, d) \in Threads /\ To(cpu, d) # t
         /\ To(cpu', d) = To(cpu, d) /\ Stamp(cpu', d) = Stamp(cpu, d)
  BY HeldIsThread DEF Others, SameCall, Quiet, Taken
<1>2. ListsCurrent'
  BY Zenon DEF IInv, ListsCurrent, OnlyThread, Quiet
<1>3. ListsSingle' /\ ListsHeld'
  BY <1>1 DEF IInv, ListsSingle, ListsHeld
<1>4. TakenCurrent'
  BY <1>1, Zenon DEF IInv, TakenCurrent, OnlyThread
<1> QED
  BY <1>2, <1>3, <1>4

LEMMA WakersKept ==
    ASSUME Setting, IInv, NEW c \in Cpus, NEW t, Others(c), OnlyThread(t), Quiet(c, t), ~Waking(cpu', c)
    PROVE  WakersAlone'
<1>1. \A d \in Cpus : Waking(cpu', d) =>
         /\ Waking(cpu, d) /\ To(cpu, d) \in Threads /\ To(cpu, d) # t
         /\ To(cpu', d) = To(cpu, d) /\ Pc(cpu', d) = Pc(cpu, d)
  BY HeldIsThread DEF Others, Quiet, Waking
<1> QED
  BY <1>1 DEF IInv, WakersAlone, OnlyThread

LEMMA ReferencesKept ==
    ASSUME References, UNCHANGED <<refs, joins>>, \A d \in Cpus : To(cpu', d) = To(cpu, d),
           \A u \in Threads : Alive(state', cpu', u) <=> Alive(state, cpu, u)
    PROVE  References'
<1>1. \A u \in Threads : Dispatchers(cpu', u) = Dispatchers(cpu, u)
  BY DEF Dispatchers
<1> QED
  BY <1>1 DEF References

\* A CPU that is neither idle nor in event_dispatch has a thread.
LEMMA CpuHasThread ==
    ASSUME Setting, IInv, NEW c \in Cpus, Pc(cpu, c) \notin Dispatching \cup {"idle", "pick"}
    PROVE  Thread(cpu, c) \in Threads /\ Thread(cpu, c) # None /\ Runner(cpu, state, regsAway, c)
<1>1. Runner(cpu, state, regsAway, c) /\ Thread(cpu, c) \in Threads \cup {None}
  BY FieldsOfTable DEF IInv, Types, Fields, Runners
<1> QED
  BY <1>1, Zenon DEF Runner, Has

LEMMA RunnersKept ==
    ASSUME Setting, IInv, NEW c \in Cpus, NEW t, Others(c), OnlyThread(t),
           \A d \in Cpus : d # c /\ Thread(cpu, d) = t => Runner(cpu', state', regsAway', d),
           Runner(cpu', state', regsAway', c)
    PROVE  Runners'
<1>1. \A d \in Cpus : Thread(cpu, d) \in Threads \cup {None}
  BY FieldsOfTable DEF IInv, Types, Fields
<1>2. ASSUME NEW d \in Cpus, d # c, Thread(cpu, d) # t PROVE Runner(cpu', state', regsAway', d)
  <2>1. Runner(cpu, state, regsAway, d)
    BY DEF IInv, Runners
  <2>2. CASE Thread(cpu, d) \in Threads
    <3> DEFINE u == Thread(cpu, d)
    <3>1. /\ Pc(cpu', d) = Pc(cpu, d) /\ Thread(cpu', d) = u
          /\ Rest(cpu', d) = Rest(cpu, d) /\ Ret(cpu', d) = Ret(cpu, d)
      BY <1>2, Zenon DEF Others
    <3>2. state'[u] = state[u] /\ regsAway'[u] = regsAway[u]
      BY <1>2, <2>2, Zenon DEF OnlyThread
    <3> QED
      BY <2>1, <3>1, <3>2, Zenon DEF Runner, Has
  <2>3. CASE Thread(cpu, d) = None
    BY <1>2, <2>1, <2>3, Zenon DEF Runner, Has, Dispatching, Others
  <2> QED
    BY <1>1, <2>2, <2>3
<1> QED
  BY <1>2 DEF Runners

LEMMA RunnersSame ==
    ASSUME IInv, NEW c \in Cpus, Others(c), UNCHANGED <<state, regsAway>>, Runner(cpu', state', regsAway', c)
    PROVE  Runners'
<1>1. ASSUME NEW d \in Cpus, d # c PROVE Runner(cpu', state', regsAway', d)
  <2>1. Runner(cpu, state, regsAway, d)
    BY Zenon DEF IInv, Runners
  <2>2. Pc(cpu', d) = Pc(cpu, d) /\ Thread(cpu', d) = Thread(cpu, d) /\ Rest(cpu', d) = Rest(cpu, d) /\ Ret(cpu', d) = Ret(cpu, d)
    BY <1>1, Zenon DEF Others
  <2> QED
    BY <2>1, <2>2, Zenon DEF Runner, Has
<1> QED
  BY <1>1, Zenon DEF Runners

LEMMA SleepersKept ==
    ASSUME IInv, NEW c \in Cpus, NEW t, Others(c), OnlyThread(t), waiters' = waiters,
           t \in Threads /\ state'[t] = "awaiting" => Arriving(cpu', t),
           Taken(cpu, c) => To(cpu, c) = t,
           \A e \in Deletable : deleted[e] => deleted'[e]
    PROVE  SleepersFound'
<1>1. ASSUME NEW u \in Threads, u # t, Contained(waiters, cpu, seq, u)
      PROVE  Contained(waiters', cpu', seq', u)
  <2>1. seq'[u] = seq[u]
    BY <1>1, Zenon DEF OnlyThread
  <2>2. \A d \in Cpus : Taken(cpu, d) /\ To(cpu, d) = u =>
            Taken(cpu', d) /\ To(cpu', d) = u /\ Stamp(cpu', d) = Stamp(cpu, d)
    BY <1>1, Zenon DEF Taken, Others
  <2> QED
    BY <1>1, <2>1, <2>2, Zenon DEF Contained
<1> QED
  BY <1>1, Zenon DEF IInv, Found, SleepersFound, OnlyThread

LEMMA ApartKept ==
    ASSUME Setting, IInv, NEW c \in Cpus, NEW t \in Threads, Others(c), OnlyThread(t),
           \A d \in Cpus : d # c => Thread(cpu, d) # t,
           \/ Thread(cpu', c) = t /\ queue' = queue /\ t \notin queue
           \/ Thread(cpu', c) = None /\ queue' \subseteq queue \cup {t} /\ (t \in queue' => state'[t] = "queued")
    PROVE  Apart'
<1>1. \A u \in queue : u \in Threads /\ u # None
  BY DEF IInv, Types, Setting
<1>2. \A d \in Cpus : d # c => Thread(cpu', d) = Thread(cpu, d) /\ Pc(cpu', d) = Pc(cpu, d)
  BY DEF Others
<1>3. \A u \in queue : u # t => state'[u] = state[u]
  BY <1>1 DEF OnlyThread
<1> QED
  BY <1>1, <1>2, <1>3 DEF IInv, Apart, Setting

-----------------------------------------------------------------------------
(* The steps.                                                              *)

(* A CPU goes on, and nothing else changes. *)
LEMMA MoveStep ==
    ASSUME Setting, IInv, NEW c \in Cpus, NEW l \in Locations, Goto(c, l),
           UNCHANGED <<threadVars, eventVars, handleVars, queue>>,
           \/ Pc(cpu, c) = "run" /\ l = "switch"
           \/ Pc(cpu, c) = "await" /\ Rest(cpu, c) = <<>> /\ l = "switch"
           \/ Pc(cpu, c) = "idle" /\ l = "pick"
           \/ Pc(cpu, c) = "pick" /\ l = "idle"
           \/ Pc(cpu, c) = "check" /\ l = "wake"
           \/ Pc(cpu, c) = "settle" /\ ~regsAway[To(cpu, c)] /\ l = "enqueue"
           \/ Pc(cpu, c) = "switch" /\ state[Thread(cpu, c)] = "terminated" /\ l = "delete"
           \/ Pc(cpu, c) = "recheck" /\ state[Thread(cpu, c)] = "running" /\ l = "requeue"
    PROVE  IInv'
<1>1. Becomes(c, l, Thread(cpu, c), Rest(cpu, c)) /\ SameCall(c)
  BY GotoBecomes, Zenon DEF IInv, Types
<1>2. UNCHANGED <<state, regsAway, seq, active, deleted, waiters, refs, joins, queue>>
  BY Zenon DEF threadVars, eventVars, handleVars
<1>3. Types' /\ Calls'
  <2>1. Types'
    BY <1>1, <1>2, Zenon DEF Types, IInv, Becomes, Others
  <2>2. Calls'
    BY <1>1, Zenon DEF Calls, Dispatching, Holding, IInv, Becomes, Others, SameCall
  <2> QED
    BY <2>1, <2>2, Zenon
<1>4. Runners' /\ Apart'
  <2>1. Runners'
    <3>1. Runner(cpu, state, regsAway, c)
      BY Zenon DEF IInv, Runners
    <3>2. Runner(cpu', state', regsAway', c)
      BY <1>1, <1>2, <3>1 DEF Becomes, SameCall, Runner, Has, Dispatching
    <3> QED
      BY <1>1, <1>2, <3>2, RunnersSame, Zenon DEF Becomes
  <2>2. Apart'
    <3>1. Pc(cpu, c) \in {"idle", "pick"} => Thread(cpu, c) = None
      BY Zenon DEF IInv, Runners, Runner, Has
    <3>2. Pc(cpu, c) = "recheck" => Thread(cpu, c) \notin queue
      BY Zenon DEF IInv, Apart
    <3>3. ASSUME Pc(cpu, c) = "recheck", NEW d \in Cpus, d # c PROVE Thread(cpu, d) # Thread(cpu, c)
      <4>1. Thread(cpu, c) # None /\ state[Thread(cpu, c)] = "running"
        BY <3>3, Zenon DEF IInv, Runners, Runner, Has, Dispatching
      <4>2. Pc(cpu, d) = "start" => state[Thread(cpu, d)] = "queued"
        BY Zenon DEF IInv, Runners, Runner
      <4> QED
        BY <3>3, <4>1, <4>2, Zenon DEF IInv, Apart
    <3>4. ASSUME NEW a \in Cpus, NEW b \in Cpus, a # b, Thread(cpu', a) = Thread(cpu', b), Thread(cpu', a) # None
          PROVE  \/ Pc(cpu', a) = "recheck" /\ Pc(cpu', b) = "start"
                 \/ Pc(cpu', b) = "recheck" /\ Pc(cpu', a) = "start"
      <4>1. Thread(cpu, a) = Thread(cpu, b) /\ Thread(cpu, a) # None
        BY <1>1, <3>4, Zenon DEF Becomes, Others
      <4>2. a # c /\ b # c
        BY <3>1, <3>3, <3>4, <4>1 DEF IInv, Apart
      <4> QED
        BY <1>1, <3>4, <4>1, <4>2, Zenon DEF Becomes, Others, IInv, Apart
    <3>5. ASSUME NEW t \in queue'
          PROVE  state'[t] = "queued" /\ \A d \in Cpus : Thread(cpu', d) = t => Pc(cpu', d) = "recheck"
      <4>1. t \in queue /\ state'[t] = state[t]
        BY <1>2, <3>5, Zenon
      <4>2. state[t] = "queued" /\ \A d \in Cpus : Thread(cpu, d) = t => Pc(cpu, d) = "recheck"
        BY <4>1, Zenon DEF IInv, Apart
      <4> QED
        BY <1>1, <3>2, <4>1, <4>2, Zenon DEF Becomes, Others
    <3> QED
      BY <3>4, <3>5, Zenon DEF Apart
  <2> QED
    BY <2>1, <2>2, Zenon
<1>5. WakersAlone'
  BY <1>1, <1>2 DEF WakersAlone, Waking, IInv, Becomes, Others, SameCall
<1>6. ListsCurrent' /\ ListsSingle' /\ ListsHeld' /\ TakenCurrent'
  <2>1. ListsCurrent'
    BY <1>1, <1>2, Zenon DEF IInv, Becomes, Others, ListsCurrent, Arriving
  <2>2. ListsSingle'
    BY <1>1, <1>2 DEF IInv, Becomes, Others, ListsSingle, Taken, SameCall
  <2>3. ListsHeld'
    BY <1>2, Zenon DEF IInv, ListsHeld
  <2>4. TakenCurrent'
    BY <1>1, <1>2 DEF IInv, Becomes, Others, TakenCurrent, Taken, Arriving, SameCall
  <2> QED
    BY <2>1, <2>2, <2>3, <2>4, Zenon
<1>7. References'
  BY ReferencesKept, <1>1, <1>2, Zenon DEF Alive, IInv, Becomes, Others, SameCall
<1>8. Deletions' /\ Found'
  <2>1. Deletions'
    BY <1>1, <1>2, Zenon DEF IInv, Becomes, Others, Deletions
  <2>2. RunningFound'
    BY <1>1, <1>2, Zenon DEF IInv, Becomes, Others, RunningFound, Found
  <2>3. QueuedFound'
    BY <1>1, <1>2, Zenon DEF IInv, Becomes, Others, QueuedFound, Found
  <2>4. WokenFound'
    BY <1>1, <1>2, Zenon DEF IInv, Becomes, Others, WokenFound, Found, Waking, SameCall
  <2>5. SleepersFound'
    BY <1>1, <1>2, Zenon
       DEF IInv, Becomes, Others, SleepersFound, Found, Contained, Taken, Arriving, SameCall
  <2> QED
    BY <2>1, <2>2, <2>3, <2>4, <2>5, Zenon DEF Found
<1> QED
  BY <1>3, <1>4, <1>5, <1>6, <1>7, <1>8, Zenon DEF IInv

(* _switch_thread saves the registers of a thread that has not ended. *)
LEMMA SwitchStep ==
    ASSUME Setting, IInv, NEW c \in Cpus, Switch(c), state[Thread(cpu, c)] # "terminated"
    PROVE  IInv'
<1>1. Pc(cpu, c) = "switch" /\ Becomes(c, "recheck", Thread(cpu, c), Rest(cpu, c)) /\ SameCall(c)
  BY GotoBecomes, LocationsAre, Zenon DEF Switch, Pc, Thread, IInv, Types
<1>2. PICK t \in Threads : Thread(cpu, c) = t /\ t # None /\ state[t] # "terminated"
  BY <1>1, CpuHasThread, Zenon DEF Dispatching
<1>3. UNCHANGED <<state, seq, active, deleted, waiters, refs, joins, queue>>
  BY Zenon DEF Switch, eventVars, handleVars
<1>4. /\ regsAway' \in [Threads -> BOOLEAN] /\ ~regsAway'[t]
      /\ \A u \in Threads : u # t => regsAway'[u] = regsAway[u]
  BY <1>2, Zenon DEF Switch, IInv, Types, Thread
<1>5. Types' /\ Calls'
  BY <1>4, <1>1, <1>3, Zenon DEF Types, Calls, Dispatching, Holding, IInv, Becomes, Others, SameCall
<1>6. Runners'
  <2>1. \A d \in Cpus : d # c => Thread(cpu, d) \in (Threads \ {t}) \cup {None}
    BY FieldsOfTable, <1>1, <1>2, Zenon DEF Types, Fields, Apart, IInv
  <2>2. Runner(cpu, state, regsAway, c)
    BY Zenon DEF IInv, Runners
  <2>3. Runner(cpu', state', regsAway', c)
    BY <1>1, <1>2, <1>3, <2>2, Zenon DEF Becomes, Runner, Has, Dispatching
  <2>4. OnlyThread(t) /\ \A d \in Cpus : d # c => Thread(cpu, d) # t
    BY <1>1, <1>2, <1>3, <1>4, <2>1 DEF OnlyThread, Arriving, Becomes, Others
  <2> QED
    BY <1>1, <2>3, <2>4, RunnersKept, Zenon DEF Becomes
<1>7. Apart'
  BY <1>1, <1>3 DEF Apart, IInv, Becomes, Others
<1>8. WakersAlone'
  BY <1>4, HeldIsThread, <1>1, <1>3 DEF WakersAlone, Waking, IInv, Becomes, Others
<1>9. ListsCurrent' /\ ListsSingle' /\ ListsHeld' /\ TakenCurrent'
  <2>1. ListsCurrent'
    BY <1>1, <1>3, Zenon DEF IInv, Becomes, Others, ListsCurrent, Arriving
  <2>2. ListsSingle'
    BY <1>1, <1>3 DEF IInv, Becomes, Others, ListsSingle, Taken
  <2>3. ListsHeld'
    BY <1>3, Zenon DEF IInv, ListsHeld
  <2>4. TakenCurrent'
    BY <1>1, <1>3 DEF IInv, Becomes, Others, TakenCurrent, Taken, Arriving
  <2> QED
    BY <2>1, <2>2, <2>3, <2>4, Zenon
<1>10. References'
  BY ReferencesKept, <1>1, <1>3, Zenon DEF Alive, IInv, Becomes, Others, SameCall
<1>11. Deletions' /\ Found'
  <2>1. Deletions'
    BY <1>1, <1>3, Zenon DEF IInv, Becomes, Others, Deletions
  <2>2. RunningFound'
    BY <1>1, <1>3, Zenon DEF IInv, Becomes, Others, RunningFound, Found
  <2>3. QueuedFound'
    BY <1>1, <1>3, Zenon DEF IInv, Becomes, Others, QueuedFound, Found
  <2>4. WokenFound'
    BY <1>1, <1>3, Zenon DEF IInv, Becomes, Others, WokenFound, Found, Waking
  <2>5. SleepersFound'
    BY <1>1, <1>3 DEF IInv, Becomes, Others, SleepersFound, Found, Contained, Taken, Arriving
  <2> QED
    BY <2>1, <2>2, <2>3, <2>4, <2>5, Zenon DEF Found
<1> QED
  BY <1>5, <1>6, <1>7, <1>8, <1>9, <1>10, <1>11, Zenon DEF IInv

(* The CPU leaves a thread that sleeps or has been woken. *)
LEMMA LeaveStep ==
    ASSUME Setting, IInv, NEW c \in Cpus, Recheck(c), state[Thread(cpu, c)] # "running"
    PROVE  IInv'
<1>1. Pc(cpu, c) = "recheck" /\ Becomes(c, "pick", None, Rest(cpu, c)) /\ SameCall(c)
  BY ThreadBecomes, LocationsAre, Zenon DEF Recheck, Pc, Thread, IInv, Types
<1>2. UNCHANGED <<regsAway, state, seq, active, deleted, waiters, refs, joins, queue>>
  BY Zenon DEF Recheck, threadVars, eventVars, handleVars
<1>3. state[Thread(cpu, c)] # "terminated"
  BY <1>1, Zenon DEF IInv, Runners, Runner
<1>4. Types' /\ Calls'
  BY <1>1, <1>2, Zenon DEF Types, Calls, Dispatching, Holding, IInv, Becomes, Others, SameCall
<1>5. Runners'
  <2>1. Runner(cpu', state', regsAway', c)
    BY <1>1, Zenon DEF Becomes, Runner, Has, Dispatching
  <2> QED
    BY <1>1, <1>2, <2>1, RunnersSame, Zenon DEF Becomes
<1>6. Apart'
  BY <1>1, <1>2 DEF Types, Setting, Apart, IInv, Becomes, Others
<1>7. WakersAlone'
  BY <1>1, <1>2, Zenon DEF WakersAlone, Waking, IInv, Becomes, Others
<1>8. ListsCurrent' /\ ListsSingle' /\ ListsHeld' /\ TakenCurrent'
  <2>1. ListsCurrent'
    BY <1>1, <1>2, Zenon DEF IInv, Becomes, Others, ListsCurrent, Arriving
  <2>2. ListsSingle'
    BY <1>1, <1>2 DEF IInv, Becomes, Others, ListsSingle, Taken
  <2>3. ListsHeld'
    BY <1>2, Zenon DEF IInv, ListsHeld
  <2>4. TakenCurrent'
    BY <1>1, <1>2 DEF IInv, Becomes, Others, TakenCurrent, Taken, Arriving
  <2> QED
    BY <2>1, <2>2, <2>3, <2>4, Zenon
<1>9. References'
  <2>1. \A u \in Threads : Alive(state', cpu', u) <=> Alive(state, cpu, u)
    BY <1>3, <1>1, <1>2, Zenon DEF Alive, Setting, Becomes, Others
  <2> QED
    BY <2>1, ReferencesKept, <1>1, <1>2, Zenon DEF IInv, Becomes, Others, SameCall
<1>10. Deletions' /\ Found'
  <2>1. Deletions'
    BY <1>1, <1>2, Zenon DEF IInv, Becomes, Others, Deletions
  <2>2. RunningFound'
    BY <1>1, <1>2, Zenon DEF IInv, Becomes, Others, RunningFound, Found
  <2>3. QueuedFound'
    BY <1>1, <1>2, Zenon DEF IInv, Becomes, Others, QueuedFound, Found
  <2>4. WokenFound'
    BY <1>1, <1>2, Zenon DEF IInv, Becomes, Others, WokenFound, Found, Waking
  <2>5. SleepersFound'
    BY <1>1, <1>2, Zenon DEF IInv, Becomes, Others, SleepersFound, Found, Contained, Taken, Arriving
  <2> QED
    BY <2>1, <2>2, <2>3, <2>4, <2>5, Zenon DEF Found
<1> QED
  BY <1>4, <1>5, <1>6, <1>7, <1>8, <1>9, <1>10, Zenon DEF IInv

(* The CPU puts the thread it leaves back on a run queue. *)
LEMMA RequeueStep ==
    ASSUME Setting, IInv, NEW c \in Cpus, Requeue(c)
    PROVE  IInv'
<1>1. Pc(cpu, c) = "requeue" /\ Becomes(c, "pick", None, Rest(cpu, c)) /\ SameCall(c)
  BY ThreadBecomes, LocationsAre, Zenon DEF Requeue, Pc, IInv, Types
<1>2. PICK t \in Threads : Thread(cpu, c) = t /\ t # None /\ state[t] = "running"
  BY <1>1, CpuHasThread, Zenon DEF Runner, Has, Dispatching
<1>3. UNCHANGED <<regsAway, seq, active, deleted, waiters, refs, joins>>
  BY Zenon DEF Requeue, EnqueueThread, eventVars, handleVars
<1>4. /\ state' \in [Threads -> States] /\ state'[t] = "queued" /\ queue' = queue \cup {t}
      /\ \A u \in Threads : u # t => state'[u] = state[u]
  BY <1>2, Zenon DEF Requeue, EnqueueThread, IInv, Types, States, Thread
<1>5. Quiet(c, t) /\ \A d \in Cpus : d # c => Thread(cpu, d) # t
  BY <1>1, <1>2, Awake, Zenon DEF IInv, Apart
<1>6. OnlyThread(t)
  BY <1>1, <1>3, <1>4, Zenon DEF OnlyThread, Arriving, Others, Becomes
<1>7. Types'
  BY <1>1, <1>3, <1>4, Zenon DEF Types, Others, IInv, Becomes
<1>8. Calls'
  BY <1>1, Zenon DEF Calls, Dispatching, Holding, Others, SameCall, IInv, Becomes
<1>9. Runners'
  <2>1. Runner(cpu', state', regsAway', c)
    BY <1>1, Zenon DEF Runner, Has, Dispatching, Becomes
  <2> QED
    BY <1>5, <1>6, <2>1, RunnersKept, <1>1, Zenon DEF Becomes
<1>10. Apart'
  BY <1>5, <1>1, <1>4 DEF Apart, Types, Setting, Others, IInv, Becomes
<1>11. WakersAlone'
  BY <1>5, <1>6, WakersKept, <1>1, Zenon DEF Waking, Becomes
<1>12. ListsCurrent' /\ ListsSingle' /\ ListsHeld' /\ TakenCurrent'
  BY <1>5, <1>6, ListsKept, <1>1, <1>3, Zenon DEF Taken, Becomes
<1>13. References'
  <2>1. \A u \in Threads : Alive(state', cpu', u) <=> Alive(state, cpu, u)
    BY <1>1, <1>2, <1>4, Zenon DEF Alive, Others, Setting, Becomes
  <2> QED
    BY <2>1, ReferencesKept, <1>1, <1>3, Zenon DEF Others, SameCall, IInv, Becomes
<1>14. Deletions' /\ Found'
  <2>1. Deletions'
    BY <1>1, <1>3, Zenon DEF Others, IInv, Becomes, Deletions
  <2>2. RunningFound'
    BY <1>1, <1>2, <1>4, Zenon DEF Others, IInv, Becomes, RunningFound, Found
  <2>3. QueuedFound'
    BY <1>1, <1>4, Zenon DEF Others, IInv, Becomes, QueuedFound, Found
  <2>4. WokenFound'
    BY <1>1, <1>4, Zenon DEF Others, IInv, Becomes, WokenFound, Found, Waking
  <2>5. SleepersFound'
    BY <1>1, <1>3, <1>4, <1>6, SleepersKept, Zenon DEF Becomes, Taken
  <2> QED
    BY <2>1, <2>2, <2>3, <2>4, <2>5, Zenon DEF Found
<1> QED
  BY <1>7, <1>8, <1>9, <1>10, <1>11, <1>12, <1>13, <1>14, Zenon DEF IInv

(* The CPU takes a thread from a run queue. *)
LEMMA PickStep ==
    ASSUME Setting, IInv, NEW c \in Cpus, NEW t \in Threads, Pick(c, t)
    PROVE  IInv'
<1>1. Pc(cpu, c) = "pick" /\ Becomes(c, "start", t, Rest(cpu, c)) /\ SameCall(c)
  BY ThreadBecomes, LocationsAre, Zenon DEF Pick, Pc, IInv, Types
<1>2. UNCHANGED <<regsAway, state, seq, active, deleted, waiters, refs, joins>> /\ t \in queue /\ queue' = queue \ {t}
  BY Zenon DEF Pick, threadVars, eventVars, handleVars
<1>3. /\ t # None /\ state[t] = "queued" /\ Thread(cpu, c) = None
      /\ \A d \in Cpus : Thread(cpu, d) = t => Pc(cpu, d) = "recheck"
  BY <1>1, <1>2, Zenon DEF IInv, Apart, Runners, Runner, Has
<1>4. Types'
  BY <1>1, <1>2, Zenon DEF Types, IInv, Becomes, Others
<1>5. Calls' /\ Runners'
  <2>1. Calls'
    BY <1>1, Zenon DEF IInv, Becomes, Others, Calls, Dispatching, Holding, SameCall
  <2>2. Runners'
    <3>1. Runner(cpu', state', regsAway', c)
      BY <1>1, <1>2, <1>3, Zenon DEF Becomes, Runner, Has, Dispatching
    <3> QED
      BY <1>1, <1>2, <3>1, RunnersSame, Zenon DEF Becomes
  <2> QED
    BY <2>1, <2>2, Zenon
<1>6. Apart'
  BY <1>1, <1>2 DEF Apart, IInv, Becomes, Others
<1>7. WakersAlone'
  BY <1>1, <1>2, Zenon DEF WakersAlone, Waking, IInv, Becomes, Others
<1>8. ListsCurrent' /\ ListsSingle' /\ ListsHeld' /\ TakenCurrent'
  <2>1. ListsCurrent'
    BY <1>1, <1>2, Zenon DEF IInv, Becomes, Others, ListsCurrent, Arriving
  <2>2. ListsSingle'
    BY <1>1, <1>2 DEF IInv, Becomes, Others, ListsSingle, Taken
  <2>3. ListsHeld'
    BY <1>2, Zenon DEF IInv, ListsHeld
  <2>4. TakenCurrent'
    BY <1>1, <1>2 DEF IInv, Becomes, Others, TakenCurrent, Taken, Arriving
  <2> QED
    BY <2>1, <2>2, <2>3, <2>4, Zenon
<1>9. References'
  <2>1. \A u \in Threads : Alive(state', cpu', u) <=> Alive(state, cpu, u)
    BY <1>1, <1>2, <1>3, Zenon DEF Alive, Setting, Becomes, Others
  <2> QED
    BY <2>1, ReferencesKept, <1>1, <1>2, Zenon DEF IInv, Becomes, Others, SameCall
<1>10. Deletions' /\ Found'
  <2>1. Deletions'
    BY <1>1, <1>2, Zenon DEF IInv, Becomes, Others, Deletions
  <2>2. RunningFound'
    BY <1>1, <1>2, <1>3, Zenon DEF Setting, IInv, Becomes, Others, RunningFound, Found
  <2>3. QueuedFound'
    BY <1>1, <1>2, Zenon DEF IInv, Becomes, Others, QueuedFound, Found
  <2>4. WokenFound'
    BY <1>1, <1>2, Zenon DEF IInv, Becomes, Others, WokenFound, Found, Waking
  <2>5. SleepersFound'
    BY <1>1, <1>2 DEF IInv, Becomes, Others, SleepersFound, Found, Contained, Taken, Arriving
  <2> QED
    BY <2>1, <2>2, <2>3, <2>4, <2>5, Zenon DEF Found
<1> QED
  BY <1>4, <1>5, <1>6, <1>7, <1>8, <1>9, <1>10, Zenon DEF IInv

(* The CPU goes on with the thread it has picked. *)
LEMMA StartStep ==
    ASSUME Setting, IInv, NEW c \in Cpus, Start(c), ~Overtakes(c)
    PROVE  IInv'
<1>1. Pc(cpu, c) = "start" /\ Becomes(c, "run", Thread(cpu, c), Rest(cpu, c)) /\ SameCall(c)
  BY GotoBecomes, LocationsAre, Zenon DEF Start, Pc, IInv, Types
<1>2. PICK t \in Threads : Thread(cpu, c) = t /\ t # None /\ state[t] = "queued"
  BY <1>1, CpuHasThread, Zenon DEF Runner, Dispatching
<1>3. UNCHANGED <<regsAway, seq, active, deleted, waiters, refs, joins, queue>>
  BY Zenon DEF Start, eventVars, handleVars
<1>4. /\ state' \in [Threads -> States] /\ state'[t] = "running"
      /\ \A u \in Threads : u # t => state'[u] = state[u]
  BY <1>2, Zenon DEF Start, IInv, Types, States, Thread
<1>5. /\ Quiet(c, t) /\ t \notin queue
      /\ \A d \in Cpus : d # c => Thread(cpu, d) # t
  <2>1. \A d \in Cpus \ {c} : ~(Pc(cpu, d) = "recheck" /\ Thread(cpu, d) = t)
    BY <1>1, <1>2, Zenon DEF Overtakes, Pc, Thread
  <2> QED
    BY <1>1, <1>2, <2>1, Awake, Zenon DEF IInv, Apart
<1>6. OnlyThread(t)
  BY <1>1, <1>3, <1>4, Zenon DEF OnlyThread, Arriving, Others, Becomes
<1>7. Types'
  BY <1>1, <1>3, <1>4, Zenon DEF Types, Others, IInv, Becomes
<1>8. Calls'
  BY <1>1, Zenon DEF Calls, Dispatching, Holding, Others, SameCall, IInv, Becomes
<1>9. Runners'
  <2>1. Runner(cpu', state', regsAway', c)
    BY <1>1, <1>2, <1>4, Zenon DEF Runner, Has, Dispatching, Becomes
  <2> QED
    BY <1>5, <1>6, <2>1, RunnersKept, <1>1, Zenon DEF Becomes
<1>10. Apart'
  BY <1>5, <1>1, <1>2, <1>3, <1>4 DEF Apart, Types, Others, IInv, Becomes
<1>11. WakersAlone'
  BY <1>5, <1>6, WakersKept, <1>1, Zenon DEF Waking, Becomes
<1>12. ListsCurrent' /\ ListsSingle' /\ ListsHeld' /\ TakenCurrent'
  BY <1>5, <1>6, ListsKept, <1>1, <1>3, Zenon DEF Taken, Becomes
<1>13. References'
  <2>1. \A u \in Threads : Alive(state', cpu', u) <=> Alive(state, cpu, u)
    BY <1>1, <1>2, <1>4, Zenon DEF Alive, Others, Becomes
  <2> QED
    BY <2>1, ReferencesKept, <1>1, <1>3, Zenon DEF Others, SameCall, IInv, Becomes
<1>14. Deletions' /\ Found'
  <2>1. Deletions'
    BY <1>1, <1>3, Zenon DEF Others, IInv, Becomes, Deletions
  <2>2. RunningFound'
    BY <1>1, <1>2, <1>4, Zenon DEF Others, IInv, Becomes, RunningFound, Found
  <2>3. QueuedFound'
    BY <1>1, <1>2, <1>3, <1>4, Zenon DEF Others, IInv, Becomes, QueuedFound, Found
  <2>4. WokenFound'
    BY <1>1, <1>4, Zenon DEF Others, IInv, Becomes, WokenFound, Found, Waking
  <2>5. SleepersFound'
    BY <1>1, <1>3, <1>4, <1>6, SleepersKept, Zenon DEF Becomes, Taken
  <2> QED
    BY <2>1, <2>2, <2>3, <2>4, <2>5, Zenon DEF Found
<1> QED
  BY <1>7, <1>8, <1>9, <1>10, <1>11, <1>12, <1>13, <1>14, Zenon DEF IInv

(* thread_terminate *)
LEMMA TerminateStep ==
    ASSUME Setting, IInv, NEW c \in Cpus, Terminate(c)
    PROVE  IInv'
<1>1. Pc(cpu, c) = "run" /\ Becomes(c, "terminate", Thread(cpu, c), Rest(cpu, c)) /\ SameCall(c)
  BY GotoBecomes, LocationsAre, Zenon DEF Terminate, Pc, IInv, Types
<1>2. PICK t \in Threads : Thread(cpu, c) = t /\ t # None /\ state[t] = "running"
  BY <1>1, CpuHasThread, Zenon DEF Runner, Has, Dispatching
<1>3. UNCHANGED <<regsAway, seq, active, deleted, waiters, refs, joins, queue>>
  BY Zenon DEF Terminate, eventVars, handleVars
<1>4. /\ state' \in [Threads -> States] /\ state'[t] = "terminated"
      /\ \A u \in Threads : u # t => state'[u] = state[u]
  BY <1>2, Zenon DEF Terminate, IInv, Types, States, Thread
<1>5. Quiet(c, t) /\ \A d \in Cpus : d # c => Thread(cpu, d) # t
  BY <1>1, <1>2, Awake, Zenon DEF IInv, Apart
<1>6. OnlyThread(t)
  BY <1>1, <1>3, <1>4, Zenon DEF OnlyThread, Arriving, Others, Becomes
<1>7. Types'
  BY <1>1, <1>3, <1>4, Zenon DEF Types, Others, IInv, Becomes
<1>8. Calls'
  BY <1>1, Zenon DEF Calls, Dispatching, Holding, Others, SameCall, IInv, Becomes
<1>9. Runners'
  <2>1. Runner(cpu', state', regsAway', c)
    BY <1>1, <1>2, <1>4, Zenon DEF Runner, Has, Dispatching, Becomes
  <2> QED
    BY <1>5, <1>6, <2>1, RunnersKept, <1>1, Zenon DEF Becomes
<1>10. Apart'
  BY <1>1, <1>2, <1>3, <1>4 DEF Apart, Types, Others, IInv, Becomes
<1>11. WakersAlone'
  BY <1>5, <1>6, WakersKept, <1>1, Zenon DEF Waking, Becomes
<1>12. ListsCurrent' /\ ListsSingle' /\ ListsHeld' /\ TakenCurrent'
  BY <1>5, <1>6, ListsKept, <1>1, <1>3, Zenon DEF Taken, Becomes
<1>13. References'
  <2>1. \A u \in Threads : Alive(state', cpu', u) <=> Alive(state, cpu, u)
    BY <1>1, <1>2, <1>4, Zenon DEF Alive, Others, Becomes
  <2> QED
    BY <2>1, ReferencesKept, <1>1, <1>3, Zenon DEF Others, SameCall, IInv, Becomes
<1>14. Deletions' /\ Found'
  <2>1. Deletions'
    BY <1>1, <1>3, Zenon DEF Others, IInv, Becomes, Deletions
  <2>2. RunningFound'
    BY <1>1, <1>4, Zenon DEF Others, IInv, Becomes, RunningFound, Found
  <2>3. QueuedFound'
    BY <1>1, <1>3, <1>4, Zenon DEF Others, IInv, Becomes, QueuedFound, Found
  <2>4. WokenFound'
    BY <1>1, <1>4, Zenon DEF Others, IInv, Becomes, WokenFound, Found, Waking
  <2>5. SleepersFound'
    BY <1>1, <1>3, <1>4, <1>6, SleepersKept, Zenon DEF Becomes, Taken
  <2> QED
    BY <2>1, <2>2, <2>3, <2>4, <2>5, Zenon DEF Found
<1> QED
  BY <1>7, <1>8, <1>9, <1>10, <1>11, <1>12, <1>13, <1>14, Zenon DEF IInv

(* event_dispatch wakes the thread it has taken. *)
LEMMA WakeStep ==
    ASSUME Setting, IInv, NEW c \in Cpus, Wake(c)
    PROVE  IInv'
<1>1. Pc(cpu, c) = "wake" /\ Becomes(c, "settle", Thread(cpu, c), Rest(cpu, c)) /\ SameCall(c)
  BY GotoBecomes, LocationsAre, Zenon DEF Wake, Pc, IInv, Types, Dispatching
<1>2. PICK t \in Threads : To(cpu, c) = t /\ t # None /\ state[t] = "awaiting" /\ ~Arriving(cpu, t)
  BY <1>1, HeldIsThread, Zenon DEF Taken, Setting, IInv, TakenCurrent
<1>3. UNCHANGED <<regsAway, active, deleted, waiters, refs, joins, queue>>
  BY Zenon DEF Wake, eventVars, handleVars
<1>4. /\ state' \in [Threads -> States] /\ state'[t] = "none" /\ seq' \in [Threads -> Nat]
      /\ \A u \in Threads : u # t => state'[u] = state[u] /\ seq'[u] = seq[u]
  <2>1. state' = [state EXCEPT ![t] = "none"] /\ seq' = [seq EXCEPT ![t] = @ + 1]
    BY <1>2, Zenon DEF Wake, Target, To
  <2> QED
    BY <2>1 DEF IInv, Types, States
<1>5. Quiet(c, t)
  BY <1>1, <1>2, Zenon DEF Quiet, Taken, IInv, TakenCurrent, ListsSingle, WakersAlone
<1>6. OnlyThread(t)
  BY <1>1, <1>3, <1>4, Zenon DEF OnlyThread, Arriving, Others, Becomes
<1>7. Types'
  BY <1>1, <1>3, <1>4, Zenon DEF Types, Others, IInv, Becomes
<1>8. Calls'
  BY <1>1, Zenon DEF Calls, Dispatching, Holding, Others, SameCall, IInv, Becomes
<1>9. Runners'
  <2>1. \A d \in Cpus : Ret(cpu, d) \in Rets /\ (Pc(cpu, d) \in Dispatching => Ret(cpu, d) # "idle")
    BY FieldsOfTable, Zenon DEF Types, Fields, Calls, IInv
  <2>2. ASSUME NEW d \in Cpus, d # c, Thread(cpu, d) = t PROVE Runner(cpu', state', regsAway', d)
    BY <2>2, <1>1, <1>2, <1>3, <1>4, Zenon DEF Runners, Runner, Has, Arriving, Others, IInv, Becomes
  <2>3. Runner(cpu', state', regsAway', c)
    <3>1. Runner(cpu, state, regsAway, c) /\ Thread(cpu, c) # t
      BY <2>1, <1>1, <1>2, Zenon DEF Runners, Runner, Has, Rets, Dispatching, IInv
    <3> QED
      BY <3>1, FieldsOfTable, <1>1, <1>4, Zenon
         DEF Types, Fields, Runner, Has, Dispatching, SameCall, IInv, Becomes
  <2> QED
    BY <1>6, <2>2, <2>3, RunnersKept, <1>1, Zenon DEF Becomes
<1>10. Apart'
  BY <1>1, <1>2, <1>3, <1>4 DEF Apart, Types, Others, IInv, Becomes
<1>11. WakersAlone'
  <2>1. Waking(cpu', c) /\ Pc(cpu', c) = "settle" /\ To(cpu', c) = t
    BY <1>1, <1>2, Zenon DEF Waking, SameCall, Becomes
  <2>2. \A d \in Cpus : d # c /\ Waking(cpu', d) =>
           /\ Waking(cpu, d) /\ To(cpu, d) \in Threads /\ To(cpu, d) # t
           /\ To(cpu', d) = To(cpu, d) /\ Pc(cpu', d) = Pc(cpu, d)
    BY HeldIsThread, <1>1, <1>5, Zenon DEF Waking, Others, Quiet, Becomes
  <2> QED
    BY <2>1, <2>2, <1>3, <1>4, Zenon DEF WakersAlone, IInv
<1>12. ListsCurrent' /\ ListsSingle' /\ ListsHeld' /\ TakenCurrent'
  BY <1>5, <1>6, ListsKept, <1>1, <1>3, Zenon DEF Taken, Becomes
<1>13. References'
  <2>1. \A u \in Threads : Alive(state', cpu', u) <=> Alive(state, cpu, u)
    BY <1>1, <1>2, <1>4, Zenon DEF Alive, Others, Becomes
  <2> QED
    BY <2>1, ReferencesKept, <1>1, <1>3, Zenon DEF Others, SameCall, IInv, Becomes
<1>14. Deletions' /\ Found'
  <2>1. Deletions'
    BY <1>1, <1>3, Zenon DEF Others, IInv, Becomes, Deletions
  <2>2. RunningFound'
    BY <1>1, <1>4, Zenon DEF Others, IInv, Becomes, RunningFound, Found
  <2>3. QueuedFound'
    BY <1>1, <1>3, <1>4, Zenon DEF Others, IInv, Becomes, QueuedFound, Found
  <2>4. WokenFound'
    BY <1>1, <1>2, <1>4, Zenon DEF Others, IInv, Becomes, WokenFound, Found, Waking, SameCall
  <2>5. SleepersFound'
    BY <1>1, <1>2, <1>3, <1>4, <1>6, SleepersKept, Zenon DEF Becomes
  <2> QED
    BY <2>1, <2>2, <2>3, <2>4, <2>5, Zenon DEF Found
<1> QED
  BY <1>7, <1>8, <1>9, <1>10, <1>11, <1>12, <1>13, <1>14, Zenon DEF IInv

(* A thread that has been woken and whose registers are saved has no CPU. *)
LEMMA WokenIsFree ==
    ASSUME Setting, IInv, NEW t \in Threads, state[t] = "none", ~regsAway[t]
    PROVE  \A c \in Cpus : Thread(cpu, c) = t => Pc(cpu, c) = "recheck"
<1>1. \A c \in Cpus : Pc(cpu, c) \in Dispatching => Ret(cpu, c) \in {"run", "pick", "switch"}
  BY FieldsOfTable DEF IInv, Types, Fields, Calls, Rets
<1> QED
  BY <1>1, FieldsOfTable, Zenon
     DEF IInv, Types, Fields, Setting, Runners, Runner, Has, Locations, Dispatching

(* event_dispatch puts the thread on a run queue. *)
LEMMA EnqueueStep ==
    ASSUME Setting, IInv, NEW c \in Cpus, Enqueue(c)
    PROVE  IInv'
<1>1. Pc(cpu, c) = "enqueue" /\ Becomes(c, "drop", Thread(cpu, c), Rest(cpu, c)) /\ SameCall(c)
  BY GotoBecomes, LocationsAre, Zenon DEF Enqueue, Pc, IInv, Types, Dispatching
<1>2. PICK t \in Threads : To(cpu, c) = t /\ state[t] = "none" /\ ~regsAway[t]
  BY <1>1, HeldIsThread, Zenon DEF Waking, IInv, WakersAlone
<1>3. UNCHANGED <<regsAway, seq, active, deleted, waiters, refs, joins>>
  BY Zenon DEF Enqueue, EnqueueThread, eventVars, handleVars
<1>4. /\ state' \in [Threads -> States] /\ state'[t] = "queued" /\ queue' = queue \cup {t}
      /\ \A u \in Threads : u # t => state'[u] = state[u]
  <2>1. EnqueueThread(t)
    BY <1>2, Zenon DEF Enqueue, Target, To
  <2> QED
    BY <1>2, <2>1, Zenon DEF EnqueueThread, IInv, Types, States
<1>5. Quiet(c, t) /\ \A d \in Cpus : Thread(cpu, d) = t => Pc(cpu, d) = "recheck"
  <2>1. \A d \in Cpus : Thread(cpu, d) = t => Pc(cpu, d) = "recheck"
    BY <1>2, WokenIsFree, Zenon
  <2> QED
    BY <1>1, <1>2, <2>1, Zenon DEF Quiet, Waking, IInv, TakenCurrent, ListsCurrent, WakersAlone
<1>6. OnlyThread(t)
  BY <1>1, <1>3, <1>4, Zenon DEF OnlyThread, Arriving, Others, Becomes
<1>7. Types'
  BY <1>1, <1>3, <1>4, Zenon DEF Types, Others, IInv, Becomes
<1>8. Calls'
  BY <1>1, Zenon DEF Calls, Dispatching, Holding, Others, SameCall, IInv, Becomes
<1>9. Runners'
  <2>1. ASSUME NEW d \in Cpus, d # c, Thread(cpu, d) = t PROVE Runner(cpu', state', regsAway', d)
    BY <2>1, <1>1, <1>2, <1>4, Zenon DEF Runners, Runner, Has, Others, IInv, Becomes
  <2>2. Runner(cpu', state', regsAway', c)
    <3>1. Runner(cpu, state, regsAway, c) /\ Thread(cpu, c) # t
      BY <1>5, <1>1, Zenon DEF Runners, IInv
    <3> QED
      BY <3>1, FieldsOfTable, <1>1, <1>4, Zenon
         DEF Types, Fields, Runner, Has, Dispatching, SameCall, IInv, Becomes
  <2> QED
    BY <1>6, <2>1, <2>2, RunnersKept, <1>1, Zenon DEF Becomes
<1>10. Apart'
  BY <1>5, <1>1, <1>4 DEF Apart, Types, Others, IInv, Becomes
<1>11. WakersAlone'
  BY <1>5, <1>6, WakersKept, <1>1, Zenon DEF Waking, Becomes
<1>12. ListsCurrent' /\ ListsSingle' /\ ListsHeld' /\ TakenCurrent'
  BY <1>5, <1>6, ListsKept, <1>1, <1>3, Zenon DEF Taken, Becomes
<1>13. References'
  <2>1. \A u \in Threads : Alive(state', cpu', u) <=> Alive(state, cpu, u)
    BY <1>1, <1>2, <1>4, Zenon DEF Alive, Others, Becomes
  <2> QED
    BY <2>1, ReferencesKept, <1>1, <1>3, Zenon DEF Others, SameCall, IInv, Becomes
<1>14. Deletions' /\ Found'
  <2>1. Deletions'
    BY <1>1, <1>3, Zenon DEF Others, IInv, Becomes, Deletions
  <2>2. RunningFound'
    BY <1>1, <1>4, Zenon DEF Others, IInv, Becomes, RunningFound, Found
  <2>3. QueuedFound'
    BY <1>1, <1>4, Zenon DEF Others, IInv, Becomes, QueuedFound, Found
  <2>4. WokenFound'
    BY <1>1, <1>2, <1>4, Zenon DEF Others, IInv, Becomes, WokenFound, Found, Waking
  <2>5. SleepersFound'
    BY <1>1, <1>3, <1>4, <1>6, SleepersKept, Zenon DEF Becomes, Taken
  <2> QED
    BY <2>1, <2>2, <2>3, <2>4, <2>5, Zenon DEF Found
<1> QED
  BY <1>7, <1>8, <1>9, <1>10, <1>11, <1>12, <1>13, <1>14, Zenon DEF IInv

(* The event was active: the thread goes on. *)
LEMMA AwaitActiveStep ==
    ASSUME Setting, IInv, NEW c \in Cpus, AwaitActive(c)
    PROVE  IInv'
<1>1. Pc(cpu, c) = "await_active" /\ Becomes(c, "run", Thread(cpu, c), Rest(cpu, c)) /\ SameCall(c)
  BY GotoBecomes, LocationsAre, Zenon DEF AwaitActive, Pc, IInv, Types
<1>2. PICK t \in Threads : Thread(cpu, c) = t /\ t # None /\ state[t] = "awaiting" /\ Arriving(cpu, t)
  BY <1>1, CpuHasThread, Zenon DEF Runner, Dispatching, Arriving
<1>3. UNCHANGED <<regsAway, seq, active, deleted, waiters, refs, joins, queue>>
  BY Zenon DEF AwaitActive, eventVars, handleVars
<1>4. /\ state' \in [Threads -> States] /\ state'[t] = "running"
      /\ \A u \in Threads : u # t => state'[u] = state[u]
  BY <1>2, Zenon DEF AwaitActive, IInv, Types, States, Thread
<1>5. Quiet(c, t) /\ \A d \in Cpus : d # c => Thread(cpu, d) # t
  BY <1>1, <1>2, Zenon DEF Quiet, IInv, TakenCurrent, ListsCurrent, WakersAlone, Apart
<1>6. OnlyThread(t)
  BY <1>1, <1>2, <1>3, <1>4, Zenon DEF OnlyThread, Arriving, Others, Becomes
<1>7. Types'
  BY <1>1, <1>3, <1>4, Zenon DEF Types, Others, IInv, Becomes
<1>8. Calls'
  BY <1>1, Zenon DEF Calls, Dispatching, Holding, Others, SameCall, IInv, Becomes
<1>9. Runners'
  <2>1. Runner(cpu', state', regsAway', c)
    BY <1>1, <1>2, <1>4, Zenon DEF Runner, Has, Dispatching, Becomes
  <2> QED
    BY <1>5, <1>6, <2>1, RunnersKept, <1>1, Zenon DEF Becomes
<1>10. Apart'
  BY <1>1, <1>2, <1>3, <1>4 DEF Apart, Types, Others, IInv, Becomes
<1>11. WakersAlone'
  BY <1>5, <1>6, WakersKept, <1>1, Zenon DEF Waking, Becomes
<1>12. ListsCurrent' /\ ListsSingle' /\ ListsHeld' /\ TakenCurrent'
  BY <1>5, <1>6, ListsKept, <1>1, <1>3, Zenon DEF Taken, Becomes
<1>13. References'
  <2>1. \A u \in Threads : Alive(state', cpu', u) <=> Alive(state, cpu, u)
    BY <1>1, <1>2, <1>4, Zenon DEF Alive, Others, Becomes
  <2> QED
    BY <2>1, ReferencesKept, <1>1, <1>3, Zenon DEF Others, SameCall, IInv, Becomes
<1>14. Deletions' /\ Found'
  <2>1. Deletions'
    BY <1>1, <1>3, Zenon DEF Others, IInv, Becomes, Deletions
  <2>2. RunningFound'
    BY <1>1, <1>2, <1>4, Zenon DEF Others, IInv, Becomes, RunningFound, Found
  <2>3. QueuedFound'
    BY <1>1, <1>3, <1>4, Zenon DEF Others, IInv, Becomes, QueuedFound, Found
  <2>4. WokenFound'
    BY <1>1, <1>4, Zenon DEF Others, IInv, Becomes, WokenFound, Found, Waking
  <2>5. SleepersFound'
    BY <1>1, <1>3, <1>4, <1>6, SleepersKept, Zenon DEF Becomes, Taken
  <2> QED
    BY <2>1, <2>2, <2>3, <2>4, <2>5, Zenon DEF Found
<1> QED
  BY <1>7, <1>8, <1>9, <1>10, <1>11, <1>12, <1>13, <1>14, Zenon DEF IInv

(* event_set_active *)
LEMMA SetActiveStep ==
    ASSUME Setting, IInv, NEW c \in Cpus, SetActive(c)
    PROVE  IInv'
<1>1. active' \in [Events -> BOOLEAN]
  BY Zenon DEF SetActive, IInv, Types
<1>2. UNCHANGED <<state, regsAway, seq, deleted, waiters, refs, joins, queue, cpu>>
  BY Zenon DEF SetActive, threadVars, handleVars
<1>3. Types'
  BY <1>1, <1>2, Zenon DEF Types, IInv
<1>4. Calls' /\ Runners' /\ Apart' /\ WakersAlone'
  BY <1>2, Zenon DEF Calls, Runners, Apart, WakersAlone, IInv
<1>5. ListsCurrent' /\ ListsSingle' /\ ListsHeld' /\ TakenCurrent'
  BY <1>2 DEF ListsCurrent, ListsSingle, ListsHeld, TakenCurrent, IInv
<1>6. References' /\ Deletions' /\ Found'
  BY <1>2, Zenon
     DEF References, Deletions, Found, IInv, RunningFound, QueuedFound, WokenFound, SleepersFound
<1> QED
  BY <1>3, <1>4, <1>5, <1>6, Zenon DEF IInv

(* event_delete: containers only leave the lists. *)
LEMMA EventDeleteStep ==
    ASSUME Setting, IInv, NEW c \in Cpus, EventDelete(c)
    PROVE  IInv'
<1>1. PICK e \in Deletable : /\ deleted' = [deleted EXCEPT ![e] = TRUE]
                             /\ waiters' = [waiters EXCEPT ![e] = <<>>]
  BY Zenon DEF EventDelete
<1>2. UNCHANGED <<state, regsAway, seq, active, refs, joins, queue, cpu>>
  BY Zenon DEF EventDelete, threadVars, handleVars
<1>3. /\ e \in Events /\ deleted' \in [Events -> BOOLEAN] /\ deleted'[e]
      /\ \A f \in Events : deleted'[f] => deleted[f] \/ f \in Deletable
  BY <1>1, Zenon DEF Setting, IInv, Types
<1>4. waiters' \in Lists
  <2>1. <<>> \in Seq(Container)
    OBVIOUS
  <2> QED
    BY <1>1, <2>1, Zenon DEF IInv, Types, Lists
<1>5. \A f \in Events : \A i \in Places(waiters', f) :
         /\ i \in Places(waiters, f) /\ Sleeper(waiters', f, i) = Sleeper(waiters, f, i)
         /\ Wait(waiters', f, i) = Wait(waiters, f, i)
  <2>1. \A f \in Events : f # e => waiters'[f] = waiters[f]
    BY <1>1, Zenon DEF IInv, Types, Lists
  <2>2. DOMAIN waiters'[e] = {}
    BY <1>1, <1>3 DEF IInv, Types, Lists
  <2> QED
    BY <2>1, <2>2, Zenon DEF Places, Sleeper, Wait
<1>6. Types'
  BY <1>3, <1>4, <1>2, Zenon DEF Types, IInv
<1>7. Calls' /\ Runners' /\ Apart' /\ WakersAlone'
  BY <1>2, Zenon DEF Calls, Runners, Apart, WakersAlone, IInv
<1>8. ListsCurrent'
  BY <1>5, <1>2, Zenon DEF ListsCurrent, IInv
<1>9. ListsSingle'
  BY <1>5, <1>2 DEF ListsSingle, IInv
<1>10. ListsHeld' /\ TakenCurrent'
  BY <1>5, <1>2, Zenon DEF ListsHeld, TakenCurrent, Setting, IInv
<1>11. References' /\ Deletions' /\ Found'
  BY <1>3, <1>2, Zenon
     DEF References, Deletions, Found, IInv, RunningFound, QueuedFound, WokenFound, SleepersFound
<1> QED
  BY <1>6, <1>7, <1>8, <1>9, <1>10, <1>11, Zenon DEF IInv

LEMMA CallBecomes ==
    ASSUME cpu \in Tables, NEW c \in Cpus, NEW l \in Locations, NEW k \in CallType,
           cpu' = [cpu EXCEPT ![c].pc = l, ![c].call = k]
    PROVE  /\ Becomes(c, l, Thread(cpu, c), Rest(cpu, c))
           /\ To(cpu', c) = k.target /\ Stamp(cpu', c) = k.seq
           /\ On(cpu', c) = k.event /\ Ret(cpu', c) = k.ret
<1> DEFINE r == [cpu[c] EXCEPT !.pc = l, !.call = k]
<1>1. r \in CpuType /\ r.pc = l /\ r.thread = cpu[c].thread /\ r.rest = cpu[c].rest /\ r.call = k
  BY Zenon DEF Tables, CpuType
<1>2. cpu' = [cpu EXCEPT ![c] = r]
  BY Zenon
<1> HIDE DEF r
<1>3. Others(c) /\ cpu'[c] = r
  BY <1>1, <1>2, Updated, Zenon
<1> QED
  BY <1>1, <1>3 DEF Becomes, Pc, Thread, Rest, To, Stamp, On, Ret

(* A call of event_dispatch begins or ends, without a thread. *)
LEMMA CallStep ==
    ASSUME Setting, IInv, NEW c \in Cpus, NEW l \in Locations,
           Becomes(c, l, Thread(cpu, c), Rest(cpu, c)), To(cpu', c) = None,
           UNCHANGED <<state, regsAway, seq, deleted, waiters, refs, joins, queue>>,
           active' \in [Events -> BOOLEAN],
           \/ /\ l = "pop" /\ On(cpu', c) \in Events
              /\ \/ Pc(cpu, c) \in {"run", "pick"} /\ Ret(cpu', c) = Pc(cpu, c)
                 \/ Pc(cpu, c) = "terminate" /\ Ret(cpu', c) = "switch"
           \/ Pc(cpu, c) = "pop" /\ l = Ret(cpu, c)
    PROVE  IInv'
<1>1. To(cpu, c) = None /\ (Pc(cpu, c) = "pop" => Ret(cpu, c) \in {"run", "pick", "switch"})
  BY FieldsOfTable, Zenon DEF IInv, Types, Fields, Calls, Holding, Dispatching, Rets
<1>2. OnlyThread(None) /\ Quiet(c, None)
  <2>1. OnlyThread(None)
    BY <1>1 DEF OnlyThread, Becomes, Others, Arriving
  <2>2. Quiet(c, None)
    BY HeldIsThread, Zenon DEF Quiet, IInv, ListsCurrent, Setting
  <2> QED
    BY <2>1, <2>2, Zenon
<1>3. Types'
  BY Zenon DEF Types, Others, IInv, Becomes
<1>4. Calls'
  BY <1>1, Zenon DEF Calls, Dispatching, Holding, Others, IInv, Becomes
<1>5. Runners'
  <2>1. Runner(cpu, state, regsAway, c)
    BY Zenon DEF IInv, Runners
  <2>2. Pc(cpu', c) = l /\ Thread(cpu', c) = Thread(cpu, c)
    BY Zenon DEF Becomes
  <2>3. l = "pop" /\ Pc(cpu, c) \in {"run", "pick"} /\ Ret(cpu', c) = Pc(cpu, c)
          => Runner(cpu', state', regsAway', c)
    BY <2>1, <2>2, Zenon DEF Runner, Has, Dispatching
  <2>4. l = "pop" /\ Pc(cpu, c) = "terminate" /\ Ret(cpu', c) = "switch"
          => Runner(cpu', state', regsAway', c)
    BY <2>1, <2>2, Zenon DEF Runner, Has, Dispatching
  <2>5. Pc(cpu, c) = "pop" /\ l = Ret(cpu, c) => Runner(cpu', state', regsAway', c)
    BY <1>1, <2>1, <2>2, Zenon DEF Runner, Has, Dispatching
  <2>6. Runner(cpu', state', regsAway', c)
    BY <2>3, <2>4, <2>5, Zenon
  <2> QED
    BY <2>6, RunnersSame, Zenon DEF Becomes
<1>6. Apart'
  BY DEF Apart, Others, IInv, Becomes
<1>7. WakersAlone'
  BY <1>2, WakersKept, <1>1, Zenon DEF Waking, Becomes
<1>8. ListsCurrent' /\ ListsSingle' /\ ListsHeld' /\ TakenCurrent'
  BY <1>2, ListsKept, <1>1, Zenon DEF Taken, Becomes
<1>9. References'
  BY ReferencesKept, <1>1, Zenon DEF Alive, Others, IInv, Becomes
<1>10. Deletions' /\ Found'
  <2>1. Deletions'
    BY <1>1, Zenon DEF Others, IInv, Becomes, Deletions
  <2>2. RunningFound'
    BY Zenon DEF Others, IInv, Becomes, RunningFound, Found
  <2>3. QueuedFound'
    BY Zenon DEF Others, IInv, Becomes, QueuedFound, Found
  <2>4. WokenFound'
    BY Zenon DEF Others, IInv, Becomes, WokenFound, Found, Waking
  <2>5. SleepersFound'
    BY Zenon DEF Others, IInv, Becomes, SleepersFound, Found, Contained, Taken, Arriving
  <2> QED
    BY <2>1, <2>2, <2>3, <2>4, <2>5, Zenon DEF Found
<1> QED
  BY <1>3, <1>4, <1>5, <1>6, <1>7, <1>8, <1>9, <1>10, Zenon DEF IInv

LEMMA LockStep ==
    ASSUME Setting, IInv, NEW c \in Cpus, NEW e \in Events, NEW all \in BOOLEAN, NEW activate \in BOOLEAN,
           NEW ret, LockAndDispatch(c, e, all, activate, ret),
           \/ Pc(cpu, c) \in {"run", "pick"} /\ ret = Pc(cpu, c)
           \/ Pc(cpu, c) = "terminate" /\ ret = "switch"
    PROVE  IInv'
<1> DEFINE k == Call(c, e, all, ret)
<1>1. k \in CallType /\ k.event = e /\ k.target = None /\ k.ret = ret
  BY Zenon DEF Call, NoCall, CallType, Rets
<1>2. cpu' = [cpu EXCEPT ![c].pc = "pop", ![c].call = k] /\ cpu \in Tables /\ "pop" \in Locations
  BY LocationsAre, Zenon DEF LockAndDispatch, IInv, Types, Dispatching
<1> HIDE DEF k
<1>3. Becomes(c, "pop", Thread(cpu, c), Rest(cpu, c)) /\ To(cpu', c) = None /\ On(cpu', c) = e /\ Ret(cpu', c) = ret
  BY <1>1, <1>2, CallBecomes, Zenon
<1>4. UNCHANGED <<state, regsAway, seq, deleted, waiters, refs, joins, queue>> /\ active' \in [Events -> BOOLEAN]
  BY DEF LockAndDispatch, threadVars, handleVars, IInv, Types
<1> QED
  BY <1>2, <1>3, <1>4, CallStep, Zenon

(* event_dispatch has no more waiters. *)
LEMMA PopNoneStep ==
    ASSUME Setting, IInv, NEW c \in Cpus, PopNone(c)
    PROVE  IInv'
<1>1. Pc(cpu, c) = "pop" /\ cpu \in Tables /\ Ret(cpu, c) \in Locations
  BY LocationsAre, FieldsOfTable, Zenon DEF PopNone, Pc, IInv, Types, Fields
<1>2. NoCall \in CallType /\ NoCall.target = None
  BY DEF NoCall, CallType, Rets
<1>3. Becomes(c, Ret(cpu, c), Thread(cpu, c), Rest(cpu, c)) /\ To(cpu', c) = None
  BY <1>1, <1>2, CallBecomes, Zenon DEF PopNone, Unlock, Ret
<1>4. UNCHANGED <<state, regsAway, seq, deleted, waiters, refs, joins, queue>> /\ active' \in [Events -> BOOLEAN]
  BY DEF PopNone, threadVars, handleVars, IInv, Types
<1> QED
  BY <1>1, <1>3, <1>4, CallStep, Zenon

LEMMA RestBecomes ==
    ASSUME cpu \in Tables, NEW c \in Cpus, NEW l \in Locations, NEW r \in Rests,
           \/ cpu' = [cpu EXCEPT ![c].pc = l, ![c].rest = r]
           \/ cpu' = [cpu EXCEPT ![c].rest = r] /\ Pc(cpu, c) = l
    PROVE  Becomes(c, l, Thread(cpu, c), r) /\ SameCall(c)
<1> DEFINE k == [cpu[c] EXCEPT !.pc = l, !.rest = r]
<1>1. k \in CpuType /\ k.pc = l /\ k.thread = cpu[c].thread /\ k.rest = r /\ k.call = cpu[c].call
  BY Zenon DEF Tables, CpuType
<1>2. cpu' = [cpu EXCEPT ![c] = k]
  <2>1. CASE cpu' = [cpu EXCEPT ![c].pc = l, ![c].rest = r]
    BY <2>1, Zenon
  <2>2. CASE cpu' = [cpu EXCEPT ![c].rest = r] /\ Pc(cpu, c) = l
    <3>1. cpu[c] \in CpuType /\ cpu[c].pc = l
      BY <2>2 DEF Tables, Pc
    <3>2. [cpu[c] EXCEPT !.rest = r] = k
      BY <3>1, Zenon DEF CpuType
    <3> QED
      BY <2>2, <3>2, Zenon
  <2> QED
    BY <2>1, <2>2
<1> HIDE DEF k
<1>3. Others(c) /\ cpu'[c] = k
  BY <1>1, <1>2, Updated, Zenon
<1> QED
  BY <1>1, <1>3 DEF Becomes, SameCall, Pc, Thread, Rest, To, Stamp, On, Ret

LEMMA OneEvent ==
    \A e : Head(One(e)) = e /\ Tail(One(e)) = <<>> /\ One(e) # <<>> /\ \A f : One(e) = One(f) => e = f
BY DEF One

(* event_await: the thread is still to visit its event. *)
LEMMA AwaitStep ==
    ASSUME Setting, IInv, NEW c \in Cpus, Await(c)
    PROVE  IInv'
<1>1. PICK t \in Threads : Thread(cpu, c) = t /\ t # None /\ state[t] = "running" /\ Pc(cpu, c) = "run"
  <2>1. Pc(cpu, c) = "run"
    BY Zenon DEF Await, Pc
  <2> QED
    BY <2>1, CpuHasThread, Zenon DEF Runner, Has, Dispatching
<1>2. PICK e \in Events : /\ cpu' = [cpu EXCEPT ![c].pc = "await", ![c].rest = One(e)]
                          /\ \A u \in Threads : e = TermEvent[u] => <<t, u>> \in joins
  <2>1. PICK w \in Waits : /\ cpu' = [cpu EXCEPT ![c].pc = "await", ![c].rest = w]
                           /\ \A i \in DOMAIN w, u \in Threads : w[i] = TermEvent[u] => <<t, u>> \in joins
    BY <1>1, Zenon DEF Await, Thread
  <2>2. PICK e \in Events : w = <<e>>
    BY Zenon DEF Setting
  <2>3. 1 \in DOMAIN w /\ w[1] = e
    BY <2>2
  <2> QED
    BY <2>1, <2>2, <2>3, Zenon DEF One
<1>3. Becomes(c, "await", t, One(e)) /\ SameCall(c) /\ One(e) # <<>>
  <2>1. One(e) \in Rests /\ One(e) # <<>> /\ cpu \in Tables /\ "await" \in Locations
    BY OneEvent, LocationsAre, Zenon DEF Rests, IInv, Types
  <2> QED
    BY <1>1, <1>2, <2>1, RestBecomes, Zenon
<1>4. /\ state' \in [Threads -> States] /\ state'[t] = "awaiting"
      /\ regsAway' \in [Threads -> BOOLEAN] /\ regsAway'[t] = TRUE
      /\ \A u \in Threads : u # t => state'[u] = state[u] /\ regsAway'[u] = regsAway[u]
  BY <1>1, Zenon DEF Await, IInv, Types, States, Thread
<1>5. UNCHANGED <<seq, active, deleted, waiters, refs, joins, queue>>
  BY Zenon DEF Await, eventVars, handleVars
<1>6. Quiet(c, t) /\ \A d \in Cpus : d # c => Thread(cpu, d) # t
  BY <1>1, Awake, Zenon DEF IInv, Apart
<1>7. OnlyThread(t)
  BY <1>1, <1>3, <1>4, <1>5, Zenon DEF OnlyThread, Arriving, Others, Becomes
<1>8. Types'
  BY <1>3, <1>4, <1>5, Zenon DEF Types, Others, IInv, Becomes
<1>9. Calls'
  BY <1>1, <1>3, Zenon DEF Calls, Dispatching, Holding, Others, SameCall, IInv, Becomes
<1>10. Runners'
  <2>1. Runner(cpu', state', regsAway', c)
    BY <1>1, <1>3, <1>4, Zenon DEF Runner, Has, Dispatching, Becomes
  <2> QED
    BY <1>6, <1>7, <2>1, RunnersKept, <1>3, Zenon DEF Becomes
<1>11. Apart'
  <2>1. t \notin queue
    BY <1>1, Zenon DEF Apart, IInv
  <2> QED
    BY <1>6, <1>7, <2>1, ApartKept, <1>3, <1>5, Zenon DEF Becomes
<1>12. WakersAlone'
  BY <1>6, <1>7, WakersKept, <1>3, Zenon DEF Waking, Becomes
<1>13. ListsCurrent' /\ ListsSingle' /\ ListsHeld' /\ TakenCurrent'
  BY <1>6, <1>7, ListsKept, <1>3, <1>5, Zenon DEF Taken, Becomes
<1>14. References'
  <2>1. \A u \in Threads : Alive(state', cpu', u) <=> Alive(state, cpu, u)
    BY <1>1, <1>3, <1>4, Zenon DEF Alive, Others, Becomes
  <2> QED
    BY <2>1, ReferencesKept, <1>3, <1>5, Zenon DEF Others, SameCall, IInv, Becomes
<1>15. Deletions'
  <2>1. \A u \in Threads : One(e) = One(TermEvent[u]) => <<t, u>> \in joins
    BY <1>2, OneEvent, Zenon
  <2> QED
    BY <2>1, <1>3, <1>5, Zenon DEF Deletions, Others, IInv, Becomes
<1>16. Found'
  <2>1. RunningFound'
    BY <1>1, <1>3, <1>4, Zenon DEF Others, IInv, Becomes, RunningFound, Found
  <2>2. QueuedFound'
    BY <1>1, <1>3, <1>4, <1>5, Zenon DEF Others, IInv, Becomes, QueuedFound, Found
  <2>3. WokenFound'
    BY <1>1, <1>3, <1>4, Zenon DEF Others, IInv, Becomes, WokenFound, Found, Waking
  <2>4. SleepersFound'
    BY <1>1, <1>3, <1>4, <1>5, <1>7, SleepersKept, Zenon DEF Becomes, Taken, Arriving
  <2> QED
    BY <2>1, <2>2, <2>3, <2>4, Zenon DEF Found
<1> QED
  BY <1>8, <1>9, <1>10, <1>11, <1>12, <1>13, <1>14, <1>15, <1>16, Zenon DEF IInv

-----------------------------------------------------------------------------
(* The lists of the events.                                                *)

\* A container of thread t has been added to the list of e, at place n.
Listed(e, t, n) ==
    /\ waiters' \in Lists
    /\ n \notin Places(waiters, e)
    /\ \A f \in Events : \A i : i \in Places(waiters', f) <=> i \in Places(waiters, f) \/ (f = e /\ i = n)
    /\ Sleeper(waiters', e, n) = t /\ Wait(waiters', e, n) = seq[t]
    /\ \A f \in Events : \A i \in Places(waiters, f) :
          Sleeper(waiters', f, i) = Sleeper(waiters, f, i) /\ Wait(waiters', f, i) = Wait(waiters, f, i)

LEMMA AppendLists ==
    ASSUME Types, NEW e \in Events, NEW t \in Threads,
           waiters' = [waiters EXCEPT ![e] = Append(waiters[e], [thread |-> t, seq |-> seq[t]])]
    PROVE  \E n \in Nat : Listed(e, t, n)
<1> DEFINE k == [thread |-> t, seq |-> seq[t]]
           q == Append(waiters[e], k)
           n == Len(waiters[e]) + 1
<1>1. k \in Container /\ k.thread = t /\ k.seq = seq[t]
  BY DEF Types, Container
<1> HIDE DEF k
<1>2. /\ q \in Seq(Container) /\ n \in Nat \ {0}
      /\ DOMAIN waiters[e] = 1 .. (n - 1) /\ DOMAIN q = 1 .. n
      /\ q[n] = k /\ \A i \in 1 .. (n - 1) : q[i] = waiters[e][i]
  BY <1>1 DEF Types, Lists
<1>3. waiters' \in Lists /\ waiters'[e] = q /\ \A f \in Events : f # e => waiters'[f] = waiters[f]
  BY <1>2, Zenon DEF Types, Lists, k
<1> HIDE DEF q, n
<1>4. n \notin DOMAIN waiters[e] /\ \A i : i \in DOMAIN q <=> i \in DOMAIN waiters[e] \/ i = n
  BY <1>2
<1>5. Listed(e, t, n)
  <2>1. /\ n \notin Places(waiters, e) /\ Sleeper(waiters', e, n) = t /\ Wait(waiters', e, n) = seq[t]
        /\ \A f \in Events : \A i : i \in Places(waiters', f) <=> i \in Places(waiters, f) \/ (f = e /\ i = n)
    BY <1>1, <1>2, <1>3, <1>4, Zenon DEF Places, Sleeper, Wait
  <2>2. ASSUME NEW f \in Events, NEW i \in Places(waiters, f)
        PROVE  Sleeper(waiters', f, i) = Sleeper(waiters, f, i) /\ Wait(waiters', f, i) = Wait(waiters, f, i)
    <3>1. waiters'[f][i] = waiters[f][i]
      BY <1>2, <1>3, Zenon DEF Places
    <3> QED
      BY <3>1, Zenon DEF Sleeper, Wait
  <2> QED
    BY <1>3, <2>1, <2>2, Zenon DEF Listed
<1> QED
  BY <1>2, <1>5

(* _await_event finds the event active, or deleted. *)
LEMMA AwaitFoundStep ==
    ASSUME Setting, IInv, NEW c \in Cpus, NEW e \in Events, NEW t \in Threads,
           UNCHANGED <<state, regsAway, seq, active, deleted, waiters, refs, joins, queue>>,
           Thread(cpu, c) = t, Rest(cpu, c) = One(e), Pc(cpu, c) = "await", SameCall(c),
           \/ Becomes(c, "await_active", t, <<>>)
           \/ deleted[e] /\ e \in Deletable /\ Becomes(c, "await", t, <<>>)
    PROVE  IInv'
<1>1. /\ Arriving(cpu, t) /\ t # None
      /\ state[t] = "awaiting" /\ regsAway[t]
      /\ \A d \in Cpus : d # c => Thread(cpu, d) # t
  BY OneEvent, Zenon DEF Arriving, IInv, Apart, Runners, Runner, Setting
<1>2. Quiet(c, t)
  BY <1>1, Zenon DEF Quiet, IInv, ListsCurrent, TakenCurrent, WakersAlone
<1>3. OnlyThread(t) /\ Others(c)
  BY Zenon DEF OnlyThread, Arriving, Others, Becomes
<1>4. Types'
  BY <1>3, Zenon DEF Types, Others, IInv
<1>5. Calls'
  BY Zenon DEF Calls, Dispatching, Holding, Others, SameCall, IInv, Becomes
<1>6. Runners'
  <2>1. Runner(cpu', state', regsAway', c)
    BY <1>1, Zenon DEF Runner, Has, Dispatching, Becomes
  <2> QED
    BY <1>3, <2>1, RunnersKept, <1>1, Zenon
<1>7. Apart'
  BY DEF Apart, Others, IInv, Becomes
<1>8. WakersAlone'
  BY <1>2, <1>3, WakersKept, Zenon DEF Waking, Becomes
<1>9. ListsCurrent' /\ ListsSingle' /\ ListsHeld' /\ TakenCurrent'
  BY <1>2, <1>3, ListsKept, Zenon DEF Taken, Becomes
<1>10. References'
  BY ReferencesKept, Zenon DEF Alive, Others, SameCall, IInv, Becomes
<1>11. Deletions'
  BY OneEvent, Zenon DEF Deletions, Others, IInv, Becomes
<1>12. Found'
  <2>1. RunningFound'
    BY Zenon DEF Others, IInv, Becomes, RunningFound, Found
  <2>2. QueuedFound'
    BY Zenon DEF Others, IInv, Becomes, QueuedFound, Found
  <2>3. WokenFound'
    BY Zenon DEF Others, IInv, Becomes, WokenFound, Found, Waking
  <2>4. SleepersFound'
    <3>1. CASE deleted[e] /\ e \in Deletable
      BY <3>1, Zenon DEF SleepersFound
    <3>2. CASE Becomes(c, "await_active", t, <<>>)
      <4>1. Arriving(cpu', t) /\ ~Taken(cpu, c)
        BY <3>2, Zenon DEF Becomes, Taken, Arriving
      <4> QED
        BY <1>3, <4>1, SleepersKept, Zenon
    <3> QED
      BY <3>1, <3>2, Zenon
  <2> QED
    BY <2>1, <2>2, <2>3, <2>4, Zenon DEF Found
<1> QED
  BY <1>4, <1>5, <1>6, <1>7, <1>8, <1>9, <1>10, <1>11, <1>12, Zenon DEF IInv

(* _await_event adds a container. *)
LEMMA AwaitListedStep ==
    ASSUME Setting, IInv, NEW c \in Cpus, NEW e \in Events, NEW t \in Threads, NEW n, Listed(e, t, n),
           UNCHANGED <<state, regsAway, seq, active, deleted, refs, joins, queue>>,
           Thread(cpu, c) = t, Rest(cpu, c) = One(e), Pc(cpu, c) = "await", SameCall(c),
           Becomes(c, "await", t, <<>>)
    PROVE  IInv'
<1>1. /\ Arriving(cpu, t) /\ t # None
      /\ state[t] = "awaiting" /\ regsAway[t]
      /\ \A d \in Cpus : d # c => Thread(cpu, d) # t
  BY OneEvent, Zenon DEF Arriving, IInv, Apart, Runners, Runner, Setting
<1>2. Quiet(c, t) /\ \A d \in Cpus : Taken(cpu, d) => To(cpu, d) # t
  BY <1>1, Zenon DEF Quiet, IInv, ListsCurrent, TakenCurrent, WakersAlone
<1>3. OnlyThread(t) /\ Others(c) /\ ~Arriving(cpu', t)
  BY <1>1, Zenon DEF OnlyThread, Arriving, Others, Becomes
<1>4. Types'
  BY <1>3, Zenon DEF Types, Others, Listed, IInv
<1>5. Calls'
  BY Zenon DEF Calls, Others, SameCall, IInv, Becomes
<1>6. Runners'
  <2>1. Runner(cpu', state', regsAway', c)
    BY <1>1, Zenon DEF Runner, Has, Dispatching, Becomes
  <2> QED
    BY <1>3, <2>1, RunnersKept, <1>1, Zenon
<1>7. Apart'
  BY DEF Apart, Others, IInv, Becomes
<1>8. WakersAlone'
  BY <1>2, <1>3, WakersKept, Zenon DEF Waking, Becomes
<1>9. ListsCurrent'
  <2>1. \A u \in Threads : ~Arriving(cpu, u) => ~Arriving(cpu', u)
    BY <1>3, Zenon DEF OnlyThread
  <2>2. ASSUME NEW f \in Events, NEW i \in Places(waiters', f)
        PROVE  /\ Sleeper(waiters', f, i) \in Threads
               /\ state'[Sleeper(waiters', f, i)] = "awaiting"
               /\ Wait(waiters', f, i) = seq'[Sleeper(waiters', f, i)]
               /\ ~Arriving(cpu', Sleeper(waiters', f, i))
    <3>1. CASE f = e /\ i = n
      BY <1>1, <1>3, <3>1, Zenon DEF Listed
    <3>2. CASE i \in Places(waiters, f)
      BY <2>1, <3>2, Zenon DEF Listed, ListsCurrent, IInv
    <3> QED
      BY <3>1, <3>2, Zenon DEF Listed
  <2> QED
    BY <2>2, Zenon DEF ListsCurrent
<1>10. \A d \in Cpus : (Taken(cpu', d) <=> Taken(cpu, d)) /\ To(cpu', d) = To(cpu, d) /\ Stamp(cpu', d) = Stamp(cpu, d)
  BY Zenon DEF Taken, Others, SameCall, Becomes
<1>11. ListsSingle'
  <2>1. ASSUME NEW f \in Events, NEW i \in Places(waiters', f), NEW g \in Events, NEW j \in Places(waiters', g),
               Sleeper(waiters', g, j) = Sleeper(waiters', f, i)
        PROVE  f = g /\ i = j
    <3>1. CASE i \in Places(waiters, f) /\ j \in Places(waiters, g)
      <4>1. Sleeper(waiters, g, j) = Sleeper(waiters, f, i)
        BY <2>1, <3>1, Zenon DEF Listed
      <4> QED
        BY <3>1, <4>1, Zenon DEF ListsSingle, IInv
    <3>2. ASSUME NEW h \in Events, NEW k \in Places(waiters, h) PROVE Sleeper(waiters', h, k) # t
      BY <1>2, Zenon DEF Listed, Quiet
    <3>3. Sleeper(waiters', e, n) = t
      BY Zenon DEF Listed
    <3>4. /\ i \in Places(waiters, f) \/ (f = e /\ i = n)
          /\ j \in Places(waiters, g) \/ (g = e /\ j = n)
      BY <2>1, Zenon DEF Listed
    <3> QED
      BY <2>1, <3>1, <3>2, <3>3, <3>4
  <2>2. ASSUME NEW f \in Events, NEW i \in Places(waiters', f), NEW d \in Cpus, Taken(cpu', d)
        PROVE  To(cpu', d) # Sleeper(waiters', f, i)
    <3>1. CASE f = e /\ i = n
      BY <1>2, <1>10, <2>2, <3>1, Zenon DEF Listed
    <3>2. CASE i \in Places(waiters, f)
      <4>1. Taken(cpu, d) /\ To(cpu', d) = To(cpu, d) /\ Sleeper(waiters', f, i) = Sleeper(waiters, f, i)
        BY <1>10, <2>2, <3>2, Zenon DEF Listed
      <4> QED
        BY <3>2, <4>1, Zenon DEF ListsSingle, IInv
    <3> QED
      BY <3>1, <3>2, Zenon DEF Listed
  <2> QED
    BY <2>1, <2>2, Zenon DEF ListsSingle
<1>12. ListsHeld'
  <2>1. \A u \in Threads : TermEvent[u] \in Events /\ (e = TermEvent[u] => <<t, u>> \in joins)
    BY Zenon DEF Deletions, Setting, IInv
  <2> QED
    BY <2>1, Zenon DEF Listed, ListsHeld, IInv
<1>13. TakenCurrent'
  BY <1>3, <1>10, HeldIsThread, Zenon DEF TakenCurrent, OnlyThread, IInv
<1>14. References'
  BY ReferencesKept, Zenon DEF Alive, Others, SameCall, IInv, Becomes
<1>15. Deletions'
  BY OneEvent, Zenon DEF Deletions, Others, IInv, Becomes
<1>16. Found'
  <2>1. \A u \in Threads : Contained(waiters, cpu, seq, u) \/ u = t => Contained(waiters', cpu', seq', u)
    BY <1>10 DEF Contained, Listed
  <2>11. RunningFound'
    BY <1>3, <1>1, Zenon DEF Others, IInv, RunningFound, Found
  <2>12. QueuedFound'
    BY <1>3, Zenon DEF Others, IInv, QueuedFound, Found
  <2>13. WokenFound'
    BY <1>3, Zenon DEF Others, IInv, WokenFound, Found, Waking
  <2>14. SleepersFound'
    BY <1>3, <2>1, Zenon DEF OnlyThread, IInv, SleepersFound, Found
  <2> QED
    BY <2>11, <2>12, <2>13, <2>14, Zenon DEF Found
<1> QED
  BY <1>4, <1>5, <1>6, <1>7, <1>8, <1>9, <1>11, <1>12, <1>13, <1>14, <1>15, <1>16, Zenon DEF IInv

=============================================================================
