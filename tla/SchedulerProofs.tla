-------------------------- MODULE SchedulerProofs ---------------------------
(***************************************************************************)
(* Proofs about Scheduler, for any number of threads, CPUs and events: a   *)
(* thread is in one place and is never lost, the unlocked test of          *)
(* event_dispatch stays valid and no thread is destroyed before it ended.  *)
(* See SchedulerInvariant for the invariant and the setting.               *)
(***************************************************************************)
EXTENDS SchedulerInvariant

-----------------------------------------------------------------------------
(* References.                                                             *)

\* What the steps need of cardinalities (CountingHolds, below).
Counting ==
    /\ IsFiniteSet({}) /\ Cardinality({}) = 0
    /\ \A S : IsFiniteSet(S) => Cardinality(S) \in Nat /\ (Cardinality(S) = 0 <=> S = {})
    /\ \A S, T : IsFiniteSet(S) /\ T \subseteq S => IsFiniteSet(T)
    /\ \A S, x : IsFiniteSet(S) /\ x \notin S => Cardinality(S \cup {x}) = Cardinality(S) + 1
    /\ \A S, x : IsFiniteSet(S) /\ x \in S =>
                  IsFiniteSet(S \ {x}) /\ Cardinality(S \ {x}) = Cardinality(S) - 1

(* The holders of a thread are finitely many. *)
LEMMA HoldersFinite ==
    ASSUME Setting, Counting, NEW k, NEW j \in SUBSET Joins, NEW t
    PROVE  /\ IsFiniteSet(Dispatchers(k, t)) /\ Cardinality(Dispatchers(k, t)) \in Nat
           /\ IsFiniteSet(Joiners(j, t)) /\ Cardinality(Joiners(j, t)) \in Nat
<1>1. Dispatchers(k, t) \subseteq Cpus /\ Joiners(j, t) \subseteq Joins
  BY DEF Dispatchers, Joiners
<1> QED
  BY <1>1 DEF Setting, Counting

(* Each holder of a thread counts: itself, a dispatcher and another thread. *)
LEMMA Held ==
    ASSUME Setting, Counting, IInv, NEW t \in Threads
    PROVE  /\ refs[t] \in Nat
           /\ Alive(state, cpu, t) => refs[t] >= 1
           /\ \A c \in Cpus : To(cpu, c) = t => refs[t] >= 1 /\ (Alive(state, cpu, t) => refs[t] >= 2)
           /\ \A w : <<w, t>> \in joins =>
                 /\ refs[t] >= 1
                 /\ Alive(state, cpu, t) => refs[t] >= 2
                 /\ \A c \in Cpus : To(cpu, c) = t => refs[t] >= 2
                 /\ \A v : <<v, t>> \in joins /\ v # w => refs[t] >= 2
<1> DEFINE D == Dispatchers(cpu, t)
           J == Joiners(joins, t)
<1>1. IsFiniteSet(D) /\ Cardinality(D) \in Nat /\ IsFiniteSet(J) /\ Cardinality(J) \in Nat
  BY HoldersFinite, Zenon DEF IInv, Types
<1>2. refs[t] = Cardinality(D) + Cardinality(J) + (IF Alive(state, cpu, t) THEN 1 ELSE 0)
  BY DEF IInv, References
<1>3. /\ \A c \in Cpus : To(cpu, c) = t => c \in D
      /\ \A w : <<w, t>> \in joins => <<w, t>> \in J
  BY DEF Dispatchers, Joiners
<1> HIDE DEF D, J
<1>4. (D # {} => Cardinality(D) >= 1) /\ (J # {} => Cardinality(J) >= 1)
  BY <1>1 DEF Counting
<1>5. ASSUME NEW x \in J, NEW y \in J, x # y PROVE Cardinality(J) >= 2
  <2>1. IsFiniteSet(J \ {x}) /\ Cardinality(J \ {x}) = Cardinality(J) - 1 /\ J \ {x} # {}
    BY <1>1, <1>5 DEF Counting
  <2>2. Cardinality(J \ {x}) # 0
    BY <2>1, Zenon DEF Counting
  <2> QED
    BY <1>1, <1>4, <2>1, <2>2
<1>6. \A w, v : <<w, t>> \in joins /\ <<v, t>> \in joins /\ v # w => Cardinality(J) >= 2
  BY <1>3, <1>5
<1> QED
  BY <1>1, <1>2, <1>3, <1>4, <1>6

(* _await_event *)
LEMMA AwaitEventStep ==
    ASSUME Setting, Counting, IInv, NEW c \in Cpus, AwaitEvent(c)
    PROVE  IInv'
<1> DEFINE t == Thread(cpu, c)
<1>1. Pc(cpu, c) = "await" /\ Rest(cpu, c) # <<>> /\ Rest(cpu, c) \in Rests /\ cpu \in Tables /\ Types
  BY FieldsOfTable, Zenon DEF AwaitEvent, IInv, Types, Fields, Pc, Rest
<1>2. PICK e \in Events : Rest(cpu, c) = One(e)
  BY <1>1 DEF Rests
<1>3. t \in Threads
  BY <1>1, CpuHasThread DEF Dispatching
<1>4. Head(cpu[c].rest) = e /\ Tail(cpu[c].rest) = <<>>
  BY <1>2, OneEvent DEF Rest
<1>5. <<>> \in Rests /\ "await" \in Locations /\ "await_active" \in Locations
  BY LocationsAre DEF Rests
<1>6. UNCHANGED <<state, regsAway, seq, active, deleted, refs, joins, queue>>
  BY Zenon DEF AwaitEvent, threadVars, handleVars
<1>7. IF active[e] /\ ~deleted[e]
      THEN cpu' = [cpu EXCEPT ![c].pc = "await_active", ![c].rest = <<>>]
      ELSE cpu' = [cpu EXCEPT ![c].rest = <<>>]
  BY <1>4, Zenon DEF AwaitEvent
<1>8. /\ SameCall(c)
      /\ IF active[e] /\ ~deleted[e] THEN Becomes(c, "await_active", t, <<>>) ELSE Becomes(c, "await", t, <<>>)
  BY <1>1, <1>5, <1>7, RestBecomes, Zenon
<1>9. CASE active[e] \/ deleted[e]
  <2>1. UNCHANGED waiters
    BY <1>4, <1>9, Zenon DEF AwaitEvent
  <2>2. deleted[e] => e \in Deletable
    <3>1. ASSUME NEW u \in Threads, e = TermEvent[u] PROVE refs[u] # 0
      <4>1. <<t, u>> \in joins
        BY <1>1, <1>2, <3>1, Zenon DEF IInv, Deletions
      <4>2. refs[u] \in Nat /\ refs[u] >= 1
        BY <4>1, Held, Zenon
      <4> QED
        BY <4>2
    <3> QED
      BY <3>1 DEF IInv, Deletions
  <2> QED
    BY <1>1, <1>2, <1>3, <1>6, <1>8, <1>9, <2>1, <2>2, AwaitFoundStep, Zenon
<1>10. CASE ~(active[e] \/ deleted[e])
  <2>1. waiters' = [waiters EXCEPT ![e] = Append(waiters[e], [thread |-> t, seq |-> seq[t]])]
    BY <1>4, <1>10, Zenon DEF AwaitEvent, Thread
  <2>2. PICK n \in Nat : Listed(e, t, n)
    BY <1>1, <1>3, <2>1, AppendLists, Zenon
  <2> QED
    BY <1>1, <1>2, <1>3, <1>6, <1>8, <1>10, <2>2, AwaitListedStep, Zenon
<1> QED
  BY <1>9, <1>10, Zenon

(* A dispatcher takes the handle of a thread, or gives it back. *)
LEMMA DispatcherCounts ==
    ASSUME Setting, Counting, IInv, NEW c \in Cpus, NEW t \in Threads, Others(c), UNCHANGED joins,
           \A u \in Threads : u # t => refs'[u] = refs[u],
           \A u \in Threads : Alive(state', cpu', u) <=> Alive(state, cpu, u),
           \/ To(cpu, c) = None /\ To(cpu', c) = t /\ refs'[t] = refs[t] + 1
           \/ To(cpu, c) = t /\ To(cpu', c) = None /\ refs'[t] = refs[t] - 1
    PROVE  References'
<1> DEFINE D == Dispatchers(cpu, t)
           J == Joiners(joins, t)
<1>1. \A u \in Threads : u # t => Dispatchers(cpu', u) = Dispatchers(cpu, u)
  BY DEF Dispatchers, Others, Setting
<1>2. IsFiniteSet(D) /\ Cardinality(D) \in Nat /\ Cardinality(J) \in Nat
  BY HoldersFinite, Zenon DEF IInv, Types
<1>3. refs[t] = Cardinality(D) + Cardinality(J) + (IF Alive(state, cpu, t) THEN 1 ELSE 0)
  BY DEF IInv, References
<1>4. refs'[t] = Cardinality(Dispatchers(cpu', t)) + Cardinality(J) + (IF Alive(state, cpu, t) THEN 1 ELSE 0)
  <2>1. CASE To(cpu, c) = None /\ To(cpu', c) = t /\ refs'[t] = refs[t] + 1
    <3>1. Dispatchers(cpu', t) = D \cup {c} /\ c \notin D
      BY <2>1, Zenon DEF Dispatchers, Others, Setting
    <3>2. Cardinality(Dispatchers(cpu', t)) = Cardinality(D) + 1
      <4> HIDE DEF D
      <4> QED
        BY <1>2, <3>1, Zenon DEF Counting
    <3> HIDE DEF D, J
    <3> QED
      BY <1>2, <1>3, <2>1, <3>2
  <2>2. CASE To(cpu, c) = t /\ To(cpu', c) = None /\ refs'[t] = refs[t] - 1
    <3>1. Dispatchers(cpu', t) = D \ {c} /\ c \in D
      BY <2>2, Zenon DEF Dispatchers, Others, Setting
    <3>2. Cardinality(Dispatchers(cpu', t)) = Cardinality(D) - 1
      <4> HIDE DEF D
      <4> QED
        BY <1>2, <3>1, Zenon DEF Counting
    <3> HIDE DEF D, J
    <3> QED
      BY <1>2, <1>3, <2>2, <3>2
  <2> QED
    BY <2>1, <2>2, Zenon
<1> QED
  BY <1>1, <1>4, Zenon DEF IInv, References

LEMMA TargetBecomes ==
    ASSUME cpu \in Tables, NEW c \in Cpus, NEW l \in Locations, NEW t \in Threads \cup {None}, NEW n \in Nat,
           cpu' = [cpu EXCEPT ![c].pc = l, ![c].call.target = t, ![c].call.seq = n]
    PROVE  /\ Becomes(c, l, Thread(cpu, c), Rest(cpu, c))
           /\ To(cpu', c) = t /\ Stamp(cpu', c) = n
           /\ On(cpu', c) = On(cpu, c) /\ Ret(cpu', c) = Ret(cpu, c)
<1> DEFINE k == [cpu[c].call EXCEPT !.target = t, !.seq = n]
<1>1. cpu[c] \in CpuType /\ cpu[c].call \in CallType
  BY DEF Tables, CpuType
<1>2. /\ k \in CallType /\ k.target = t /\ k.seq = n
      /\ k.event = cpu[c].call.event /\ k.ret = cpu[c].call.ret
  BY <1>1, Zenon DEF CallType
<1> DEFINE r == [cpu[c] EXCEPT !.pc = l, !.call = k]
<1>3. r \in CpuType /\ r.pc = l /\ r.thread = cpu[c].thread /\ r.rest = cpu[c].rest /\ r.call = k
  <2> HIDE DEF k
  <2> QED
    BY <1>1, <1>2, Zenon DEF CpuType
<1>4. cpu' = [cpu EXCEPT ![c] = r]
  BY Zenon
<1> HIDE DEF r, k
<1>5. Others(c) /\ cpu'[c] = r
  BY <1>3, <1>4, Updated, Zenon
<1> QED
  BY <1>2, <1>3, <1>5, Zenon DEF Becomes, Pc, Thread, Rest, To, Stamp, On, Ret

\* The head of the list of e, a container of t, is gone.
Shifted(e, t) ==
    /\ waiters' \in Lists
    /\ 1 \in Places(waiters, e) /\ Sleeper(waiters, e, 1) = t /\ Wait(waiters, e, 1) = seq[t]
    /\ \A i : i \in Places(waiters', e) <=> i \in Nat /\ i # 0 /\ i + 1 \in Places(waiters, e)
    /\ \A i \in Places(waiters', e) : /\ Sleeper(waiters', e, i) = Sleeper(waiters, e, i + 1)
                                      /\ Wait(waiters', e, i) = Wait(waiters, e, i + 1)
    /\ \A i \in Places(waiters, e) : i \in Nat /\ i # 0
    /\ \A f \in Events : f # e =>
          /\ \A i : i \in Places(waiters', f) <=> i \in Places(waiters, f)
          /\ \A i \in Places(waiters, f) : /\ Sleeper(waiters', f, i) = Sleeper(waiters, f, i)
                                           /\ Wait(waiters', f, i) = Wait(waiters, f, i)

LEMMA TailLists ==
    ASSUME IInv, NEW e \in Events, waiters[e] # <<>>, waiters' = [waiters EXCEPT ![e] = Tail(waiters[e])]
    PROVE  /\ Shifted(e, Sleeper(waiters, e, 1)) /\ Head(waiters[e]) = waiters[e][1]
<1> DEFINE q == waiters[e]
<1>1. q \in Seq(Container) /\ q # <<>>
  BY DEF IInv, Types, Lists
<1> HIDE DEF q
<1>2. Len(q) \in Nat /\ Len(q) # 0 /\ DOMAIN q = 1 .. Len(q) /\ Head(q) = q[1]
  BY <1>1
<1>3. Tail(q) \in Seq(Container) /\ Len(Tail(q)) = Len(q) - 1
  BY <1>1
<1>4. DOMAIN Tail(q) = 1 .. (Len(q) - 1) /\ \A i \in 1 .. (Len(q) - 1) : Tail(q)[i] = q[i + 1]
  OBVIOUS
<1>5. waiters' \in Lists /\ waiters'[e] = Tail(q) /\ \A f \in Events : f # e => waiters'[f] = waiters[f]
  BY <1>3, Zenon DEF IInv, Types, Lists, q
<1>6. /\ 1 \in Places(waiters, e)
      /\ \A i : i \in Places(waiters', e) <=> i \in Nat /\ i # 0 /\ i + 1 \in Places(waiters, e)
      /\ \A i \in Places(waiters, e) : i \in Nat /\ i # 0
  <2>1. Places(waiters, e) = 1 .. Len(q) /\ Places(waiters', e) = 1 .. (Len(q) - 1)
    BY <1>2, <1>4, <1>5, Zenon DEF Places, q
  <2> QED
    BY <1>2, <2>1
<1>7. \A i \in Places(waiters', e) : /\ Sleeper(waiters', e, i) = Sleeper(waiters, e, i + 1)
                                     /\ Wait(waiters', e, i) = Wait(waiters, e, i + 1)
  <2>1. \A i \in Places(waiters', e) : waiters'[e][i] = waiters[e][i + 1]
    BY <1>4, <1>5, Zenon DEF Places, q
  <2> QED
    BY <2>1, Zenon DEF Sleeper, Wait
<1>8. \A f \in Events : f # e =>
          /\ \A i : i \in Places(waiters', f) <=> i \in Places(waiters, f)
          /\ \A i \in Places(waiters, f) : /\ Sleeper(waiters', f, i) = Sleeper(waiters, f, i)
                                           /\ Wait(waiters', f, i) = Wait(waiters, f, i)
  BY <1>5, Zenon DEF Places, Sleeper, Wait
<1>9. Wait(waiters, e, 1) = seq[Sleeper(waiters, e, 1)]
  BY <1>6, Zenon DEF IInv, ListsCurrent
<1> QED
  BY <1>2, <1>5, <1>6, <1>7, <1>8, <1>9, Zenon DEF Shifted, q

(* What event_dispatch finds at the head of the list: a thread that sleeps. *)
LEMMA Popped ==
    ASSUME Setting, Counting, IInv, NEW c \in Cpus, Pop(c)
    PROVE  \E e \in Events, t \in Threads :
              /\ Pc(cpu, c) = "pop" /\ On(cpu, c) = e /\ To(cpu, c) = None /\ Shifted(e, t)
              /\ state[t] = "awaiting" /\ ~Arriving(cpu, t) /\ refs[t] >= 1
              /\ refs' = [refs EXCEPT ![t] = @ + 1]
              /\ cpu' = [cpu EXCEPT ![c].pc = "check", ![c].call.target = t, ![c].call.seq = seq[t]]
<1> DEFINE e == On(cpu, c)
           t == Sleeper(waiters, e, 1)
<1>1. Pc(cpu, c) = "pop" /\ e \in Events /\ To(cpu, c) = None
  <2>1. Pc(cpu, c) = "pop"
    BY Zenon DEF Pop, Pc
  <2> QED
    BY <2>1 DEF IInv, Calls, Holding, Dispatching
<1>2. waiters[e] # <<>> /\ waiters' = [waiters EXCEPT ![e] = Tail(waiters[e])]
  BY Zenon DEF Pop, Event, On
<1>3. Shifted(e, t) /\ Head(waiters[e]) = waiters[e][1]
  BY <1>1, <1>2, TailLists, Zenon
<1>4. t \in Threads /\ state[t] = "awaiting" /\ ~Arriving(cpu, t) /\ Wait(waiters, e, 1) = seq[t]
  BY <1>1, <1>3, Zenon DEF Shifted, IInv, ListsCurrent
<1>5. refs[t] \in Nat /\ refs[t] >= 1
  BY <1>4, Held, Zenon DEF Alive
<1>6. refs[t] # 0
  BY <1>5
<1>7. waiters[Event(c)] = waiters[e] /\ Head(waiters[e]).thread = t /\ Head(waiters[e]).seq = seq[t]
  BY <1>3, <1>4, Zenon DEF Sleeper, Wait, Event, On
<1>8. /\ refs' = [refs EXCEPT ![t] = @ + 1]
      /\ cpu' = [cpu EXCEPT ![c].pc = "check", ![c].call.target = t, ![c].call.seq = seq[t]]
  BY <1>6, <1>7, Zenon DEF Pop
<1> HIDE DEF e, t
<1> QED
  BY <1>1, <1>3, <1>4, <1>5, <1>8, Zenon DEF e

\* The i-th container of f's list is the one that was the j-th.
Was(e, f, i, j) ==
    /\ j \in Places(waiters, f)
    /\ Sleeper(waiters', f, i) = Sleeper(waiters, f, j) /\ Wait(waiters', f, i) = Wait(waiters, f, j)
    /\ IF f = e THEN i \in Nat /\ i # 0 /\ j = i + 1 ELSE j = i

LEMMA ShiftedPlaces ==
    ASSUME NEW e \in Events, NEW t, Shifted(e, t)
    PROVE  \A f \in Events : \A i \in Places(waiters', f) : \E j \in Places(waiters, f) : Was(e, f, i, j)
<1>1. ASSUME NEW i \in Places(waiters', e) PROVE i + 1 \in Places(waiters, e) /\ Was(e, e, i, i + 1)
  BY <1>1, Zenon DEF Was, Shifted
<1>2. ASSUME NEW f \in Events, f # e, NEW i \in Places(waiters', f) PROVE i \in Places(waiters, f) /\ Was(e, f, i, i)
  BY <1>2, Zenon DEF Was, Shifted
<1> QED
  BY <1>1, <1>2, Zenon

(* No container but the head's is lost, and none appears. *)
LEMMA ShiftedLists ==
    ASSUME Setting, ListsCurrent, ListsSingle, ListsHeld, NEW c \in Cpus, NEW e \in Events, NEW t, Shifted(e, t),
           UNCHANGED <<state, seq, joins>>, \A u : Arriving(cpu', u) <=> Arriving(cpu, u),
           To(cpu', c) = t, \A d \in Cpus : d # c /\ Taken(cpu', d) => Taken(cpu, d) /\ To(cpu', d) = To(cpu, d)
    PROVE  ListsCurrent' /\ ListsSingle' /\ ListsHeld'
<1>1. \A f \in Events : \A i \in Places(waiters', f) : \E j \in Places(waiters, f) : Was(e, f, i, j)
  BY ShiftedPlaces
<1>2. 1 \in Places(waiters, e) /\ Sleeper(waiters, e, 1) = t
  BY DEF Shifted
<1>3. ListsCurrent'
  BY <1>1 DEF ListsCurrent, Was
<1>4. ASSUME NEW f \in Events, NEW i \in Places(waiters', f),
             NEW g \in Events, NEW j \in Places(waiters', g),
             Sleeper(waiters', g, j) = Sleeper(waiters', f, i)
      PROVE  f = g /\ i = j
  <2>1. PICK k \in Places(waiters, f) : Was(e, f, i, k)
    BY <1>1
  <2>2. PICK l \in Places(waiters, g) : Was(e, g, j, l)
    BY <1>1
  <2>3. f = g /\ k = l
    <3>1. Sleeper(waiters, g, l) = Sleeper(waiters, f, k)
      BY <1>4, <2>1, <2>2, Zenon DEF Was
    <3> QED
      BY <3>1, Zenon DEF ListsSingle
  <2> QED
    BY <2>1, <2>2, <2>3 DEF Was
<1>5. ASSUME NEW f \in Events, NEW i \in Places(waiters', f), NEW d \in Cpus, Taken(cpu', d)
      PROVE  To(cpu', d) # Sleeper(waiters', f, i)
  <2>1. PICK k \in Places(waiters, f) : Was(e, f, i, k)
    BY <1>1
  <2>2. Sleeper(waiters', f, i) # t
    BY <1>2, <2>1 DEF Was, ListsSingle
  <2>3. CASE d = c
    BY <2>2, <2>3, Zenon
  <2>4. CASE d # c
    BY <1>5, <2>1, <2>4, Zenon DEF Was, ListsSingle
  <2> QED
    BY <2>3, <2>4, Zenon
<1>6. ListsSingle'
  BY <1>4, <1>5, Zenon DEF ListsSingle
<1>7. ListsHeld'
  <2>1. \A u \in Threads : TermEvent[u] \in Events
    BY DEF Setting
  <2> QED
    BY <1>1, <2>1, Zenon DEF ListsHeld, Was
<1> QED
  BY <1>3, <1>6, <1>7, Zenon

LEMMA ShiftedContained ==
    ASSUME NEW e \in Events, NEW t, Shifted(e, t), UNCHANGED seq, NEW c \in Cpus,
           Taken(cpu', c), To(cpu', c) = t, Stamp(cpu', c) = seq[t],
           \A d \in Cpus : Taken(cpu, d) => Taken(cpu', d) /\ To(cpu', d) = To(cpu, d) /\ Stamp(cpu', d) = Stamp(cpu, d)
    PROVE  \A u : Contained(waiters, cpu, seq, u) => Contained(waiters', cpu', seq', u)
<1>1. Contained(waiters', cpu', seq', t)
  BY DEF Contained
<1>2. ASSUME NEW u, u # t, NEW f \in Events, NEW i \in Places(waiters, f),
             Sleeper(waiters, f, i) = u, Wait(waiters, f, i) = seq[u]
      PROVE  Contained(waiters', cpu', seq', u)
  <2>1. CASE f # e
    BY <1>2, <2>1 DEF Contained, Shifted
  <2>2. CASE f = e
    <3>1. i \in Nat /\ i # 0 /\ i # 1
      BY <1>2, <2>2, Zenon DEF Shifted
    <3>2. i - 1 \in Nat /\ i - 1 # 0 /\ (i - 1) + 1 = i
      BY <3>1
    <3>3. /\ i - 1 \in Places(waiters', e)
          /\ Sleeper(waiters', e, i - 1) = u /\ Wait(waiters', e, i - 1) = seq[u]
      BY <1>2, <2>2 DEF Shifted
    <3> QED
      BY <3>3 DEF Contained
  <2> QED
    BY <2>1, <2>2, Zenon
<1>3. ASSUME NEW u, NEW d \in Cpus, Taken(cpu, d), To(cpu, d) = u, Stamp(cpu, d) = seq[u]
      PROVE  Contained(waiters', cpu', seq', u)
  BY <1>3 DEF Contained
<1> QED
  BY <1>2, Zenon DEF Contained

(* event_dispatch takes the head of the list. *)
LEMMA PopStep ==
    ASSUME Setting, Counting, IInv, NEW c \in Cpus, Pop(c)
    PROVE  IInv'
<1>1. PICK e \in Events, t \in Threads :
              /\ Pc(cpu, c) = "pop" /\ On(cpu, c) = e /\ To(cpu, c) = None /\ Shifted(e, t)
              /\ state[t] = "awaiting" /\ ~Arriving(cpu, t) /\ refs[t] >= 1
              /\ refs' = [refs EXCEPT ![t] = @ + 1]
              /\ cpu' = [cpu EXCEPT ![c].pc = "check", ![c].call.target = t, ![c].call.seq = seq[t]]
  BY Popped, Zenon
<1>2. /\ Becomes(c, "check", Thread(cpu, c), Rest(cpu, c))
      /\ To(cpu', c) = t /\ Stamp(cpu', c) = seq[t] /\ On(cpu', c) = e /\ Ret(cpu', c) = Ret(cpu, c)
  <2>1. seq[t] \in Nat /\ cpu \in Tables
    BY Zenon DEF IInv, Types
  <2>2. "check" \in Locations /\ t \in Threads \cup {None}
    BY LocationsAre, Zenon DEF Dispatching
  <2>3. /\ Becomes(c, "check", Thread(cpu, c), Rest(cpu, c))
        /\ To(cpu', c) = t /\ Stamp(cpu', c) = seq[t] /\ On(cpu', c) = On(cpu, c) /\ Ret(cpu', c) = Ret(cpu, c)
    BY <1>1, <2>1, <2>2, TargetBecomes, Zenon
  <2> QED
    BY <1>1, <2>3, Zenon
<1>3. UNCHANGED <<state, regsAway, seq, active, deleted, joins, queue>>
  BY Zenon DEF Pop, threadVars
<1>4. refs' \in [Threads -> Int] /\ refs'[t] = refs[t] + 1 /\ \A u \in Threads : u # t => refs'[u] = refs[u]
  BY <1>1 DEF IInv, Types
<1>5. /\ Pc(cpu, c) = "pop" /\ On(cpu, c) = e /\ To(cpu, c) = None
      /\ t # None /\ state[t] = "awaiting" /\ ~Arriving(cpu, t) /\ Shifted(e, t)
  BY <1>1, Zenon DEF Setting
<1>6. /\ \A d \in Cpus : Taken(cpu, d) => To(cpu, d) # t
      /\ \A f \in Events : \A i \in Places(waiters, f) : Sleeper(waiters, f, i) = t => f = e /\ i = 1
  BY <1>5 DEF Shifted, IInv, ListsSingle
<1>8. Types'
  BY <1>4, <1>2, <1>3, <1>5, Zenon DEF Types, Others, Shifted, IInv, Becomes
<1>9. Calls'
  BY <1>2, <1>5, Zenon DEF Calls, Dispatching, Holding, Others, IInv, Becomes
<1>10. OnlyThread(None) /\ Others(c) /\ \A u : Arriving(cpu', u) <=> Arriving(cpu, u)
  BY <1>2, <1>3, <1>5, Zenon DEF OnlyThread, Arriving, Others, Becomes
<1>11. Runners' /\ Apart' /\ WakersAlone'
  <2>1. Runners'
    <3>1. Runner(cpu, state, regsAway, c)
      BY Zenon DEF IInv, Runners
    <3>2. Runner(cpu', state', regsAway', c)
      BY <1>2, <1>3, <1>5, <3>1, Zenon DEF Becomes, Runner, Has, Dispatching
    <3> QED
      BY <1>2, <1>3, <3>2, RunnersSame, Zenon DEF Becomes
  <2>2. Apart'
    BY <1>2, <1>3, <1>5 DEF Others, IInv, Becomes, Apart
  <2>3. WakersAlone'
    BY <1>2, <1>3, Zenon DEF Others, IInv, Becomes, WakersAlone, Waking
  <2> QED
    BY <2>1, <2>2, <2>3, Zenon
<1>13. \A d \in Cpus : d # c => /\ Taken(cpu', d) <=> Taken(cpu, d)
                                /\ To(cpu', d) = To(cpu, d) /\ Stamp(cpu', d) = Stamp(cpu, d)
  BY <1>2, Zenon DEF Taken, Others, Becomes
<1>14. ListsCurrent' /\ ListsSingle' /\ ListsHeld'
  BY <1>10, <1>13, ShiftedLists, <1>2, <1>3, <1>5, Zenon DEF IInv
<1>16. TakenCurrent'
  BY <1>6, <1>10, <1>13, <1>2, <1>3, <1>5, Zenon DEF TakenCurrent, IInv
<1>17. References'
  BY <1>4, DispatcherCounts, <1>2, <1>3, <1>5, Zenon DEF Alive, Others, Becomes
<1>18. Deletions'
  <2>1. \A u \in Threads : refs[u] = 0 => refs'[u] = 0
    BY <1>1
  <2> QED
    BY <2>1, <1>2, <1>3, Zenon DEF Deletions, Others, IInv, Becomes
<1>19. Found'
  <2>1. ~Taken(cpu, c) /\ Taken(cpu', c)
    BY <1>2, <1>5, Zenon DEF Taken, Becomes
  <2>3. \A u : Contained(waiters, cpu, seq, u) => Contained(waiters', cpu', seq', u)
    BY <1>13, <2>1, ShiftedContained, <1>2, <1>3, <1>5, Zenon
  <2>2. \A d \in Cpus : (Waking(cpu', d) <=> Waking(cpu, d)) /\ (Waking(cpu, d) => To(cpu', d) = To(cpu, d))
    BY <1>2, <1>5, Zenon DEF Waking, Others, Becomes
  <2>11. RunningFound'
    BY <1>2, <1>3, Zenon DEF Others, IInv, Becomes, RunningFound, Found
  <2>12. QueuedFound'
    BY <1>10, <1>3, <1>5, Zenon DEF Others, IInv, QueuedFound, Found
  <2>13. WokenFound'
    BY <2>2, <1>3, Zenon DEF IInv, WokenFound, Found
  <2>14. SleepersFound'
    BY <1>10, <2>3, <1>3, Zenon DEF IInv, SleepersFound, Found
  <2> QED
    BY <2>11, <2>12, <2>13, <2>14, Zenon DEF Found
<1> QED
  BY <1>8, <1>9, <1>11, <1>14, <1>16, <1>17, <1>18, <1>19, Zenon DEF IInv

-----------------------------------------------------------------------------
(* A release by a holder that does not sleep: one reference less, no       *)
(* container is dropped, and only the termination event may go.            *)
Released(t) ==
    /\ refs' \in [Threads -> Int] /\ refs'[t] = refs[t] - 1
    /\ \A u \in Threads : u # t => refs'[u] = refs[u]
    /\ waiters' = waiters /\ deleted' \in [Events -> BOOLEAN]
    /\ \A e \in Events : deleted[e] => deleted'[e]
    /\ \A e \in Events : deleted'[e] => deleted[e] \/ (e = TermEvent[t] /\ refs'[t] = 0)

LEMMA ReleaseStep ==
    ASSUME Setting, IInv, NEW t \in Threads, Release(t),
           \A w \in Threads : <<w, t>> \in joins /\ state[w] = "awaiting" => refs[t] >= 2
    PROVE  Released(t)
<1> DEFINE e == TermEvent[t]
<1>1. e \in Events
  BY DEF Setting
<1>2. /\ refs' \in [Threads -> Int] /\ refs'[t] = refs[t] - 1
      /\ \A u \in Threads : u # t => refs'[u] = refs[u]
  BY DEF Release, IInv, Types
<1>3. CASE refs[t] = 1
  <2>1. Places(waiters, e) = {}
    <3>1. ASSUME NEW i \in Places(waiters, e) PROVE FALSE
      <4>1. /\ Sleeper(waiters, e, i) \in Threads /\ state[Sleeper(waiters, e, i)] = "awaiting"
            /\ <<Sleeper(waiters, e, i), t>> \in joins
        BY <1>1, Zenon DEF IInv, ListsCurrent, ListsHeld
      <4>2. refs[t] >= 2
        BY <4>1, Zenon
      <4> QED
        BY <1>3, <4>2
    <3> QED
      BY <3>1, Zenon
  <2>2. waiters[e] \in Seq(Container) /\ DOMAIN waiters[e] = {}
    BY <1>1, <2>1, Zenon DEF Places, IInv, Types, Lists
  <2>3. waiters[e] = <<>>
    <3> DEFINE q == waiters[e]
    <3> HIDE DEF q
    <3>1. q \in Seq(Container) /\ DOMAIN q = {}
      BY <2>2 DEF q
    <3>2. q = <<>>
      BY <3>1
    <3> QED
      BY <3>2 DEF q
  <2>4. waiters' = waiters
    <3>1. waiters' = [waiters EXCEPT ![e] = <<>>] /\ waiters \in Lists
      BY <1>3, Zenon DEF Release, IInv, Types
    <3> HIDE DEF e
    <3> QED
      BY <2>3, <3>1, Zenon DEF Lists
  <2>5. deleted' = [deleted EXCEPT ![e] = TRUE] /\ refs'[t] = 0
    BY <1>2, <1>3 DEF Release
  <2>6. /\ deleted' \in [Events -> BOOLEAN]
        /\ \A f \in Events : deleted[f] => deleted'[f]
        /\ \A f \in Events : deleted'[f] => deleted[f] \/ f = e
    BY <2>5, Zenon DEF IInv, Types
  <2> QED
    BY <1>2, <2>4, <2>5, <2>6, Zenon DEF Released
<1>4. CASE refs[t] # 1
  BY <1>2, <1>4, Zenon DEF Release, IInv, Types, Released
<1> QED
  BY <1>3, <1>4

\* An event goes with its owner.
LEMMA ReleasedDeletions ==
    ASSUME IInv, NEW t \in Threads, Released(t), refs[t] >= 1
    PROVE  \A e \in Events : deleted'[e] =>
              e \in Deletable \/ (\E u \in Threads : e = TermEvent[u] /\ refs'[u] = 0)
BY DEF Released, IInv, Deletions

(* How event_dispatch goes on after a thread: with the next one, or back.  *)
LEMMA DropBecomes ==
    ASSUME Setting, IInv, NEW c \in Cpus, Drop(c)
    PROVE  /\ Becomes(c, Pc(cpu', c), Thread(cpu, c), Rest(cpu, c)) /\ To(cpu', c) = None
           /\ Ret(cpu, c) \in {"run", "pick", "switch"}
           /\ \/ Pc(cpu', c) = "pop" /\ On(cpu', c) = On(cpu, c) /\ Ret(cpu', c) = Ret(cpu, c)
              \/ Pc(cpu', c) = Ret(cpu, c)
<1>1. Pc(cpu, c) = "drop" /\ cpu \in Tables
  BY Zenon DEF Drop, Pc, IInv, Types
<1>2. Ret(cpu, c) \in {"run", "pick", "switch"} /\ Ret(cpu, c) \in Locations /\ "pop" \in Locations
  BY <1>1, LocationsAre, FieldsOfTable, Zenon DEF IInv, Calls, Dispatching, Fields, Rets
<1>3. CASE cpu[c].call.all
  <2>1. cpu' = [cpu EXCEPT ![c].pc = "pop", ![c].call.target = None, ![c].call.seq = 0]
    BY <1>3, Zenon DEF Drop
  <2>2. None \in Threads \cup {None} /\ 0 \in Nat
    OBVIOUS
  <2>3. /\ Becomes(c, "pop", Thread(cpu, c), Rest(cpu, c)) /\ To(cpu', c) = None
        /\ On(cpu', c) = On(cpu, c) /\ Ret(cpu', c) = Ret(cpu, c)
    BY <1>1, <1>2, <2>1, TargetBecomes, Zenon
  <2> QED
    BY <1>2, <2>3, Zenon DEF Becomes
<1>4. CASE ~cpu[c].call.all
  <2>1. NoCall \in CallType /\ NoCall.target = None
    BY DEF NoCall, CallType, Rets
  <2>2. cpu' = [cpu EXCEPT ![c].pc = Ret(cpu, c), ![c].call = NoCall]
    BY <1>4, Zenon DEF Drop, Unlock, Ret
  <2>3. Becomes(c, Ret(cpu, c), Thread(cpu, c), Rest(cpu, c)) /\ To(cpu', c) = None
    BY <1>1, <1>2, <2>1, <2>2, CallBecomes, Zenon
  <2> QED
    BY <1>2, <2>3, Zenon DEF Becomes
<1> QED
  BY <1>3, <1>4, Zenon

(* event_dispatch gives back the thread it has queued. *)
LEMMA DropStep ==
    ASSUME Setting, Counting, IInv, NEW c \in Cpus, Drop(c)
    PROVE  IInv'
<1> DEFINE t == To(cpu, c)
<1>1. Pc(cpu, c) = "drop" /\ t \in Threads /\ t # None /\ On(cpu, c) \in Events /\ Ret(cpu, c) # "idle"
  <2>1. Pc(cpu, c) = "drop"
    BY Zenon DEF Drop, Pc
  <2> QED
    BY <2>1, HeldIsThread, Zenon DEF IInv, Calls, Dispatching, Setting
<1>2. /\ Becomes(c, Pc(cpu', c), Thread(cpu, c), Rest(cpu, c)) /\ To(cpu', c) = None
      /\ Ret(cpu, c) \in {"run", "pick", "switch"}
      /\ \/ Pc(cpu', c) = "pop" /\ On(cpu', c) = On(cpu, c) /\ Ret(cpu', c) = Ret(cpu, c)
         \/ Pc(cpu', c) = Ret(cpu, c)
  BY DropBecomes, Zenon
<1>3. UNCHANGED <<regsAway, state, seq, active, joins, queue>>
  BY Zenon DEF Drop, threadVars
<1>4. refs[t] \in Nat /\ refs[t] >= 1 /\ \A w \in Threads : <<w, t>> \in joins => refs[t] >= 2
  BY <1>1, Held, Zenon
<1>5. Released(t) /\ UNCHANGED waiters
  <2>1. Release(t)
    BY Zenon DEF Drop, Target, To
  <2>2. Released(t)
    BY <1>1, <1>4, <2>1, ReleaseStep, Zenon
  <2> QED
    BY <2>2, Zenon DEF Released
<1> HIDE DEF t
<1>6. OnlyThread(None) /\ Quiet(c, None)
  <2>1. OnlyThread(None)
    BY <1>1, <1>2, <1>3 DEF OnlyThread, Becomes, Others, Arriving
  <2>2. Quiet(c, None)
    BY HeldIsThread, Zenon DEF Quiet, IInv, ListsCurrent, Setting
  <2> QED
    BY <2>1, <2>2, Zenon
<1>7. To(cpu, c) = t
  BY Zenon DEF t
<1>8. Types'
  BY <1>5, <1>2, <1>3, Zenon DEF Types, Others, Released, IInv, Becomes
<1>9. Calls'
  BY <1>1, <1>2, Zenon DEF Calls, Dispatching, Holding, Others, IInv, Becomes
<1>10. Runners'
  <2>1. Runner(cpu, state, regsAway, c)
    BY Zenon DEF IInv, Runners
  <2>2. Runner(cpu', state', regsAway', c)
    BY <1>1, <1>2, <1>3, <2>1, Zenon DEF Becomes, Runner, Has, Dispatching
  <2> QED
    BY <1>2, <1>3, <2>2, RunnersSame, Zenon DEF Becomes
<1>11. Apart'
  BY <1>1, <1>2, <1>3 DEF Apart, Others, IInv, Becomes
<1>12. WakersAlone'
  BY <1>6, WakersKept, <1>2, Zenon DEF Waking, Becomes
<1>13. ListsCurrent' /\ ListsSingle' /\ ListsHeld' /\ TakenCurrent'
  BY <1>5, <1>6, ListsKept, <1>2, <1>3, Zenon DEF Taken, Becomes
<1>14. References'
  <2>1. refs'[t] = refs[t] - 1 /\ \A u \in Threads : u # t => refs'[u] = refs[u]
    BY <1>5, Zenon DEF Released
  <2>2. Others(c) /\ \A u \in Threads : Alive(state', cpu', u) <=> Alive(state, cpu, u)
    BY <1>2, <1>3, Zenon DEF Alive, Others, Becomes
  <2> QED
    BY <2>1, <2>2, DispatcherCounts, <1>1, <1>2, <1>3, <1>7, Zenon
<1>15. Deletions'
  BY <1>4, <1>5, ReleasedDeletions, <1>1, <1>2, <1>3, Zenon DEF Deletions, Others, IInv, Becomes
<1>16. Found'
  <2>1. \A e \in Deletable : deleted[e] => deleted'[e]
    BY <1>5, Zenon DEF Released, Setting
  <2>11. RunningFound'
    BY <1>2, <1>3, Zenon DEF Others, IInv, Becomes, RunningFound, Found
  <2>12. QueuedFound'
    BY <1>1, <1>2, <1>3, Zenon DEF Others, IInv, Becomes, QueuedFound, Found
  <2>13. WokenFound'
    BY <1>1, <1>2, <1>3, Zenon DEF Others, IInv, Becomes, WokenFound, Found, Waking
  <2>14. SleepersFound'
    BY <1>1, <1>2, <1>5, <1>6, <2>1, SleepersKept, Zenon DEF Becomes, Taken, Setting
  <2> QED
    BY <2>11, <2>12, <2>13, <2>14, Zenon DEF Found
<1> QED
  BY <1>8, <1>9, <1>10, <1>11, <1>12, <1>13, <1>14, <1>15, <1>16, Zenon DEF IInv

(* The handle of a joined thread is given back. *)
LEMMA DropJoinStep ==
    ASSUME Setting, Counting, IInv, NEW c \in Cpus, DropJoin(c)
    PROVE  IInv'
<1> DEFINE w == Thread(cpu, c)
<1>1. Pc(cpu, c) = "run" /\ w \in Threads /\ w # None /\ state[w] = "running"
  <2>1. Pc(cpu, c) = "run"
    BY DEF DropJoin, Pc
  <2> QED
    BY <2>1, CpuHasThread, Zenon DEF Dispatching, Runner, Has
<1>2. PICK t \in Threads : <<w, t>> \in joins /\ joins' = joins \ {<<w, t>>} /\ Release(t)
  BY Zenon DEF DropJoin, Thread
<1>3. UNCHANGED <<regsAway, state, seq, active, queue, cpu>>
  BY DEF DropJoin, threadVars
<1> HIDE DEF w
<1>4. refs[t] \in Nat /\ refs[t] >= 1 /\ \A v \in Threads : <<v, t>> \in joins /\ v # w => refs[t] >= 2
  BY <1>2, Held, Zenon
<1>5. Released(t) /\ UNCHANGED waiters
  <2>1. \A v \in Threads : <<v, t>> \in joins /\ state[v] = "awaiting" => refs[t] >= 2
    BY <1>1, <1>4, Zenon
  <2>2. Released(t)
    BY <1>2, <2>1, ReleaseStep, Zenon
  <2> QED
    BY <2>2 DEF Released
<1>6. Thread(cpu, c) = w /\ \A d \in Cpus : d # c => Thread(cpu, d) # w
  BY <1>1, Zenon DEF IInv, Apart, w
<1>7. \A u, v : <<v, u>> \in joins /\ v # w => <<v, u>> \in joins'
  BY <1>2
<1>8. Types'
  <2>1. joins' \subseteq Joins
    BY <1>2, Zenon DEF IInv, Types
  <2> QED
    BY <1>3, <1>5, <2>1, Zenon DEF IInv, Types, Released
<1>9. Calls' /\ Runners' /\ Apart' /\ WakersAlone'
  BY <1>3, Zenon DEF IInv, Calls, Runners, Apart, WakersAlone
<1>10. ListsCurrent' /\ ListsSingle' /\ TakenCurrent'
  <2>1. ListsCurrent'
    BY <1>3, <1>5, Zenon DEF IInv, ListsCurrent
  <2>2. ListsSingle'
    BY <1>3, <1>5 DEF IInv, ListsSingle
  <2>3. TakenCurrent'
    BY <1>3, Zenon DEF IInv, TakenCurrent
  <2> QED
    BY <2>1, <2>2, <2>3, Zenon
<1>11. ListsHeld'
  <2>1. \A u \in Threads : \A i \in Places(waiters, TermEvent[u]) : Sleeper(waiters, TermEvent[u], i) # w
    BY <1>1, Zenon DEF IInv, ListsCurrent, Setting
  <2> QED
    BY <1>5, <1>7, <2>1, Zenon DEF IInv, ListsHeld
<1>12. References'
  <2> DEFINE J == Joiners(joins, t)
  <2>1. IsFiniteSet(J) /\ Cardinality(J) \in Nat /\ Cardinality(Dispatchers(cpu, t)) \in Nat
    BY HoldersFinite, Zenon DEF IInv, Types
  <2>2. <<w, t>> \in J /\ Joiners(joins', t) = J \ {<<w, t>>}
    BY <1>2 DEF Joiners
  <2>3. Cardinality(Joiners(joins', t)) = Cardinality(J) - 1
    <3> HIDE DEF J
    <3> QED
      BY <2>1, <2>2, Zenon DEF Counting
  <2>4. \A u \in Threads : u # t => Joiners(joins', u) = Joiners(joins, u)
    BY <1>2 DEF Joiners
  <2>5. refs'[t] = refs[t] - 1 /\ \A u \in Threads : u # t => refs'[u] = refs[u]
    BY <1>5 DEF Released
  <2> QED
    BY <1>3, <2>1, <2>3, <2>4, <2>5 DEF IInv, References
<1>13. Deletions'
  BY <1>1, <1>3, <1>4, <1>5, <1>6, <1>7, ReleasedDeletions, Zenon DEF IInv, Deletions
<1>14. Found'
  <2>1. \A e \in Deletable : deleted[e] => deleted'[e]
    BY <1>5, Zenon DEF Released, Setting
  <2> QED
    BY <1>3, <1>5, <2>1, Zenon DEF IInv, Found, RunningFound, QueuedFound, WokenFound, SleepersFound
<1> QED
  BY <1>8, <1>9, <1>10, <1>11, <1>12, <1>13, <1>14, Zenon DEF IInv

(* thread_delete: the thread's own handle is given back. *)
LEMMA DeleteStep ==
    ASSUME Setting, Counting, IInv, NEW c \in Cpus, Delete(c)
    PROVE  IInv'
<1> DEFINE t == Thread(cpu, c)
<1>1. Pc(cpu, c) = "delete" /\ t \in Threads /\ t # None /\ state[t] = "terminated" /\ cpu \in Tables
  <2>1. Pc(cpu, c) = "delete"
    BY Zenon DEF Delete, Pc
  <2> QED
    BY <2>1, CpuHasThread, Zenon DEF Dispatching, Runner, Has, IInv, Types
<1>2. Becomes(c, "pick", None, Rest(cpu, c)) /\ SameCall(c)
  <2>1. None \in Threads \cup {None} /\ "pick" \in Locations
    BY LocationsAre, Zenon
  <2> QED
    BY <1>1, <2>1, ThreadBecomes, Zenon DEF Delete
<1>3. UNCHANGED <<regsAway, state, seq, active, joins, queue>>
  BY Zenon DEF Delete, threadVars
<1>4. Alive(state, cpu, t)
  BY Zenon DEF Alive
<1>5. refs[t] \in Nat /\ refs[t] >= 1 /\ \A w \in Threads : <<w, t>> \in joins => refs[t] >= 2
  BY <1>1, <1>4, Held, Zenon
<1>6. Released(t) /\ UNCHANGED waiters
  <2>1. Release(t)
    BY Zenon DEF Delete, Thread
  <2>2. Released(t)
    BY <1>1, <1>5, <2>1, ReleaseStep, Zenon
  <2> QED
    BY <2>2, Zenon DEF Released
<1>7. Thread(cpu, c) = t
  BY Zenon
<1> HIDE DEF t
<1>8. /\ t \notin queue /\ \A d \in Cpus : d # c => Thread(cpu, d) # t
      /\ Quiet(c, t) /\ To(cpu, c) = None
  BY <1>1, <1>7, Awake, Zenon DEF IInv, Apart, Calls, Holding
<1>9. OnlyThread(t) /\ Others(c)
  BY <1>1, <1>2, <1>3, Zenon DEF OnlyThread, Arriving, Others, Becomes
<1>10. Types'
  BY <1>6, <1>2, <1>3, Zenon DEF Types, Others, Released, IInv, Becomes
<1>11. Calls'
  BY <1>1, <1>2, Zenon DEF Calls, Dispatching, Holding, Others, SameCall, IInv, Becomes
<1>12. Runners'
  <2>1. Runner(cpu', state', regsAway', c)
    BY <1>2, Zenon DEF Runner, Has, Dispatching, Becomes
  <2> QED
    BY <1>8, <1>9, <2>1, RunnersKept, Zenon
<1>13. Apart'
  BY <1>8, <1>9, ApartKept, <1>1, <1>2, <1>3, Zenon DEF Becomes
<1>14. WakersAlone'
  BY <1>8, <1>9, WakersKept, <1>2, Zenon DEF Waking, Becomes
<1>15. ListsCurrent' /\ ListsSingle' /\ ListsHeld' /\ TakenCurrent'
  BY <1>6, <1>8, <1>9, ListsKept, <1>2, <1>3, Zenon DEF Taken, Becomes
<1>16. References'
  <2>1. \A u \in Threads : u # t => (Alive(state', cpu', u) <=> Alive(state, cpu, u))
    BY <1>2, <1>3, <1>7, Zenon DEF Alive, Others, Setting, Becomes
  <2>2. ~Alive(state', cpu', t)
    BY <1>8, <1>1, <1>2, <1>3, Zenon DEF Alive, Others, Becomes
  <2>3. \A u \in Threads : Dispatchers(cpu', u) = Dispatchers(cpu, u)
    BY <1>2, Zenon DEF Dispatchers, Others, SameCall, Becomes
  <2>4. Cardinality(Dispatchers(cpu, t)) \in Nat /\ Cardinality(Joiners(joins, t)) \in Nat
    BY HoldersFinite, Zenon DEF Types, IInv
  <2>5. refs'[t] = refs[t] - 1 /\ \A u \in Threads : u # t => refs'[u] = refs[u]
    BY <1>6, Zenon DEF Released
  <2> QED
    BY <1>4, <2>1, <2>2, <2>3, <2>4, <2>5, <1>3 DEF References, IInv
<1>17. Deletions'
  BY <1>5, <1>6, ReleasedDeletions, <1>1, <1>2, <1>3, Zenon DEF Deletions, Others, IInv, Becomes
<1>18. Found'
  <2>1. \A e \in Deletable : deleted[e] => deleted'[e]
    BY <1>6, Zenon DEF Released, Setting
  <2>11. RunningFound'
    BY <1>1, <1>2, <1>3, <1>7, Zenon DEF Others, IInv, Becomes, RunningFound, Found
  <2>12. QueuedFound'
    BY <1>1, <1>2, <1>3, Zenon DEF Others, IInv, Becomes, QueuedFound, Found
  <2>13. WokenFound'
    BY <1>1, <1>2, <1>3, Zenon DEF Others, IInv, Becomes, WokenFound, Found, Waking
  <2>14. SleepersFound'
    BY <1>1, <1>3, <1>6, <1>9, <2>1, SleepersKept, Zenon DEF Taken
  <2> QED
    BY <2>11, <2>12, <2>13, <2>14, Zenon DEF Found
<1> QED
  BY <1>10, <1>11, <1>12, <1>13, <1>14, <1>15, <1>16, <1>17, <1>18, Zenon DEF IInv

-----------------------------------------------------------------------------
(* The invariant holds at first: every thread is queued and no CPU has one. *)
LEMMA InitIInv ==
    ASSUME Setting, Counting, Init
    PROVE  IInv
<1>1. NoCall \in CallType /\ NoCall.target = None
  BY DEF NoCall, CallType, Rets
<1>2. /\ IdleCpu \in CpuType /\ IdleCpu.pc = "idle" /\ IdleCpu.thread = None
      /\ IdleCpu.rest = <<>> /\ IdleCpu.call = NoCall
  <2>1. "idle" \in Locations /\ <<>> \in Rests
    BY LocationsAre DEF Rests
  <2> HIDE DEF NoCall
  <2> QED
    BY <1>1, <2>1, Zenon DEF IdleCpu, CpuType
<1>3. cpu \in Tables /\ \A c \in Cpus : cpu[c] = IdleCpu
  BY <1>2, Zenon DEF Init, Tables
<1>4. \A c \in Cpus : Pc(cpu, c) = "idle" /\ Thread(cpu, c) = None /\ Rest(cpu, c) = <<>> /\ To(cpu, c) = None
  BY <1>1, <1>2, <1>3, Zenon DEF Pc, Thread, Rest, To
<1>5. \A t \in Threads : t # None /\ TermEvent[t] \in Events
  BY DEF Setting
<1>6. waiters \in Lists /\ \A e \in Events : Places(waiters, e) = {}
  <2>1. \A e \in Events : DOMAIN waiters[e] = {}
    BY DEF Init
  <2>2. waiters \in Lists
    <3>1. <<>> \in Seq(Container)
      OBVIOUS
    <3> QED
      BY <3>1, Zenon DEF Init, Lists
  <2> QED
    BY <2>1, <2>2 DEF Places
<1>7. joins = Joins /\ \A t \in Threads : refs[t] = 1 + Cardinality(Joiners(Joins, t))
  BY Zenon DEF Init, Joiners
<1>8. \A t \in Threads : Cardinality(Joiners(Joins, t)) \in Nat
  BY HoldersFinite, Zenon
<1>9. Types
  <2>1. refs \in [Threads -> Int]
    <3>1. \A t \in Threads : 1 + Cardinality(Joiners(Joins, t)) \in Int
      BY <1>8
    <3> QED
      BY <3>1, Zenon DEF Init, Joiners
  <2>2. /\ state \in [Threads -> States] /\ regsAway \in [Threads -> BOOLEAN] /\ seq \in [Threads -> Nat]
        /\ queue \subseteq Threads /\ active \in [Events -> BOOLEAN] /\ deleted \in [Events -> BOOLEAN]
    BY DEF Init, States
  <2> QED
    BY <1>3, <1>6, <1>7, <2>1, <2>2, Zenon DEF Types
<1>10. Calls /\ Runners /\ WakersAlone /\ TakenCurrent
  BY <1>4, Zenon
     DEF Calls, Dispatching, Holding, Runners, Runner, Has, WakersAlone, Waking, TakenCurrent, Taken
<1>11. Apart
  BY <1>4, <1>5, Zenon DEF Apart, Init
<1>12. ListsCurrent /\ ListsSingle /\ ListsHeld
  BY <1>5, <1>6, Zenon DEF ListsCurrent, ListsSingle, ListsHeld
<1>13. References
  <2>1. \A t \in Threads : Dispatchers(cpu, t) = {} /\ Alive(state, cpu, t)
    BY <1>4, <1>5, Zenon DEF Dispatchers, Alive, Init
  <2>2. \A t \in Threads : Cardinality(Dispatchers(cpu, t)) = 0
    BY <2>1 DEF Counting
  <2> QED
    BY <1>7, <1>8, <2>1, <2>2 DEF References
<1>14. Deletions
  BY <1>4, Zenon DEF Deletions, Init
<1>15. Found
  BY DEF Found, Init, RunningFound, QueuedFound, WokenFound, SleepersFound
<1> QED
  BY <1>9, <1>10, <1>11, <1>12, <1>13, <1>14, <1>15, Zenon DEF IInv

LEMMA StutterIInv ==
    ASSUME IInv, UNCHANGED vars
    PROVE  IInv'
<1>1. UNCHANGED <<state, regsAway, seq, refs, joins, queue, cpu, active, deleted, waiters>>
  BY Zenon DEF vars, threadVars, eventVars, handleVars
<1>2. Types' /\ Calls' /\ Runners' /\ Apart' /\ WakersAlone'
  BY <1>1, Zenon DEF Types, Calls, Runners, Apart, WakersAlone, IInv
<1>3. ListsCurrent' /\ ListsSingle' /\ ListsHeld' /\ TakenCurrent'
  <2>1. ListsCurrent'
    BY <1>1, Zenon DEF IInv, ListsCurrent
  <2>2. ListsSingle'
    BY <1>1 DEF IInv, ListsSingle
  <2>3. ListsHeld'
    BY <1>1 DEF IInv, ListsHeld
  <2>4. TakenCurrent'
    BY <1>1, Zenon DEF IInv, TakenCurrent
  <2> QED
    BY <2>1, <2>2, <2>3, <2>4, Zenon
<1>4. References' /\ Deletions' /\ Found'
  BY <1>1, Zenon
     DEF References, Deletions, Found, IInv, RunningFound, QueuedFound, WokenFound, SleepersFound
<1> QED
  BY <1>2, <1>3, <1>4, Zenon DEF IInv

(* Every step that only moves a CPU, or is one of two, keeps it. *)
LEMMA MovesKeepIInv ==
    ASSUME Setting, IInv, NEW c \in Cpus,
           AwaitYield(c) \/ Check(c) \/ Settle(c) \/ Switch(c) \/ Recheck(c) \/ WakeCpu(c) \/ Preempt(c) \/ PickNone(c)
    PROVE  IInv'
<1>1. CASE AwaitYield(c)
  BY <1>1, MoveStep, LocationsAre, Zenon DEF AwaitYield, Pc, Rest
<1>2. CASE Check(c)
  <2>1. Pc(cpu, c) = "check" /\ state[To(cpu, c)] = "awaiting" /\ seq[To(cpu, c)] = Stamp(cpu, c)
    BY <1>2, Zenon DEF Check, Pc, IInv, TakenCurrent, Taken
  <2>2. Goto(c, "wake") /\ UNCHANGED <<threadVars, eventVars, handleVars, queue>>
    BY <1>2, <2>1, Zenon DEF Check, Target, To, Stamp
  <2> QED
    BY <2>1, <2>2, MoveStep, LocationsAre, Zenon DEF Dispatching
<1>3. CASE Settle(c)
  BY <1>3, MoveStep, LocationsAre, Zenon DEF Settle, Pc, Target, To, Dispatching
<1>4. CASE Switch(c)
  <2>1. CASE state[Thread(cpu, c)] # "terminated"
    BY <1>4, <2>1, SwitchStep, Zenon
  <2>2. CASE state[Thread(cpu, c)] = "terminated"
    <3>1. Pc(cpu, c) = "switch" /\ Goto(c, "delete") /\ UNCHANGED <<threadVars, eventVars, handleVars, queue>>
      BY <1>4, <2>2, Zenon DEF Switch, threadVars, Pc, Thread
    <3> QED
      BY <2>2, <3>1, MoveStep, LocationsAre, Zenon
  <2> QED
    BY <2>1, <2>2, Zenon
<1>5. CASE Recheck(c)
  <2>1. CASE state[Thread(cpu, c)] # "running"
    BY <1>5, <2>1, LeaveStep, Zenon
  <2>2. CASE state[Thread(cpu, c)] = "running"
    <3>1. Pc(cpu, c) = "recheck" /\ Goto(c, "requeue") /\ UNCHANGED <<threadVars, eventVars, handleVars, queue>>
      BY <1>5, <2>2, Zenon DEF Recheck, Pc, Thread
    <3> QED
      BY <2>2, <3>1, MoveStep, LocationsAre, Zenon
  <2> QED
    BY <2>1, <2>2, Zenon
<1>6. CASE WakeCpu(c)
  BY <1>6, MoveStep, LocationsAre, Zenon DEF WakeCpu, Pc
<1>7. CASE Preempt(c)
  BY <1>7, MoveStep, LocationsAre, Zenon DEF Preempt, Pc
<1>8. CASE PickNone(c)
  BY <1>8, MoveStep, LocationsAre, Zenon DEF PickNone, Pc
<1> QED
  BY <1>1, <1>2, <1>3, <1>4, <1>5, <1>6, <1>7, <1>8, Zenon

(* Every step of every CPU keeps it, unless it overtakes another CPU. *)
LEMMA StepIInv ==
    ASSUME Setting, Counting, IInv, NEW c \in Cpus, CpuStep(c), ~Overtakes(c)
    PROVE  IInv'
<1>1. CASE \/ AwaitYield(c) \/ Check(c) \/ Settle(c) \/ Switch(c) \/ Recheck(c)
           \/ WakeCpu(c) \/ Preempt(c) \/ PickNone(c)
  BY <1>1, MovesKeepIInv
<1>2. CASE Await(c)
  BY <1>2, AwaitStep
<1>3. CASE SetActive(c)
  BY <1>3, SetActiveStep
<1>4. CASE EventDelete(c)
  BY <1>4, EventDeleteStep
<1>5. CASE Dispatch(c)
  <2>1. /\ Pc(cpu, c) \in {"run", "pick"}
        /\ \E e \in Events, all, activate \in BOOLEAN : LockAndDispatch(c, e, all, activate, Pc(cpu, c))
    BY <1>5, Zenon DEF Dispatch, Pc
  <2> QED
    BY <2>1, LockStep, Zenon
<1>6. CASE Terminate(c)
  BY <1>6, TerminateStep
<1>7. CASE DropJoin(c)
  BY <1>7, DropJoinStep
<1>8. CASE AwaitEvent(c)
  BY <1>8, AwaitEventStep
<1>9. CASE AwaitActive(c)
  BY <1>9, AwaitActiveStep
<1>10. CASE Pop(c)
  BY <1>10, PopStep
<1>11. CASE PopNone(c)
  BY <1>11, PopNoneStep
<1>12. CASE Skip(c)
  BY <1>12, Zenon DEF Skip, IInv, Calls, Pc
<1>13. CASE Wake(c)
  BY <1>13, WakeStep
<1>14. CASE Enqueue(c)
  BY <1>14, EnqueueStep
<1>15. CASE Drop(c)
  BY <1>15, DropStep
<1>16. CASE DispatchTermination(c)
  <2>1. Pc(cpu, c) = "terminate"
    BY <1>16 DEF DispatchTermination, Pc
  <2>2. TermEvent[Thread(cpu, c)] \in Events
    BY <2>1, CpuHasThread, Zenon DEF Dispatching, Setting
  <2>3. LockAndDispatch(c, TermEvent[Thread(cpu, c)], TRUE, TRUE, "switch")
    BY <1>16, Zenon DEF DispatchTermination, Thread
  <2> QED
    BY <2>1, <2>2, <2>3, LockStep, Zenon
<1>17. CASE Requeue(c)
  BY <1>17, RequeueStep
<1>18. CASE Delete(c)
  BY <1>18, DeleteStep
<1>19. CASE Start(c)
  BY <1>19, StartStep
<1>20. CASE \E t \in Threads : Pick(c, t)
  BY <1>20, PickStep
<1> QED
  BY <1>1, <1>2, <1>3, <1>4, <1>5, <1>6, <1>7, <1>8, <1>9, <1>10, <1>11, <1>12, <1>13, <1>14,
     <1>15, <1>16, <1>17, <1>18, <1>19, <1>20, Zenon
     DEF CpuStep, ThreadStep, KernelStep

-----------------------------------------------------------------------------
(* The theorems.                                                           *)
INSTANCE FiniteSetTheorems

LEMMA CountingHolds == Counting
<1>1. \A S : IsFiniteSet(S) => Cardinality(S) \in Nat /\ (Cardinality(S) = 0 <=> S = {})
  BY FS_CardinalityType, FS_EmptySet, Zenon
<1>2. \A S, T : IsFiniteSet(S) /\ T \subseteq S => IsFiniteSet(T)
  BY FS_Subset, Zenon
<1>3. \A S, x : IsFiniteSet(S) /\ x \notin S => Cardinality(S \cup {x}) = Cardinality(S) + 1
  BY FS_AddElement, Zenon
<1>4. \A S, x : IsFiniteSet(S) /\ x \in S =>
                IsFiniteSet(S \ {x}) /\ Cardinality(S \ {x}) = Cardinality(S) - 1
  BY FS_RemoveElement, Zenon
<1> QED
  BY <1>1, <1>2, <1>3, <1>4, FS_EmptySet, Zenon DEF Counting

(* The inductive invariant of scheduler.c and event.c holds, for every     *)
(* number of threads, CPUs and events, until a thread runs again before    *)
(* the CPU that left it has read its state a second time.                  *)
THEOREM InductiveInvariant ==
    ASSUME Setting
    PROVE  Spec => [](overtaken \/ IInv)
<1>1. Init => overtaken \/ IInv
  BY InitIInv, CountingHolds, Zenon
<1>2. (overtaken \/ IInv) /\ [Next]_vars => (overtaken \/ IInv)'
  <2>1. ASSUME overtaken \/ IInv, Next, ~overtaken' PROVE IInv'
    <3>1. PICK c \in Cpus : CpuStep(c) /\ overtaken' = (overtaken \/ Overtakes(c))
      BY <2>1, Zenon DEF Next, Noted
    <3>2. ~overtaken /\ ~Overtakes(c)
      BY <2>1, <3>1, Zenon
    <3> QED
      BY <2>1, <3>1, <3>2, StepIInv, CountingHolds, Zenon
  <2>2. ASSUME overtaken \/ IInv, UNCHANGED vars, ~overtaken' PROVE IInv'
    <3>1. IInv
      BY <2>2, Zenon DEF vars
    <3> QED
      BY <2>2, <3>1, StutterIInv, Zenon
  <2> QED
    BY <2>1, <2>2, Zenon
<1> QED
  BY <1>1, <1>2, PTL DEF Spec

(* event_dispatch tests a thread's state and event_sequence_id without its *)
(* lock, and changes them later under the lock: what it saw still holds,   *)
(* until a thread overtakes the CPU that leaves it.                        *)
THEOREM UnlockedTestIsSafe ==
    ASSUME Setting
    PROVE  Spec => []CheckStillHolds
<1>1. overtaken \/ IInv => CheckStillHolds
  <2>1. ASSUME IInv, NEW c \in Cpus, Pc(cpu, c) = "wake"
        PROVE  state[To(cpu, c)] = "awaiting" /\ seq[To(cpu, c)] = Stamp(cpu, c)
    BY <2>1, Zenon DEF IInv, TakenCurrent, Taken
  <2> QED
    BY <2>1, Zenon DEF CheckStillHolds, Target, To, Stamp, Pc
<1> QED
  BY <1>1, InductiveInvariant, PTL

(* _thread_handle_destructor finds its thread terminated: the last handle  *)
(* goes after the thread has ended, whoever gives it back, until a thread  *)
(* overtakes the CPU that leaves it.                                       *)
THEOREM DestructorNeverPanics ==
    ASSUME Setting
    PROVE  Spec => []NoUnterminatedDelete
<1>1. overtaken \/ IInv => NoUnterminatedDelete
  <2>1. ASSUME IInv, NEW c \in Cpus, NEW t \in Threads, refs[t] = 1,
               \/ Pc(cpu, c) = "delete" /\ Thread(cpu, c) = t
               \/ Pc(cpu, c) \in {"skip", "drop"} /\ To(cpu, c) = t
        PROVE  state[t] = "terminated"
    <3>1. CASE Pc(cpu, c) = "delete" /\ Thread(cpu, c) = t
      BY <2>1, <3>1, Zenon DEF IInv, Runners, Runner, Has
    <3>2. CASE To(cpu, c) = t
      <4>1. Alive(state, cpu, t) => refs[t] >= 2
        BY <2>1, <3>2, Held, CountingHolds, Zenon
      <4> QED
        BY <2>1, <4>1 DEF Alive
    <3> QED
      BY <2>1, <3>1, <3>2, Zenon
  <2> QED
    BY <2>1, Zenon DEF NoUnterminatedDelete, Target, To, Thread, Pc
<1> QED
  BY <1>1, InductiveInvariant, PTL

LEMMA AtMostOne ==
    ASSUME NEW S, \A x, y \in S : x = y
    PROVE  Cardinality(S) \in {0, 1} /\ (S = {} => Cardinality(S) = 0)
<1>1. CASE S = {}
  BY <1>1, FS_EmptySet, Zenon
<1>2. CASE S # {}
  <2>1. PICK x : x \in S
    BY <1>2, Zenon
  <2>2. S = {x}
    BY <2>1, Zenon
  <2> QED
    BY <2>2, FS_Singleton, Zenon
<1> QED
  BY <1>1, <1>2, Zenon

LEMMA OnePlace ==
    ASSUME Setting, IInv
    PROVE  NoThreadTwice
<1>1. SUFFICES ASSUME NEW t \in Threads
               PROVE  Cardinality(OnCpu(t)) + Cardinality(Wakers(t, {"enqueue"}))
                          + (IF t \in queue THEN 1 ELSE 0) <= 1
  BY DEF NoThreadTwice
<1> DEFINE C == OnCpu(t)
           W == Wakers(t, {"enqueue"})
<1>2. /\ \A c \in C : c \in Cpus /\ Thread(cpu, c) = t /\ (Pc(cpu, c) = "recheck" => state[t] = "running")
      /\ \A c \in W : c \in Cpus /\ Pc(cpu, c) = "enqueue" /\ To(cpu, c) = t
  BY Zenon DEF OnCpu, Wakers, Target, Thread, Pc, To
<1> HIDE DEF C, W
<1>3. t # None
  BY DEF Setting
<1>4. ASSUME NEW c \in C, NEW d \in C PROVE c = d
  <2>1. c \in Cpus /\ d \in Cpus /\ Thread(cpu, c) = t /\ Thread(cpu, d) = t
    BY <1>2, Zenon
  <2>2. \A a, b \in C : Pc(cpu, a) = "recheck" => Pc(cpu, b) # "start"
    <3>1. \A b \in C : Pc(cpu, b) = "start" => state[t] = "queued"
      BY <1>2, Zenon DEF IInv, Runners, Runner
    <3> QED
      BY <1>2, <3>1, Zenon
  <2> QED
    BY <1>3, <2>1, <2>2, Zenon DEF IInv, Apart
<1>5. \A c, d \in W : c = d
  BY <1>2, Zenon DEF IInv, WakersAlone, Waking
<1>6. ASSUME NEW c \in W PROVE C = {} /\ t \notin queue
  <2>1. state[t] = "none" /\ ~regsAway[t]
    BY <1>2, Zenon DEF IInv, WakersAlone, Waking
  <2>2. \A d \in Cpus : Thread(cpu, d) = t => Pc(cpu, d) = "recheck"
    BY <2>1, WokenIsFree, Zenon
  <2> QED
    BY <1>2, <2>1, <2>2, Zenon DEF IInv, Apart
<1>7. t \in queue => C = {}
  BY <1>2, Zenon DEF IInv, Apart
<1>8. /\ Cardinality(C) \in {0, 1} /\ (C = {} => Cardinality(C) = 0)
      /\ Cardinality(W) \in {0, 1} /\ (W = {} => Cardinality(W) = 0)
  BY <1>4, <1>5, AtMostOne, Zenon
<1>9. Cardinality(C) + Cardinality(W) + (IF t \in queue THEN 1 ELSE 0) <= 1
  BY <1>6, <1>7, <1>8
<1> QED
  BY <1>9, Zenon DEF C, W

LEMMA SomePlace ==
    ASSUME Setting, IInv
    PROVE  NoThreadLost
<1>1. ASSUME NEW t \in Threads, \E c \in Cpus : Thread(cpu, c) = t /\ (Pc(cpu, c) = "recheck" => state[t] = "running")
      PROVE  OnCpu(t) # {}
  BY <1>1, Zenon DEF OnCpu, Thread, Pc
<1>2. ASSUME NEW t \in Threads, NEW c \in Cpus, Waking(cpu, c), To(cpu, c) = t
      PROVE  Wakers(t, {"settle", "enqueue"}) # {}
  BY <1>2, Zenon DEF Wakers, Waking, Pc, To, Target
<1>3. ASSUME NEW t \in Threads, Contained(waiters, cpu, seq, t) PROVE HasContainer(t)
  <2>1. ASSUME NEW e \in Events, NEW i \in Places(waiters, e), Sleeper(waiters, e, i) = t, Wait(waiters, e, i) = seq[t]
        PROVE  HasContainer(t)
    <3>1. waiters[e] \in Seq(Container) /\ i \in DOMAIN waiters[e]
      BY Zenon DEF IInv, Types, Lists, Places
    <3> DEFINE q == waiters[e]
    <3> HIDE DEF q
    <3>2. q \in Seq(Container) /\ i \in DOMAIN q
      BY <3>1, Zenon DEF q
    <3>3. q[i] \in Container
      BY <3>2
    <3> DEFINE w == q[i]
    <3>4. w.thread = t /\ w.seq = seq[t]
      BY <2>1, Zenon DEF Sleeper, Wait, q
    <3> HIDE DEF w
    <3>5. w = [thread |-> t, seq |-> seq[t]]
      <4>1. w \in Container
        BY <3>3, Zenon DEF w
      <4> QED
        BY <3>4, <4>1, Zenon DEF Container
    <3> QED
      BY <3>1, <3>5, Zenon DEF HasContainer, q, w
  <2>2. ASSUME NEW c \in Cpus, Taken(cpu, c), To(cpu, c) = t, Stamp(cpu, c) = seq[t]
        PROVE  HasContainer(t)
    BY <2>2, Zenon DEF HasContainer, Wakers, Taken, Pc, To, Stamp, Target
  <2> QED
    BY <1>3, <2>1, <2>2, Zenon DEF Contained
<1>4. ASSUME NEW t \in Threads, state[t] # "terminated"
      PROVE  \/ OnCpu(t) # {} \/ t \in queue \/ Wakers(t, {"settle", "enqueue"}) # {}
             \/ state[t] = "awaiting" /\ (HasContainer(t) \/ \E e \in Deletable : deleted[e])
  <2>1. state[t] \in States
    BY Zenon DEF IInv, Types
  <2>2. CASE state[t] = "running" \/ state[t] = "queued"
    BY <1>1, <2>2, Zenon DEF IInv, Found, RunningFound, QueuedFound, WokenFound, SleepersFound
  <2>3. CASE state[t] = "none"
    BY <1>2, <2>3, Zenon DEF IInv, Found, RunningFound, QueuedFound, WokenFound, SleepersFound
  <2>4. CASE state[t] = "awaiting"
    BY <1>1, <1>3, <2>4, Zenon
       DEF IInv, Found, Arriving, RunningFound, QueuedFound, WokenFound, SleepersFound
  <2> QED
    BY <1>4, <2>1, <2>2, <2>3, <2>4, Zenon DEF States
<1> QED
  BY <1>4, Zenon DEF NoThreadLost

(* A thread that has not ended is in one place, on a CPU, on a run queue,  *)
(* with the dispatch that woke it or asleep with a container, and in no    *)
(* two of them, until it overtakes the CPU that leaves it (scheduler.c,    *)
(* event.c).                                                               *)
THEOREM ThreadsStayInOnePlace ==
    ASSUME Setting
    PROVE  Spec => []ThreadsAreInOnePlace
<1>1. overtaken \/ IInv => ThreadsAreInOnePlace
  BY OnePlace, SomePlace, Zenon DEF ThreadsAreInOnePlace
<1> QED
  BY <1>1, InductiveInvariant, PTL

(* On a machine with one CPU no thread overtakes anybody: each thread that *)
(* has not ended is in exactly one place, without exception (scheduler.c,  *)
(* event.c).                                                               *)
THEOREM OneCpuIsExact ==
    ASSUME Setting, \A c, d \in Cpus : c = d
    PROVE  Spec => [](~overtaken /\ NoThreadTwice /\ NoThreadLost)
<1>1. Init => ~overtaken
  BY Zenon DEF Init
<1>2. ~overtaken /\ [Next]_vars => ~overtaken'
  <2>1. ASSUME ~overtaken, NEW c \in Cpus, Noted(c, CpuStep(c)) PROVE ~overtaken'
    <3>1. ~Overtakes(c)
      BY Zenon DEF Overtakes
    <3> QED
      BY <2>1, <3>1, Zenon DEF Noted
  <2> QED
    BY <2>1, Zenon DEF Next, vars
<1>3. IInv => NoThreadTwice /\ NoThreadLost
  BY OnePlace, SomePlace, Zenon
<1> QED
  BY <1>1, <1>2, <1>3, InductiveInvariant, PTL DEF Spec

=============================================================================
