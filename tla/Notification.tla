---------------------------- MODULE Notification ----------------------------
(***************************************************************************)
(* Notifications (kernel/notification/notification.c): dispatchers append  *)
(* containers to a list under the dispatcher's lock; consumers follow the  *)
(* list with a pointer of their own, mostly without that lock, count       *)
(* themselves in the container they are at, and free what lies before it.  *)
(* The n-th notification lives in container n; container 0 is the list's   *)
(* first one, which is never freed.  Every consumer is used by one thread, *)
(* and every dispatcher of the kernel has one consumer.                    *)
(***************************************************************************)
EXTENDS EventQueue, Integers, FiniteSetsExt

CONSTANTS Dispatchers, Consumers, None, MaxNotifications

VARIABLES
    listed,     \* the containers on dispatcher->head's list, container 0 apart
    sent,       \* number of the newest container: dispatcher->tail
    rc,         \* container->rc
    lock,       \* holder of dispatcher->lock
    consumers,  \* the consumers on dispatcher->consumer_head's list
    todo,       \* the consumers whose event line 65 has still to dispatch
    event,      \* consumer->event
    consumer,   \* pc, last, last_container and the notifications handed out
    freed       \* history: containers that have been freed

vars == <<listed, sent, rc, lock, consumers, todo, event, consumer, freed>>

Containers == 0..MaxNotifications

Init ==
    /\ listed = {} /\ sent = 0 /\ lock = None /\ freed = {}
    /\ rc = [n \in Containers |-> 0]
    /\ consumers = {} /\ todo = {}
    /\ event = [c \in Consumers |-> NewEvent]
    /\ consumer = [c \in Consumers |->
                     [pc |-> "none", last |-> 0, left |-> 0, got |-> <<>>]]

HasNext(n) == \E m \in listed : m > n
NextOf(n) == Min({m \in listed : m > n})

At(c, pc) == consumer[c].pc = pc
Goto(c, pc) == consumer' = [consumer EXCEPT ![c].pc = pc]

(* notification_dispatcher_dispatch, its lines 61-63 and then the loop     *)
Append_(d) ==
    /\ lock = None /\ sent < MaxNotifications
    /\ lock' = d /\ todo' = consumers
    /\ sent' = sent + 1 /\ listed' = listed \union {sent + 1}
    /\ UNCHANGED <<rc, consumers, event, consumer, freed>>

DispatchEvent(d, c) ==
    /\ lock = d /\ c \in todo
    /\ todo' = todo \ {c}
    /\ event' = [event EXCEPT ![c] = DispatchAll(@)]
    /\ IF c \in WokenAll(event[c]) THEN Goto(c, "get") ELSE UNCHANGED consumer
    /\ UNCHANGED <<listed, sent, rc, lock, consumers, freed>>

DispatchEnd(d) ==
    /\ lock = d /\ todo = {}
    /\ lock' = None
    /\ UNCHANGED <<listed, sent, rc, consumers, todo, event, consumer, freed>>

-----------------------------------------------------------------------------
(* notification_consumer_create: the count and the pointer without a lock, *)
(* then the list of consumers.                                             *)
CreateBegin(c) ==
    /\ At(c, "none") /\ Goto(c, "create")
    /\ rc' = [rc EXCEPT ![0] = @ + 1]
    /\ UNCHANGED <<listed, sent, lock, consumers, todo, event, freed>>

CreateEnd(c) ==
    /\ At(c, "create") /\ lock = None /\ Goto(c, "get")
    /\ consumers' = consumers \union {c}
    /\ UNCHANGED <<listed, sent, rc, lock, todo, event, freed>>

(* notification_consumer_get.  Lines 99-107: nothing there, wait.          *)
GetNothing(c) ==
    /\ At(c, "get") /\ ~HasNext(consumer[c].last) /\ Goto(c, "await")
    /\ UNCHANGED <<listed, sent, rc, lock, consumers, todo, event, freed>>

Await(c) ==
    /\ At(c, "await")
    /\ IF MustSleep(event[c])
       THEN event' = [event EXCEPT ![c] = Sleep(@, c)] /\ Goto(c, "asleep")
       ELSE UNCHANGED event /\ Goto(c, "get")
    /\ UNCHANGED <<listed, sent, rc, lock, consumers, todo, freed>>

(* Lines 108-113: move on to the next container and hand out its data.     *)
Take(c) ==
    LET last == consumer[c].last
        next == NextOf(last)
    IN  /\ At(c, "get") /\ HasNext(last)
        /\ consumer' = [consumer EXCEPT ![c] = [pc |-> "took", last |-> next,
                            left |-> last, got |-> Append(@.got, next)]]
        /\ rc' = [rc EXCEPT ![next] = @ + 1, ![last] = @ - 1]
        /\ UNCHANGED <<listed, sent, lock, consumers, todo, event, freed>>

(* Lines 114-116: when the list ends here, look again under the lock.      *)
Look(c) ==
    /\ At(c, "took")
    /\ Goto(c, IF HasNext(consumer[c].last) THEN "drop" ELSE "quiet")
    /\ UNCHANGED <<listed, sent, rc, lock, consumers, todo, event, freed>>

Quiet(c) ==
    /\ At(c, "quiet") /\ lock = None /\ Goto(c, "drop")
    /\ event' = [event EXCEPT ![c] =
                   SetActive(@, IF HasNext(consumer[c].last) THEN @.active ELSE FALSE)]
    /\ UNCHANGED <<listed, sent, rc, lock, consumers, todo, freed>>

(* Lines 121-132: free from the front while nobody is counted there.       *)
Unread(S) == {n \in S : \A m \in S : m <= n => rc[m] = 0}

Drop(c) ==
    /\ At(c, "drop") /\ Goto(c, "get")
    /\ IF rc[consumer[c].left] # 0 THEN UNCHANGED <<listed, freed>>
       ELSE /\ lock = None
            /\ listed' = listed \ Unread(listed)
            /\ freed' = freed \union Unread(listed)
    /\ UNCHANGED <<sent, rc, lock, consumers, todo, event>>

Get(c) == GetNothing(c) \/ Await(c) \/ Take(c) \/ Look(c) \/ Quiet(c) \/ Drop(c)

Dispatch(d) == DispatchEnd(d) \/ \E c \in Consumers : DispatchEvent(d, c)

Consume(c) == CreateBegin(c) \/ CreateEnd(c) \/ Get(c)

Next ==
    \/ \E d \in Dispatchers : Append_(d) \/ Dispatch(d)
    \/ \E c \in Consumers : Consume(c)

(* A thread that is not asleep runs on, and is granted the spin locks.     *)
Fairness ==
    /\ \A d \in Dispatchers : WF_vars(Dispatch(d))
    /\ \A c \in Consumers : WF_vars(Consume(c))

Spec == Init /\ [][Next]_vars /\ Fairness

-----------------------------------------------------------------------------
(* Every consumer is handed the notifications in the order in which they   *)
(* were sent, none lost and none twice, although it reads the list without *)
(* the lock under which it grows; and what it stands on is never freed.    *)
InOrder ==
    \A c \in Consumers :
        /\ consumer[c].got = [i \in 1..consumer[c].last |-> i]
        /\ consumer[c].last \notin freed

(* A consumer sleeps while a notification waits for it only as long as the *)
(* dispatcher is still to reach its event.                                 *)
NoSleepOverWork ==
    \A c \in Consumers :
        At(c, "asleep") /\ HasNext(consumer[c].last) => c \in todo

(* Between two calls only the container a consumer stands on, and what it  *)
(* has not read, is still allocated.                                       *)
ReadIsFreed ==
    \A c \in Consumers : At(c, "asleep") /\ lock = None =>
        listed \subseteq {consumer[c].last}

(* Every notification reaches the consumer.                                *)
NothingLeft == \A c \in Consumers : consumer[c].last = sent

Delivered == []<>NothingLeft
=============================================================================
