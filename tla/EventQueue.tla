------------------------------ MODULE EventQueue ----------------------------
(***************************************************************************)
(* An event (event_t of kernel/mp/event.c) as the rest of the kernel sees  *)
(* it: a flag and the FIFO of the threads that sleep on it.  Scheduler     *)
(* models the calls step by step; the modules that use these operators     *)
(* take each call, which holds event->lock throughout, as one step.        *)
(***************************************************************************)
EXTENDS Sequences

(* event_create *)
NewEvent == [active |-> FALSE, waiting |-> <<>>]

(* event_set_active: nobody is woken *)
SetActive(event, flag) == [event EXCEPT !.active = flag]

(* _await_event: a caller that finds the event active does not sleep *)
MustSleep(event) == ~event.active
Sleep(event, thread) == [event EXCEPT !.waiting = Append(@, thread)]

(* event_dispatch with EVENT_DISPATCH_FLAG_SET_ACTIVE: it wakes the first  *)
(* sleeper, or with EVENT_DISPATCH_FLAG_DISPATCH_ALL all of them.          *)
WokenFirst(event) == IF event.waiting = <<>> THEN {} ELSE {Head(event.waiting)}
DispatchFirst(event) ==
    [active |-> TRUE,
     waiting |-> IF event.waiting = <<>> THEN <<>> ELSE Tail(event.waiting)]

WokenAll(event) == {event.waiting[i] : i \in DOMAIN event.waiting}
DispatchAll(event) == [active |-> TRUE, waiting |-> <<>>]
=============================================================================
