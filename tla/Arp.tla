--------------------------------- MODULE Arp --------------------------------
(***************************************************************************)
(* The ARP resolver (module/net_arp/arp.c): a cache entry per address that *)
(* is made by the first caller, who sends the one request for it, and is   *)
(* resolved by replies; callers wait for any resolution or the timeout.    *)
(* The network (external) may lose, delay and repeat replies.              *)
(***************************************************************************)
EXTENDS Integers

CONSTANTS Addresses, Callers

VARIABLES
    entry,      \* _net_arp_cache_address_tree: none, pending or resolved
    asked,      \* addresses for which a request was sent
    caller      \* every thread in net_arp_resolve_address, and its result

vars == <<entry, asked, caller>>

Init ==
    /\ entry = [a \in Addresses |-> "none"] /\ asked = {}
    /\ caller = [c \in Callers |-> [pc |-> "idle", address |-> 0, result |-> "none"]]

Goto(c, pc) == caller' = [caller EXCEPT ![c].pc = pc]
Return(c, a, result) ==
    caller' = [caller EXCEPT ![c] = [pc |-> "idle", address |-> a, result |-> result]]

(* A resolved entry answers at once, and a caller that may not block gets  *)
(* nothing from any other                                                  *)
ResolveNow(c, a) ==
    /\ caller[c].pc = "idle"
    /\ Return(c, a, IF entry[a] = "resolved" THEN "found" ELSE "failed")
    /\ UNCHANGED <<entry, asked>>

(* The first caller makes the entry, and sends the request unlocked        *)
Resolve(c, a) ==
    /\ caller[c].pc = "idle" /\ entry[a] # "resolved"
    /\ entry' = [entry EXCEPT ![a] = "pending"]
    /\ caller' = [caller EXCEPT ![c] = [pc |-> IF entry[a] = "none" THEN "send" ELSE "await",
                                        address |-> a, result |-> "none"]]
    /\ UNCHANGED asked

SendRequest(c) ==
    /\ caller[c].pc = "send"
    /\ asked' = asked \union {caller[c].address}
    /\ Goto(c, "await")
    /\ UNCHANGED entry

Await(c) == caller[c].pc = "await" /\ Goto(c, "waiting") /\ UNCHANGED <<entry, asked>>

Finish(c) ==
    Return(c, caller[c].address, IF entry[caller[c].address] = "resolved" THEN "found" ELSE "failed")

Woken(c) ==
    /\ caller[c].pc = "woken"
    /\ IF entry[caller[c].address] = "resolved" THEN Finish(c) ELSE Goto(c, "await")
    /\ UNCHANGED <<entry, asked>>

Timeout(c) ==
    /\ caller[c].pc \in {"await", "waiting"}
    /\ Finish(c)
    /\ UNCHANGED <<entry, asked>>

(* _rx_callback: a reply resolves an entry that is there, and wakes everyone *)
Reply(a) ==
    /\ a \in asked /\ entry[a] # "none"
    /\ entry' = [entry EXCEPT ![a] = "resolved"]
    /\ caller' = [c \in Callers |-> IF caller[c].pc = "waiting"
                                    THEN [caller[c] EXCEPT !.pc = "woken"] ELSE caller[c]]
    /\ UNCHANGED asked

Step(c) == SendRequest(c) \/ Await(c) \/ Woken(c) \/ Timeout(c)

Next ==
    \/ \E c \in Callers : Step(c) \/ \E a \in Addresses : ResolveNow(c, a) \/ Resolve(c, a)
    \/ \E a \in Addresses : Reply(a)

(* Threads run, and the timer of a call fires                              *)
Fairness == \A c \in Callers : WF_vars(Step(c)) /\ SF_vars(Timeout(c))

Spec == Init /\ [][Next]_vars /\ Fairness

-----------------------------------------------------------------------------
(* An entry that nobody resolved has been asked for, or is about to be: no *)
(* caller waits for a reply that cannot come.                              *)
PendingIsAsked ==
    \A a \in Addresses : entry[a] = "pending" =>
        a \in asked \/ \E c \in Callers : caller[c].pc = "send" /\ caller[c].address = a

(* Every call returns, also one whose reply came between the look at the   *)
(* entry and the wait, or never comes.                                     *)
Returned(c) == caller[c].pc = "idle"

CallsReturn == \A c \in Callers : []<>Returned(c)
=============================================================================
