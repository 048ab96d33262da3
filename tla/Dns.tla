--------------------------------- MODULE Dns --------------------------------
(***************************************************************************)
(* The DNS resolver (module/net_dns/dns.c): a cache of answers, requests   *)
(* by a 16-bit id that is reused, a thread that applies responses to the   *)
(* request with their id, and callers that wait for it or for the timeout. *)
(* The server and the network, which loses, delays and duplicates, are     *)
(* external; a message is gone when its id comes round again.              *)
(***************************************************************************)
EXTENDS Integers, FiniteSets

CONSTANTS
    Names,
    Oversized,      \* names whose query does not fit in a packet
    Key(_),         \* of a name: its length and hash, the key in the cache
    Callers,
    IdCount         \* 2^16: values of _net_dns_request_id

VARIABLES
    cache,      \* by key: the name, whose address it is, and whether it is valid
    nextId,     \* _net_dns_request_id
    requests,   \* _net_dns_request_tree: by id, whose address was received
    net,        \* responses that may be delivered: an id and a name
    caller      \* every thread in net_dns_lookup_name

vars == <<cache, nextId, requests, net, caller>>

NoName == "none"
Idle == [pc |-> "idle", name |-> NoName, id |-> 0, answer |-> NoName]

Init ==
    /\ cache = <<>> /\ requests = <<>>
    /\ nextId = 0 /\ net = {}
    /\ caller = [c \in Callers |-> Idle]

Restricted(f, S) == [x \in S |-> f[x]]
Extended(f, x, v) == [y \in DOMAIN f \union {x} |-> IF y = x THEN v ELSE f[y]]
Goto(c, pc) == caller' = [caller EXCEPT ![c].pc = pc]
Return(c) == caller' = [caller EXCEPT ![c] = Idle]

(* The cache: a valid entry of this very name answers, any other entry at  *)
(* its key is removed; a caller that may not block, or knows no server,    *)
(* then gets nothing                                                       *)
Hit(n) ==
    /\ Key(n) \in DOMAIN cache
    /\ cache[Key(n)].valid /\ cache[Key(n)].name = n

Lookup(c, n, blocks) ==
    /\ caller[c].pc = "idle" /\ ~Hit(n)
    /\ caller' = [caller EXCEPT ![c] = IF blocks THEN [Idle EXCEPT !.pc = "request", !.name = n]
                                       ELSE Idle]
    /\ cache' = Restricted(cache, DOMAIN cache \ {Key(n)})
    /\ UNCHANGED <<nextId, requests, net>>

(* Faulty variant: an id that is used is taken all the same.               *)
NewRequestUnchecked(c) ==
    /\ caller[c].pc = "request"
    /\ requests' = Extended(requests, nextId, NoName)
    /\ nextId' = (nextId + 1) % IdCount
    /\ caller' = [caller EXCEPT ![c].pc = "await", ![c].id = nextId]
    /\ net' = {m \in net : m.id # nextId} \union {[id |-> nextId, name |-> caller[c].name]}
    /\ UNCHANGED cache

(* The id is free: the request enters the tree and the query is sent; one  *)
(* that is too large returns and leaves its request behind                 *)
NewRequest(c) ==
    /\ caller[c].pc = "request" /\ nextId \notin DOMAIN requests
    /\ requests' = Extended(requests, nextId, NoName)
    /\ nextId' = (nextId + 1) % IdCount
    /\ IF caller[c].name \in Oversized
       THEN Return(c) /\ net' = {m \in net : m.id # nextId}
       ELSE /\ caller' = [caller EXCEPT ![c].pc = "await", ![c].id = nextId]
            /\ net' = {m \in net : m.id # nextId} \union {[id |-> nextId, name |-> caller[c].name]}
    /\ UNCHANGED cache

IdIsUsed(c) ==
    /\ caller[c].pc = "request" /\ nextId \in DOMAIN requests
    /\ Return(c)
    /\ UNCHANGED <<cache, nextId, requests, net>>

(* event_await on the timer and on the event that all requests share       *)
Await(c) ==
    /\ caller[c].pc = "await" /\ Goto(c, "waiting")
    /\ UNCHANGED <<cache, nextId, requests, net>>

Woken(c) ==
    /\ caller[c].pc = "woken"
    /\ Goto(c, IF requests[caller[c].id] = NoName THEN "await" ELSE "remove")
    /\ UNCHANGED <<cache, nextId, requests, net>>

Timeout(c) ==
    /\ caller[c].pc \in {"await", "waiting"}
    /\ Goto(c, "remove")
    /\ UNCHANGED <<cache, nextId, requests, net>>

(* The request leaves the tree; what it received is returned ...           *)
Remove(c) ==
    /\ caller[c].pc = "remove"
    /\ LET answer == requests[caller[c].id]
       IN  IF answer = NoName THEN Return(c)
           ELSE caller' = [caller EXCEPT ![c].pc = "store", ![c].answer = answer]
    /\ requests' = Restricted(requests, DOMAIN requests \ {caller[c].id})
    /\ UNCHANGED <<cache, nextId, net>>

(* ... and enters the cache, unless its time to live is zero               *)
Store(c, ttl) ==
    /\ caller[c].pc = "store"
    /\ cache' = IF ttl = 0 THEN cache
                ELSE Extended(cache, Key(caller[c].name),
                              [name |-> caller[c].name, address |-> caller[c].answer, valid |-> TRUE])
    /\ Return(c)
    /\ UNCHANGED <<nextId, requests, net>>

(* _rx_thread: the response is matched by its id alone, and wakes everyone *)
Receive(m) ==
    /\ m.id \in DOMAIN requests
    /\ requests' = [requests EXCEPT ![m.id] = m.name]
    /\ caller' = [c \in Callers |-> IF caller[c].pc = "waiting"
                                    THEN [caller[c] EXCEPT !.pc = "woken"] ELSE caller[c]]
    /\ UNCHANGED <<cache, nextId, net>>

(* _cache_cleanup_thread, and time that makes an entry invalid             *)
Expire(k) ==
    /\ cache' = [cache EXCEPT ![k].valid = FALSE]
    /\ UNCHANGED <<nextId, requests, net, caller>>

_cache_cleanup_thread ==
    /\ cache' = Restricted(cache, {k \in DOMAIN cache : cache[k].valid})
    /\ UNCHANGED <<nextId, requests, net, caller>>

Step(c) ==
    \/ NewRequest(c) \/ IdIsUsed(c) \/ Await(c) \/ Woken(c) \/ Timeout(c) \/ Remove(c)
    \/ \E ttl \in {0, 1} : Store(c, ttl)

Next ==
    \/ \E c \in Callers : Step(c) \/ \E n \in Names, blocks \in BOOLEAN : Lookup(c, n, blocks)
    \/ \E m \in net : Receive(m)
    \/ \E k \in DOMAIN cache : Expire(k)
    \/ _cache_cleanup_thread

(* Threads run and the timer of a lookup fires                             *)
Fairness == \A c \in Callers : WF_vars(Step(c)) /\ SF_vars(Timeout(c))

Spec == Init /\ [][Next]_vars /\ Fairness

-----------------------------------------------------------------------------
(* No lookup stores or has the answer to another one, although a response  *)
(* is matched by a reused id and may come late, twice or after a timeout.  *)
AnswersAreRight ==
    /\ \A k \in DOMAIN cache : cache[k].address = cache[k].name
    /\ \A c \in Callers : caller[c].pc = "store" => caller[c].answer = caller[c].name

(* The requests in the tree are those of the callers that wait for them,   *)
(* every caller with an id of its own, and those of oversized queries.     *)
RequestsAreAwaited ==
    LET waiting == {c \in Callers : caller[c].pc \in {"await", "waiting", "woken", "remove"}}
    IN  /\ \A c, d \in waiting : caller[c].id = caller[d].id => c = d
        /\ {caller[c].id : c \in waiting} \subseteq DOMAIN requests
        /\ Oversized = {} => DOMAIN requests = {caller[c].id : c \in waiting}

(* Every lookup returns, answered or not.                                  *)
Returned(c) == caller[c].pc = "idle"

LookupsReturn == \A c \in Callers : []<>Returned(c)
=============================================================================
