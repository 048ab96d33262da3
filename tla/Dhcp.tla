--------------------------------- MODULE Dhcp -------------------------------
(***************************************************************************)
(* The DHCP client (module/net_dhcp/dhcp.c): the rx thread that handles    *)
(* replies and the timeout timer, a thread that asks for a negotiation,    *)
(* and servers (external) over a network that loses, duplicates, delays    *)
(* and reorders messages.  A reply counts only with the current xid, and   *)
(* xid only grows: of a message it is enough to know whether it is current. *)
(***************************************************************************)
EXTENDS Integers, FiniteSets

CONSTANTS Servers, Addresses, MaxNegotiations

VARIABLES
    client,     \* the static variables of dhcp.c, and the timer
    info,       \* net_info: the address, and how often its lists were extended
    sent,       \* messages of the client that a server may still receive
    net,        \* replies to the current xid, which may be delivered again
    lease,      \* external: the address every server has leased to the client
    negotiation \* net_dhcp_negotiate_address: its thread and how often it ran

vars == <<client, info, sent, net, lease, negotiation>>

NoAddress == 0

(* The timer is created disarmed; the preferred address is what the last   *)
(* boot stored                                                             *)
Init ==
    /\ \E preferred \in Addresses \union {NoAddress} :
          client = [offer |-> NoAddress, server |-> 0, preferred |-> preferred,
                    timer |-> "off", request |-> "none"]
    /\ info = [address |-> NoAddress, lists |-> 0]
    /\ sent = {} /\ net = {}
    /\ lease = [s \in Servers |-> NoAddress]
    /\ negotiation = [pc |-> "idle", count |-> 0]

(* _create_packet takes a new xid: what was sent or answered before it is  *)
(* no longer current, and only a request can still have an effect.         *)
(* _send_packet starts the timeout.                                        *)
Old == {[m EXCEPT !.current = FALSE] : m \in {n \in sent : n.type = "request"}}

Send(type, address, server) ==
    /\ sent' = Old \union {[type |-> type, address |-> address,
                            server |-> server, current |-> TRUE]}
    /\ net' = {}

(* Faulty variant: no timeout is started.                                  *)
_send_discover_request_untimed ==
    /\ Send("discover", client.preferred, 0)
    /\ client' = [client EXCEPT !.offer = NoAddress, !.server = 0,
                                !.timer = "off", !.request = "none"]

_send_discover_request ==
    /\ Send("discover", client.preferred, 0)
    /\ client' = [client EXCEPT !.offer = NoAddress, !.server = 0,
                                !.timer = "armed", !.request = "none"]

net_info_reset == info' = [address |-> NoAddress, lists |-> 0]

-----------------------------------------------------------------------------
(* _rx_thread, when event_await returns the timer: a lease that expired    *)
(* takes the address with it                                               *)
Timeout ==
    /\ client.timer = "due"
    /\ IF info.address # NoAddress THEN net_info_reset ELSE UNCHANGED info
    /\ _send_discover_request
    /\ UNCHANGED <<lease, negotiation>>

Offer(m) ==
    /\ m.type = "offer"
    /\ client' = [client EXCEPT !.offer = m.address, !.server = m.server,
                                !.timer = "armed", !.request = "sent"]
    /\ Send("request", m.address, m.server)
    /\ UNCHANGED info

(* Faulty variants: any server may acknowledge; the xid stays the same.    *)
AckOfAnyServer(m) ==
    /\ m.type = "ack"
    /\ info' = [address |-> client.offer, lists |-> info.lists + 1]
    /\ client' = [client EXCEPT !.preferred = client.offer, !.timer = "armed",
                                !.request = "answered"]
    /\ net' = {} /\ sent' = Old

AckKeepingXid(m) ==
    /\ m.type = "ack"
    /\ m.address = client.offer /\ m.server = client.server
    /\ info' = [address |-> client.offer, lists |-> info.lists + 1]
    /\ client' = [client EXCEPT !.preferred = client.offer, !.timer = "armed",
                                !.request = "answered"]
    /\ UNCHANGED <<net, sent>>

(* The xid is increased without a packet: no other reply is current.  The  *)
(* timer is first stopped and at the end set to the lease.                 *)
Ack(m) ==
    /\ m.type = "ack"
    /\ m.address = client.offer /\ m.server = client.server
    /\ info' = [address |-> client.offer, lists |-> info.lists + 1]
    /\ client' = [client EXCEPT !.preferred = client.offer, !.timer = "armed",
                                !.request = "answered"]
    /\ net' = {} /\ sent' = Old

WrongServer(m) ==
    /\ m.type = "ack"
    /\ m.address # client.offer \/ m.server # client.server
    /\ UNCHANGED <<client, info, sent, net>>

Nak(m) ==
    /\ m.type = "nak"
    /\ _send_discover_request
    /\ UNCHANGED info

(* _rx_thread with a packet; the lock keeps net_dhcp_negotiate_address off *)
Receive(m) ==
    /\ m \in net
    /\ Offer(m) \/ Ack(m) \/ WrongServer(m) \/ Nak(m)
    /\ UNCHANGED <<lease, negotiation>>

(* net_dhcp_negotiate_address, called when the module starts and later on  *)
(* request, resets before it takes the lock                                *)
NegotiateReset ==
    /\ negotiation.pc = "idle" /\ negotiation.count < MaxNegotiations
    /\ net_info_reset
    /\ negotiation' = [pc |-> "lock", count |-> negotiation.count + 1]
    /\ UNCHANGED <<client, sent, net, lease>>

NegotiateSend ==
    /\ negotiation.pc = "lock"
    /\ _send_discover_request
    /\ negotiation' = [negotiation EXCEPT !.pc = "idle"]
    /\ UNCHANGED <<info, lease>>

-----------------------------------------------------------------------------
(* External: the timer fires, a server receives a message                  *)
Expire ==
    /\ client.timer = "armed"
    /\ client' = [client EXCEPT !.timer = "due"]
    /\ UNCHANGED <<info, sent, net, lease, negotiation>>

Reply(m, type, address, server) ==
    net' = IF m.current
           THEN net \union {[type |-> type, address |-> address, server |-> server]}
           ELSE net

Free(s, a) == \A t \in Servers \ {s} : lease[t] # a

ServeDiscover(s, m, a) ==
    /\ m.type = "discover" /\ Free(s, a)
    /\ m.address \in Addresses /\ Free(s, m.address) => a = m.address
    /\ Reply(m, "offer", a, s)
    /\ UNCHANGED lease

(* A request names one server, which leases the address if it is free; it  *)
(* grants an older request only what the client has                        *)
ServeRequest(s, m) ==
    /\ m.type = "request" /\ m.server = s
    /\ IF Free(s, m.address) /\ (m.current \/ lease[s] = m.address)
       THEN lease' = [lease EXCEPT ![s] = m.address] /\ Reply(m, "ack", m.address, s)
       ELSE UNCHANGED lease /\ Reply(m, "nak", NoAddress, s)

(* A server that was not named answers for an address it leased before     *)
ServeMistaken(s, m) ==
    /\ m.type = "request" /\ m.server # s /\ lease[s] # NoAddress
    /\ Reply(m, "ack", lease[s], s)
    /\ UNCHANGED lease

(* A lease outlasts the client's timer, which is a second early            *)
ServerExpire(s) ==
    /\ lease[s] \notin {NoAddress, info.address}
    /\ client.request # "sent"
    /\ lease' = [lease EXCEPT ![s] = NoAddress]
    /\ UNCHANGED net

Serve ==
    /\ \E s \in Servers : \/ \E m \in sent : \/ \E a \in Addresses : ServeDiscover(s, m, a)
                                            \/ ServeRequest(s, m) \/ ServeMistaken(s, m)
                          \/ ServerExpire(s)
    /\ UNCHANGED <<client, info, sent, negotiation>>

Lose(m) == m \in sent /\ sent' = sent \ {m} /\ UNCHANGED <<client, info, net, lease, negotiation>>

Next ==
    \/ Timeout \/ Expire \/ Serve \/ NegotiateReset \/ NegotiateSend
    \/ \E m \in net : Receive(m)
    \/ \E m \in sent : Lose(m)

Start == negotiation.count = 0 /\ NegotiateReset
ReceiveOffer == \E m \in net : m.type = "offer" /\ Receive(m)
ReceiveAck == \E m \in net : Ack(m) /\ Receive(m)
AnswerOffer == Serve /\ \E m \in net' \ net : m.type = "offer"
AnswerAck == Serve /\ \E m \in net' \ net : m.type = "ack" /\ m.server = client.server

(* The module starts, its rx thread runs and the timer fires; a server     *)
(* that again and again can answer the current message does, and its       *)
(* answer is again and again delivered before the timeout                  *)
Fairness ==
    /\ WF_vars(Start \/ NegotiateSend) /\ WF_vars(Timeout \/ Expire)
    /\ SF_vars(ReceiveOffer) /\ SF_vars(ReceiveAck)
    /\ SF_vars(AnswerOffer) /\ SF_vars(AnswerAck)

Spec == Init /\ [][Next]_vars /\ Fairness

-----------------------------------------------------------------------------
(* The client's address is one that a server leased to it: an ACK that is  *)
(* late, repeated or of a server that was not chosen never configures it.  *)
AddressIsLeased == info.address # NoAddress => \E s \in Servers : lease[s] = info.address

(* "Ignore any subsequent DHCPACK/DHCPNAK messages" (dhcp.c:216): of the   *)
(* replies to one request one is applied, whatever is delivered again.     *)
AppliedOnce == [][info'.lists > info.lists => client.request = "sent"]_vars

(* However often messages are lost and timeouts start it over, the client  *)
(* has an address again and again.                                         *)
HasAddress == info.address # NoAddress

Configured == []<>HasAddress
=============================================================================
