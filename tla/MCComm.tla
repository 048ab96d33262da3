------------------------------- MODULE MCComm -------------------------------
(* Communication on small instances: the pipe with two readers and two      *)
(* writers, a notification dispatcher with two senders and one consumer,   *)
(* and the clients of three network protocols: DHCP with two servers and   *)
(* addresses, DNS with two names of one key, ARP with two addresses.       *)
(* Below them the rings that drivers share with devices: NVMe with two     *)
(* threads, VirtIO with two queues, and the receive ring of the i82540.    *)
(* `part` says which of them a behaviour is about; the others stay in      *)
(* their initial states.                                                   *)
EXTENDS Pipe

CONSTANTS r1, r2, w1, w2, None

VARIABLES part,
    listed, nsent, rc, lock, consumers, todo, event, consumer, freed,
    client, info, dsent, dnet, lease, negotiation,
    cache, nextId, requests, responses, resolver,
    entry, asked, caller,
    nlock, nqueue, completion, doorbell, npc, ndevice,
    queue, available, used, active, vpc, irq, vdevice,
    rdh, rdt, icr, desc, ractive, rpc, tail, arrived, paced, kept, delivered

TwoReaders == {r1, r2}
TwoWriters == {w1, w2}

Notification == INSTANCE Notification WITH
    Dispatchers <- {w1, w2}, Consumers <- {r1}, MaxNotifications <- 4, sent <- nsent
notificationVars == <<listed, nsent, rc, lock, consumers, todo, event, consumer, freed>>

Dhcp == INSTANCE Dhcp WITH
    Servers <- {1, 2}, Addresses <- {1, 2}, MaxNegotiations <- 2, sent <- dsent, net <- dnet
dhcpVars == <<client, info, dsent, dnet, lease, negotiation>>

\* All names have the same length and hash.
OneKey(name) == 1
Dns == INSTANCE Dns WITH
    Names <- {"a", "b"}, Oversized <- {}, Key <- OneKey, Callers <- {r1, r2}, IdCount <- 2,
    net <- responses, caller <- resolver
dnsVars == <<cache, nextId, requests, responses, resolver>>

Arp == INSTANCE Arp WITH Addresses <- {1, 2}, Callers <- {r1, r2}
arpVars == <<entry, asked, caller>>

Nvme == INSTANCE Nvme WITH
    Threads <- {r1, r2}, QueueLength <- 4, lock <- nlock, queue <- nqueue, pc <- npc, device <- ndevice
nvmeVars == <<nlock, nqueue, completion, doorbell, npc, ndevice>>

Virtio == INSTANCE Virtio WITH
    Queues <- {r1, r2}, Size <- 2, IndexLimit <- 2, Chains <- {1}, pc <- vpc, device <- vdevice
virtioVars == <<queue, available, used, active, vpc, irq, vdevice>>

I82540 == INSTANCE I82540 WITH Count <- 4, MaxFrames <- 6, active <- ractive, pc <- rpc
nicVars == <<rdh, rdt, icr, desc, ractive, rpc, tail, arrived, paced, kept, delivered>>

deviceVars == <<nvmeVars, virtioVars, nicVars>>
mcvars == <<part, vars, notificationVars, dhcpVars, dnsVars, arpVars, deviceVars>>

MCInit ==
    /\ part \in {"pipe", "notification", "dhcp", "dns", "arp", "nvme", "virtio", "nic"}
    /\ Init /\ Notification!Init /\ Dhcp!Init /\ Dns!Init /\ Arp!Init
    /\ Nvme!Init /\ Virtio!Init /\ I82540!Init /\ (part # "nic" => paced)
    /\ client.preferred = 1

PipeStep(A) == part = "pipe" /\ A
               /\ UNCHANGED <<part, notificationVars, dhcpVars, dnsVars, arpVars, deviceVars>>
NotificationStep(A) == part = "notification" /\ A
                       /\ UNCHANGED <<part, vars, dhcpVars, dnsVars, arpVars, deviceVars>>
DhcpStep(A) == part = "dhcp" /\ A
               /\ UNCHANGED <<part, vars, notificationVars, dnsVars, arpVars, deviceVars>>
DnsStep(A) == part = "dns" /\ A
              /\ UNCHANGED <<part, vars, notificationVars, dhcpVars, arpVars, deviceVars>>
ArpStep(A) == part = "arp" /\ A
              /\ UNCHANGED <<part, vars, notificationVars, dhcpVars, dnsVars, deviceVars>>
protocolVars == <<part, vars, notificationVars, dhcpVars, dnsVars, arpVars>>
NvmeStep(A) == part = "nvme" /\ A /\ UNCHANGED <<protocolVars, virtioVars, nicVars>>
VirtioStep(A) == part = "virtio" /\ A /\ UNCHANGED <<protocolVars, nvmeVars, nicVars>>
NicStep(A) == part = "nic" /\ A /\ UNCHANGED <<protocolVars, nvmeVars, virtioVars>>

MCNext ==
    \/ PipeStep(Next) \/ NotificationStep(Notification!Next)
    \/ DhcpStep(Dhcp!Next) \/ DnsStep(Dns!Next) \/ ArpStep(Arp!Next)
    \/ NvmeStep(Nvme!Next) \/ VirtioStep(Virtio!Next) \/ NicStep(I82540!Next)

(* The fairness of the parts.  As a behaviour is about one part only, the  *)
(* fairness of one action of every part is stated together.                *)
WriterStep(t) ==
    \/ PipeStep(Proceed(t)) \/ NotificationStep(Notification!Dispatch(t))
    \/ t = w1 /\ DhcpStep(Dhcp!Start \/ Dhcp!NegotiateSend)
    \/ t = w2 /\ DhcpStep(Dhcp!Timeout \/ Dhcp!Expire)
    \/ t = w1 /\ (NvmeStep(Nvme!DeviceStep) \/ VirtioStep(Virtio!IrqHandler) \/ NicStep(I82540!RxThread))

CallerStep(t) ==
    \/ PipeStep(Call(t))
    \/ t = r1 /\ NotificationStep(Notification!Consume(t))
    \/ DnsStep(Dns!Step(t)) \/ ArpStep(Arp!Step(t)) \/ VirtioStep(Virtio!Proceed(t))

TimeoutStep(t) ==
    \/ PipeStep(Proceed(t))
    \/ DnsStep(Dns!Timeout(t)) \/ ArpStep(Arp!Timeout(t))
    \/ NvmeStep(Nvme!Proceed(t)) \/ VirtioStep(Virtio!Answer(t))
    \/ t = r1 /\ DhcpStep(Dhcp!ReceiveOffer)
    \/ t = r2 /\ DhcpStep(Dhcp!ReceiveAck)

MCFairness ==
    /\ \A t \in Writers : WF_mcvars(WriterStep(t))
    /\ \A t \in Readers : WF_mcvars(CallerStep(t)) /\ SF_mcvars(TimeoutStep(t))
    /\ SF_mcvars(DhcpStep(Dhcp!AnswerOffer)) /\ SF_mcvars(DhcpStep(Dhcp!AnswerAck))

MCSpec == MCInit /\ [][MCNext]_mcvars /\ MCFairness

(* What is received is what was sent, in order, none lost and none twice:  *)
(* the bytes of a pipe (pipe.c), and notifications, whose containers are   *)
(* freed once they are read and not before (notification.c); the end of a  *)
(* pipe is read only when nothing more can come (pipe.c, EofIsFinal).  The *)
(* frames that the i82540 driver delivers are in order and none comes      *)
(* twice.                                                                  *)
ReceivedInOrder ==
    /\ InOrder /\ EofIsFinal /\ Notification!InOrder /\ Notification!ReadIsFreed
    /\ I82540!FramesInOrder

(* Nobody sleeps while there is work for it and nobody about to wake it    *)
(* (the events of pipe.c and notification.c).                              *)
NobodySleepsOverWork == NoSleepOverWork /\ Notification!NoSleepOverWork

(* What was sent reaches the readers of a pipe and of a notification       *)
(* dispatcher, and frames that come one by one reach the network layer:    *)
(* again and again nothing is left.                                        *)
AllDelivered == []<>(NothingLeft /\ Notification!NothingLeft /\ I82540!NothingLeft)

(* The client's address is one that a DHCP server leased to it, whatever   *)
(* is late, repeated or of another server (dhcp.c, _rx_thread).            *)
AddressIsLeased == Dhcp!AddressIsLeased

(* Of the replies to one DHCP request one is applied (dhcp.c:216).         *)
AppliedOnce == Dhcp!AppliedOnce

(* A DNS lookup neither stores nor has the answer to another one, and the  *)
(* requests in the tree are those that are awaited (dns.c); an address     *)
(* that ARP has marked pending was asked for or is about to be (arp.c).    *)
(* An NVMe call returns with its own command done (nvme/device.c), and     *)
(* virtio_queue_pop takes the answer to the request just made (virtio.c).  *)
AnswersAreRight ==
    /\ Dns!AnswersAreRight /\ Dns!RequestsAreAwaited /\ Arp!PendingIsAsked
    /\ Nvme!OwnCommandIsDone /\ Nvme!EntriesAreFetched /\ Virtio!PopIsOfRequest

(* The DHCP client has an address again and again, however often messages  *)
(* are lost; every DNS lookup and every ARP call returns, answered or not. *)
(* Every VirtIO transfer ends, and every NVMe call unless another one has  *)
(* found the queue full with the lock in hand.                             *)
RequestsEnd ==
    \A t \in Readers : []<>(/\ Dns!Returned(t) /\ Arp!Returned(t)
                            /\ Nvme!Returned(t) /\ Virtio!Returned(t)
                            /\ part = "dhcp" => Dhcp!HasAddress)
=============================================================================
