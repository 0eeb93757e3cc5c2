------------------------------ MODULE IpStack ------------------------------
(***************************************************************************)
(* Nodes and their links: pnx_ip.cc over arp.cc over packetio.cc.          *)
(*                                                                         *)
(* A node has a receiving thread per device, which handles one frame at a  *)
(* time from beginning to end: it answers ARP requests, takes replies,     *)
(* hands packets up to TCP and forwards the others.  Packets of its own go *)
(* through ip_sending_buffer to a sending thread.  Forwarding and sending  *)
(* wait in ARPQuery.  TCP calls ip_send_packet with tcp_lock held, and     *)
(* stays in it while the buffer is full.                                   *)
(***************************************************************************)
EXTENDS Naturals, Sequences

CONSTANTS
    Nodes,
    Devices,
    NodeOf,         \* NodeOf[d]: the node that has device d
    Link,           \* Link[d]: the other devices on the link of d
    Strangers,      \* addresses no device has
    Route,          \* Route[n][ip]: what get_next_hop says, device and address
    InitialTtl,     \* 64
    QueueCapacity,  \* the size of ip_sending_buffer (100)
    WireCapacity,   \* the frames that wait for pcap_dispatch at a device
    Sends,          \* bound: the packets the applications send, once each
    Leavers,        \* bound: the nodes whose program ends
    None

\* The IP address of a device is the device.
Address == Devices \cup Strangers
Threads == Devices \cup Nodes

NoRoute == [dev |-> None, hop |-> None]

ASSUME IpAssumption ==
    /\ NodeOf \in [Devices -> Nodes]
    /\ Link \in [Devices -> SUBSET Devices]
    /\ Route \in [Nodes -> [Address -> [dev : Devices, hop : Address]
                                           \cup {NoRoute}]]
    /\ InitialTtl \in Nat \ {0} /\ QueueCapacity \in Nat \ {0}
    /\ WireCapacity \in Nat
    /\ Sends \subseteq Devices \X Address
    /\ Leavers \subseteq Nodes
    /\ None \notin Address \cup Nodes
    /\ Devices \cap Nodes = {}

VARIABLES
    arp,        \* cache_ and outstanding_requests_ of each node
    wire,       \* the frames that wait at each device
    at,         \* what each thread is doing: a node is its sending thread
    queue,      \* ip_sending_buffer
    pushing,    \* who is in ip_send_packet with tcp_lock, and with what
    unsent,     \* what the applications still send
    leaving     \* how far the clean-up at exit is

vars == <<arp, wire, at, queue, pushing, unsent, leaving>>

INSTANCE Arp WITH Device <- Devices, Thread <- Threads

Packet == [src : Devices, dest : Address, answer : BOOLEAN, ttl : 0..InitialTtl]
NoPacket == [src |-> None, dest |-> None, answer |-> FALSE, ttl |-> 0]

Doing(step, p, hop, owner) ==
    [step |-> step, packet |-> p, hop |-> hop, owner |-> owner]
Idle == Doing("idle", NoPacket, None, FALSE)
Pushing(who, p) == [by |-> who, packet |-> p]
Nobody == Pushing(None, NoPacket)

Init ==
    /\ arp = [n \in Nodes |-> ArpInit]
    /\ wire = [d \in Devices |-> <<>>]
    /\ at = [th \in Threads |-> Idle]
    /\ queue = [n \in Nodes |-> <<>>]
    /\ pushing = [n \in Nodes |-> Nobody]
    /\ unsent = Sends
    /\ leaving = [n \in Nodes |-> "no"]

NodeOfThread(th) == IF th \in Nodes THEN th ELSE NodeOf[th]

-----------------------------------------------------------------------------
(* Frames.                                                                 *)

IpFrame(to, p) == [to |-> to, arp |-> None, packet |-> p]
ArpFrame(to, a) == [to |-> to, arp |-> a, packet |-> NoPacket]
Broadcast == "all"

\* send_frame: the frame gets to where there is room for it, or is lost.  All
\* devices of the link get it, whoever it is for: devices are opened in
\* promiscuous mode, and frame_handler looks only at the protocol of a frame.
Sent(w, d, frame) ==
    {w, [x \in Devices |->
            IF x \in Link[d] /\ Len(w[x]) < WireCapacity
            THEN Append(w[x], frame) ELSE w[x]]}

-----------------------------------------------------------------------------
(* ARPQuery, and the frame that is sent when it succeeds.                  *)

\* Thread th has packet p for the next hop that the tables name.
Resolve(th, n, p, w) ==
    LET dev == Route[n][p.dest].dev
        hop == Route[n][p.dest].hop
    IN  \/ /\ Cached(n, hop)
           /\ wire' \in Sent(w, dev, IpFrame(arp[n].cache[hop], p))
           /\ at' = [at EXCEPT ![th] = Idle]
           /\ UNCHANGED arp
        \/ /\ Joins(n, hop)
           /\ at' = [at EXCEPT ![th] = Doing("query", p, hop, FALSE)]
           /\ wire' = w
           /\ UNCHANGED arp
        \/ /\ Asks(n, hop)
           /\ arp' = Asked(n, hop, th)
           /\ wire' \in Sent(w, dev, ArpFrame(Broadcast, Request(dev, dev, hop)))
           /\ at' = [at EXCEPT ![th] = Doing("query", p, hop, TRUE)]
        \/ \* send_frame fails
           /\ Asks(n, hop)
           /\ wire' = w
           /\ at' = [at EXCEPT ![th] = Idle]
           /\ UNCHANGED arp

\* The thread is woken, or its time is over and the address has come.
QueryAnswered(th) ==
    LET n == NodeOfThread(th)
        p == at[th].packet
    IN  /\ at[th].step = "query"
        /\ Cached(n, at[th].hop)
        /\ wire' \in Sent(wire, Route[n][p.dest].dev,
                          IpFrame(arp[n].cache[at[th].hop], p))
        /\ at' = [at EXCEPT ![th] = Idle]
        /\ UNCHANGED <<arp, queue, pushing, unsent, leaving>>

\* Mutant: a thread that waits for another's request waits without a timeout.
OwnerWaitsOnly(th) == at[th].step = "query" /\ at[th].owner

TimeIsOver(th) == at[th].step = "query"

\* kARPTimeout is over: the packet is dropped.
QueryTimedOut(th) ==
    LET n == NodeOfThread(th)
    IN  /\ TimeIsOver(th)
        /\ ~Cached(n, at[th].hop)
        /\ arp' = IF at[th].owner THEN Withdrawn(n, at[th].hop) ELSE arp
        /\ at' = [at EXCEPT ![th] = Idle]
        /\ UNCHANGED <<wire, queue, pushing, unsent, leaving>>

-----------------------------------------------------------------------------
(* The receiving thread of device d.                                       *)

\* A thread that has been told to stop may still handle the rest of what
\* pcap_dispatch has read.
Receives(d) ==
    /\ at[d] = Idle /\ wire[d] # <<>>
    /\ leaving[NodeOf[d]] \in {"no", "joining"}

Rest(d) == [wire EXCEPT ![d] = Tail(@)]

\* ARPHandler of a request: whatever address it asks for, d tells its own.
ReceiveRequest(d) ==
    LET request == Head(wire[d]).arp
    IN  /\ Receives(d)
        /\ request # None
        /\ request.op = "request"
        /\ wire' \in Sent(Rest(d), d,
                          ArpFrame(request.sha, Reply(d, d, request)))
        /\ UNCHANGED <<arp, at, queue, pushing, unsent, leaving>>

\* ARPHandler of a reply, asked for or not.
ReceiveReply(d) ==
    LET reply == Head(wire[d]).arp
    IN  /\ Receives(d)
        /\ reply # None
        /\ reply.op = "reply"
        /\ arp' = Replied(NodeOf[d], reply)
        /\ wire' = Rest(d)
        /\ UNCHANGED <<at, queue, pushing, unsent, leaving>>

\* Mutant: the TTL is looked at only.
HoppedNot(p) == p

Hopped(p) == [p EXCEPT !.ttl = @ - 1]

\* ip_packet_handler.
ReceivePacket(d) ==
    LET n == NodeOf[d]
        p == Head(wire[d]).packet
        dev == Route[n][p.dest].dev
    IN  /\ Receives(d)
        /\ Head(wire[d]).arp = None
        /\ CASE p.ttl = 0 \/ dev = None ->
                  wire' = Rest(d) /\ UNCHANGED <<arp, at>>
             [] p.ttl # 0 /\ dev # None /\ dev = p.dest ->
                  /\ at' = [at EXCEPT ![d] = Doing("segment", p, None, FALSE)]
                  /\ wire' = Rest(d)
                  /\ UNCHANGED arp
             [] OTHER ->
                  IF Hopped(p).ttl = 0
                  THEN wire' = Rest(d) /\ UNCHANGED <<arp, at>>
                  ELSE Resolve(d, n, Hopped(p), Rest(d))
        /\ UNCHANGED <<queue, pushing, unsent, leaving>>

Answer(p) == [src |-> p.dest, dest |-> p.src, answer |-> TRUE,
              ttl |-> InitialTtl]

\* tcp_segment_handler takes tcp_lock, and may send something back.
HandleSegment(d) ==
    LET n == NodeOf[d]
        p == at[d].packet
    IN  /\ at[d].step = "segment" /\ pushing[n] = Nobody
        /\ \/ /\ ~p.answer
              /\ pushing' = [pushing EXCEPT ![n] = Pushing(d, Answer(p))]
              /\ at' = [at EXCEPT ![d] = Doing("push", p, None, FALSE)]
           \/ /\ at' = [at EXCEPT ![d] = Idle]
              /\ UNCHANGED pushing
        /\ UNCHANGED <<arp, wire, queue, unsent, leaving>>

-----------------------------------------------------------------------------
(* ip_send_packet and the sending thread.                                  *)

\* A timer, or a call of the application, has something to send: also while the
\* clean-ups run, which ip_send_packet does not look at.
Transmit(n) ==
    /\ pushing[n] = Nobody
    /\ \E s \in unsent :
          /\ NodeOf[s[1]] = n
          /\ unsent' = unsent \ {s}
          /\ pushing' = [pushing EXCEPT ![n] =
                Pushing(n, [src |-> s[1], dest |-> s[2], answer |-> FALSE,
                            ttl |-> InitialTtl])]
    /\ UNCHANGED <<arp, wire, at, queue, leaving>>

\* Mutant: a buffer without a bound.
NeverFull(n) == FALSE

BufferFull(n) == Len(queue[n]) = QueueCapacity

\* ip_sending_buffer.push finds room; until then it is called again.
Push(n) ==
    LET who == pushing[n].by
    IN  /\ pushing[n] # Nobody
        /\ ~BufferFull(n)
        /\ queue' = [queue EXCEPT ![n] = Append(@, pushing[n].packet)]
        /\ pushing' = [pushing EXCEPT ![n] = Nobody]
        /\ at' = IF who \in Devices THEN [at EXCEPT ![who] = Idle] ELSE at
        /\ UNCHANGED <<arp, wire, unsent, leaving>>


\* What the loop of the sending thread looks at.
Stopped(n) == leaving[n] = "done"

\* "cannot find next hop"
Unroutable(n, p) == Route[n][p.dest].dev = None

\* The sending thread takes a packet: _ip_send_packet.
Pop(n) ==
    LET p == Head(queue[n])
    IN  /\ at[n] = Idle /\ queue[n] # <<>> /\ ~Stopped(n)
        /\ queue' = [queue EXCEPT ![n] = Tail(@)]
        /\ \/ /\ Unroutable(n, p)
              /\ UNCHANGED <<arp, wire, at>>
           \/ /\ ~Unroutable(n, p)
              /\ Resolve(n, n, p, wire)
        /\ UNCHANGED <<pushing, unsent, leaving>>

-----------------------------------------------------------------------------
(* exit(): the clean-ups of a node, by priority.                           *)

\* The receiving threads are told to stop, once pcap_dispatch returns.
Leave(n) ==
    /\ n \in Leavers /\ leaving[n] = "no"
    /\ leaving' = [leaving EXCEPT ![n] = "joining"]
    /\ UNCHANGED <<arp, wire, at, queue, pushing, unsent>>

\* They have been joined; TCP closes what is open.
LeaveLinks(n) ==
    /\ leaving[n] = "joining"
    /\ \A d \in Devices : NodeOf[d] = n => at[d] = Idle
    /\ leaving' = [leaving EXCEPT ![n] = "tcp"]
    /\ UNCHANGED <<arp, wire, at, queue, pushing, unsent>>

\* TCP has ended, and the sending thread is told to stop.
LeaveTcp(n) ==
    /\ leaving[n] = "tcp" /\ pushing[n] = Nobody
    /\ leaving' = [leaving EXCEPT ![n] = "done"]
    /\ UNCHANGED <<arp, wire, at, queue, pushing, unsent>>

-----------------------------------------------------------------------------

Taking(d) == ReceiveRequest(d) \/ ReceiveReply(d) \/ ReceivePacket(d)

Receiving(d) == Taking(d) \/ HandleSegment(d)

Querying(th) == QueryAnswered(th) \/ QueryTimedOut(th)

Leaving(n) == LeaveLinks(n) \/ LeaveTcp(n)

Next ==
    \/ \E d \in Devices : Receiving(d)
    \/ \E th \in Threads : Querying(th)
    \/ \E n \in Nodes : Transmit(n) \/ Push(n) \/ Pop(n) \/ Leave(n) \/ Leaving(n)

Spec == Init /\ [][Next]_vars

\* Every thread goes on, though one that has been told to stop need not take
\* another frame; waiting in ARPQuery ends at its timeout at last.
GoesOn(d) ==
    \/ leaving[NodeOf[d]] = "no" /\ Taking(d)
    \/ HandleSegment(d)
    \/ Querying(d)

FairSpec ==
    /\ Spec
    /\ \A d \in Devices : WF_vars(GoesOn(d))
    /\ \A n \in Nodes : /\ WF_vars(Pop(n) \/ Querying(n))
                       /\ WF_vars(Push(n))
                       /\ WF_vars(Leaving(n))

=============================================================================
