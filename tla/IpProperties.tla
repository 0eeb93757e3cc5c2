---------------------------- MODULE IpProperties ----------------------------
(***************************************************************************)
(* What the network layers promise.                                        *)
(***************************************************************************)
EXTENDS IpStack

ArpMessage == [op : {"request", "reply"}, spa : Address, sha : Devices,
               tpa : Address]
Frame == [to : Devices \cup {Broadcast}, arp : ArpMessage \cup {None},
          packet : Packet \cup {NoPacket}]
Activity == [step : {"idle", "query", "segment", "push"},
             packet : Packet \cup {NoPacket},
             hop : Address \cup {None}, owner : BOOLEAN]

TypeOK ==
    /\ arp \in [Nodes -> ArpState]
    /\ wire \in [Devices -> Seq(Frame)]
    /\ \A d \in Devices : Len(wire[d]) <= WireCapacity
    /\ at \in [Threads -> Activity]
    /\ queue \in [Nodes -> Seq(Packet)]
    /\ \A n \in Nodes : Len(queue[n]) <= QueueCapacity
    /\ pushing \in [Nodes -> [by : Threads \cup {None},
                              packet : Packet \cup {NoPacket}]]
    /\ unsent \subseteq Sends
    /\ leaving \in [Nodes -> {"no", "joining", "tcp", "done"}]

\* Every device answers every request it sees, whoever it is for, and replies
\* that nobody waits for are kept as well; yet a cached address (which is never
\* looked up again: arp.h:12) is the one of the device that owns the IP address.
CacheIsTrue ==
    \A n \in Nodes, ip \in Address : arp[n].cache[ip] \in {ip, None}

\* The threads of node n that wait for the answer to their own request.
Owners(n, ip) ==
    {th \in Threads : /\ NodeOfThread(th) = n
                      /\ at[th].step = "query"
                      /\ at[th].hop = ip
                      /\ at[th].owner}

\* A request is outstanding for an address exactly while the thread that sent
\* it is waiting, unless it has been answered: however requests, replies and
\* timeouts of threads that share one follow each other, no later query waits
\* for a request that nobody will withdraw, and none is withdrawn by another.
RequestHasOwner ==
    \A n \in Nodes, ip \in Address :
        ~Cached(n, ip) => Owners(n, ip) = {arp[n].outstanding[ip]} \ {None}

NobodyLeaves == \A n \in Nodes : leaving[n] = "no"

AllIdle == \A th \in Threads : at[th] = Idle

NothingUnderWay ==
    /\ AllIdle
    /\ \A d \in Devices : wire[d] = <<>>
    /\ \A n \in Nodes : queue[n] = <<>> /\ pushing[n] = Nobody

\* Every packet is delivered or dropped in the end, also when tables that have
\* not settled send it in a circle, and when nobody has the address of the next
\* hop: the links become quiet once the applications have nothing to send
\* (pnx_ip.cc:246, arp.cc:104).
PacketsEnd == <>[](NothingUnderWay \/ ~NobodyLeaves)

\* No thread of the stack stays in ARPQuery, in tcp_segment_handler or in
\* ip_send_packet, not even when a node ends, though receiving threads wait
\* there for answers that they would have to receive, and for room that the
\* sending thread must make.
ThreadsReturn == <>[]AllIdle


\* The receiving thread that takes what arrives where thread d has asked.
Waits(d) == Route[NodeOf[d]][at[d].packet.dest].dev

\* pnx_ip.cc:125 "all sending task is forward to a new thread to prevent ARP
\* deadlock": no receiving threads wait in ARPQuery for replies that only they
\* could take.
NoArpDeadlock ==
    \A d \in Devices :
        at[d].step = "query" =>
            /\ Waits(d) # d
            /\ at[Waits(d)].step = "query" => Waits(Waits(d)) # d

=============================================================================
