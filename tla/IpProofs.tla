------------------------------ MODULE IpProofs ------------------------------
(***************************************************************************)
(* Proofs about the network layers, for every network, all tables and all  *)
(* capacities: types, and what ARP keeps.                                  *)
(***************************************************************************)
EXTENDS IpProperties, SequenceTheorems, TLAPS

USE IpAssumption

\* What is said in an ARP message of its sender is true.
TrueFrame == {f \in Frame : f.arp # None => f.arp.spa = f.arp.sha}

WireOK(w) == /\ w \in [Devices -> Seq(TrueFrame)]
             /\ \A d \in Devices : Len(w[d]) <= WireCapacity

\* A segment that is handed up is for a device, and a query is for an address.
ActivityOK ==
    \A th \in Threads :
        /\ at[th].step = "segment" => /\ at[th].packet \in Packet
                                      /\ at[th].packet.dest \in Devices
        /\ at[th].step = "query" => at[th].hop \in Address

\* What ARP and the threads must be after a step.
ArpOK == /\ arp \in [Nodes -> ArpState]
         /\ at \in [Threads -> Activity]
         /\ ActivityOK
         /\ CacheIsTrue
         /\ RequestHasOwner

\* The packets of a node's own.
PushingOK == /\ pushing \in [Nodes -> [by : Threads \cup {None},
                                       packet : Packet \cup {NoPacket}]]
             /\ \A n \in Nodes : \/ pushing[n] = Nobody
                                 \/ pushing[n].packet \in Packet
\* A receiving thread that is in ip_send_packet is in its node's.
PushersOK == \A n \in Nodes, d \in Devices :
                pushing[n].by = d => NodeOf[d] = n /\ at[d].step = "push"
QueueOK == /\ queue \in [Nodes -> Seq(Packet)]
           /\ \A n \in Nodes : Len(queue[n]) <= QueueCapacity
BoundsOK == /\ unsent \subseteq Sends
            /\ leaving \in [Nodes -> {"no", "joining", "tcp", "done"}]

IInv == WireOK(wire) /\ ArpOK /\ PushingOK /\ PushersOK /\ QueueOK /\ BoundsOK

\* A step of thread th.
OthersStay(th) == \A x \in Threads : x # th => at'[x] = at[x]

-----------------------------------------------------------------------------
(* Frames.                                                                 *)

\* A frame is appended to some of the queues that have room.
LEMMA WireSent ==
    ASSUME NEW w, WireOK(w), NEW d, NEW f \in TrueFrame,
           NEW v \in Sent(w, d, f)
    PROVE  WireOK(v)
  <1>1. CASE v = w
    BY <1>1
  <1>2. CASE v = [x \in Devices |->
                     IF x \in Link[d] /\ Len(w[x]) < WireCapacity
                     THEN Append(w[x], f) ELSE w[x]]
    <2>1. ASSUME NEW x \in Devices
          PROVE  v[x] \in Seq(TrueFrame) /\ Len(v[x]) <= WireCapacity
      <3>1. w[x] \in Seq(TrueFrame) /\ Len(w[x]) <= WireCapacity
        BY DEF WireOK
      <3>2. CASE v[x] = w[x]
        BY <3>1, <3>2
      <3>3. CASE v[x] = Append(w[x], f) /\ Len(w[x]) < WireCapacity
        <4>1. Append(w[x], f) \in Seq(TrueFrame)
              /\ Len(Append(w[x], f)) = Len(w[x]) + 1
          BY <3>1, AppendProperties
        <4> QED BY <4>1, <3>1, <3>3, LenProperties
      <3> QED BY <1>2, <3>2, <3>3
    <2> QED BY <1>2, <2>1 DEF WireOK
  <1> QED BY <1>1, <1>2 DEF Sent

\* A frame is taken from a queue.
LEMMA WireRest ==
    ASSUME WireOK(wire), NEW d \in Devices, wire[d] # <<>>
    PROVE  WireOK(Rest(d)) /\ Head(wire[d]) \in TrueFrame
  <1>1. wire[d] \in Seq(TrueFrame)
    BY DEF WireOK
  <1>2. /\ Head(wire[d]) \in TrueFrame
        /\ Tail(wire[d]) \in Seq(TrueFrame)
        /\ Len(Tail(wire[d])) = Len(wire[d]) - 1
    BY <1>1, HeadTailProperties
  <1> QED BY <1>1, <1>2, LenProperties DEF WireOK, Rest

LEMMA FrameTypes ==
    /\ \A to \in Devices, p \in Packet \cup {NoPacket} :
          IpFrame(to, p) \in TrueFrame
    /\ \A dev \in Devices, to \in Devices \cup {Broadcast}, hop \in Address :
          /\ ArpFrame(to, Request(dev, dev, hop)) \in TrueFrame
          /\ \A f \in TrueFrame :
                f.arp # None => ArpFrame(to, Reply(dev, dev, f.arp)) \in TrueFrame
  BY DEF IpFrame, ArpFrame, TrueFrame, Frame, Request, Reply, ArpMessage, Address

-----------------------------------------------------------------------------
(* ARPQuery.                                                               *)

LEMMA ThreadNode == \A th \in Threads : NodeOfThread(th) \in Nodes
  BY DEF NodeOfThread, Threads

LEMMA IdleType == Idle \in Activity
  BY DEF Idle, Doing, Activity

LEMMA QueryType ==
    ASSUME NEW p \in Packet, NEW hop \in Address, NEW owner \in BOOLEAN
    PROVE  Doing("query", p, hop, owner) \in Activity
  BY DEF Doing, Activity

\* A cached address is a device.
LEMMA CachedDevice ==
    ASSUME arp \in [Nodes -> ArpState], NEW n \in Nodes, NEW ip \in Address,
           Cached(n, ip)
    PROVE  arp[n].cache[ip] \in Devices
  BY DEF ArpState, Cached

\* The effect of one entry of outstanding_requests_.
LEMMA OutstandingSet ==
    ASSUME arp \in [Nodes -> ArpState], NEW n \in Nodes, NEW hop \in Address,
           NEW th \in Threads \cup {None},
           arp' = Asked(n, hop, th)
    PROVE  /\ arp' \in [Nodes -> ArpState]
           /\ \A m \in Nodes : arp'[m].cache = arp[m].cache
           /\ arp'[n].outstanding[hop] = th
           /\ \A m \in Nodes, ip \in Address :
                 ~(m = n /\ ip = hop) =>
                     arp'[m].outstanding[ip] = arp[m].outstanding[ip]
  <1> DEFINE out == [arp[n].outstanding EXCEPT ![hop] = th]
             of == [arp[n] EXCEPT !.outstanding = out]
  <1>1. arp[n] \in ArpState
    OBVIOUS
  <1>2. out \in [Address -> Threads \cup {None}]
    BY <1>1 DEF ArpState
  <1>3. /\ of \in ArpState
        /\ of.cache = arp[n].cache
        /\ of.outstanding = out
    BY <1>1, <1>2 DEF ArpState
  <1>4. arp' = [arp EXCEPT ![n] = of]
    BY DEF Asked
  <1>5. /\ out[hop] = th
        /\ \A ip \in Address : ip # hop => out[ip] = arp[n].outstanding[ip]
    BY <1>1 DEF ArpState
  <1> HIDE DEF out, of
  <1>6. arp'[n] = of /\ \A m \in Nodes : m # n => arp'[m] = arp[m]
    BY <1>4
  <1> QED BY <1>3, <1>4, <1>5, <1>6

\* A thread that does not wait for its own request neither before nor after a
\* step makes no difference to the owners of requests.
LEMMA OwnersStay ==
    ASSUME ArpOK, arp' = arp, NEW th \in Threads, NEW now \in Activity,
           at' = [at EXCEPT ![th] = now],
           ~(at[th].step = "query" /\ at[th].owner),
           ~(now.step = "query" /\ now.owner)
    PROVE  RequestHasOwner'
  <1>1. \A x \in Threads : x # th => at'[x] = at[x]
    BY DEF ArpOK
  <1>2. at'[th] = now
    BY DEF ArpOK
  <1>3. \A n \in Nodes, ip \in Address : Owners(n, ip)' = Owners(n, ip)
    BY <1>1, <1>2 DEF Owners, NodeOfThread
  <1> QED BY <1>3 DEF ArpOK, RequestHasOwner, Cached

\* ARPQuery up to its wait.
LEMMA ResolveOK ==
    ASSUME ArpOK, NEW th \in Threads, NEW n, n = NodeOfThread(th),
           at[th] = Idle, NEW p \in Packet, Route[n][p.dest].dev # None,
           NEW w, WireOK(w), Resolve(th, n, p, w)
    PROVE  WireOK(wire') /\ ArpOK' /\ OthersStay(th)
  <1>0. OthersStay(th)
    <2>1. \E now : at' = [at EXCEPT ![th] = now]
      BY DEF Resolve
    <2> QED BY <2>1 DEF ArpOK, OthersStay
  <1> DEFINE dev == Route[n][p.dest].dev
             hop == Route[n][p.dest].hop
  <1>1. n \in Nodes
    BY ThreadNode
  <1>2. p.dest \in Address
    BY DEF Packet
  <1>3. dev \in Devices /\ hop \in Address
    BY <1>1, <1>2 DEF NoRoute
  <1> HIDE DEF dev, hop
  <1>4. at[th].step = "idle"
    BY DEF Idle, Doing
  <1>5. Idle \in Activity /\ Idle.step = "idle"
    BY IdleType DEF Idle, Doing
  <1>6. ASSUME arp' = arp, at' = [at EXCEPT ![th] = Idle]
        PROVE  ArpOK'
    <2>1. RequestHasOwner'
      BY <1>4, <1>5, <1>6, OwnersStay
    <2>2. ActivityOK'
      BY <1>5, <1>6 DEF ArpOK, ActivityOK
    <2> QED BY <1>5, <1>6, <2>1, <2>2 DEF ArpOK, CacheIsTrue
  <1>7. CASE /\ Cached(n, hop)
             /\ wire' \in Sent(w, dev, IpFrame(arp[n].cache[hop], p))
             /\ at' = [at EXCEPT ![th] = Idle]
             /\ UNCHANGED arp
    <2>1. IpFrame(arp[n].cache[hop], p) \in TrueFrame
      BY <1>1, <1>3, <1>7, CachedDevice, FrameTypes DEF ArpOK
    <2> QED BY <1>0, <1>6, <1>7, <2>1, WireSent
  <1>8. CASE /\ Joins(n, hop)
             /\ at' = [at EXCEPT ![th] = Doing("query", p, hop, FALSE)]
             /\ wire' = w
             /\ UNCHANGED arp
    <2> DEFINE now == Doing("query", p, hop, FALSE)
    <2>1. now \in Activity /\ now.step = "query" /\ now.hop = hop /\ ~now.owner
      BY <1>3, QueryType DEF Doing
    <2> HIDE DEF now
    <2>2. RequestHasOwner'
      BY <1>4, <1>8, <2>1, OwnersStay DEF now
    <2>3. ActivityOK'
      BY <1>3, <1>8, <2>1 DEF ArpOK, ActivityOK, now
    <2> QED BY <1>0, <1>8, <2>1, <2>2, <2>3 DEF ArpOK, CacheIsTrue, now
  <1>9. CASE /\ Asks(n, hop)
             /\ arp' = Asked(n, hop, th)
             /\ wire' \in Sent(w, dev, ArpFrame(Broadcast, Request(dev, dev, hop)))
             /\ at' = [at EXCEPT ![th] = Doing("query", p, hop, TRUE)]
    <2> DEFINE now == Doing("query", p, hop, TRUE)
    <2>1. now \in Activity /\ now.step = "query" /\ now.hop = hop /\ now.owner
      BY <1>3, QueryType DEF Doing
    <2> HIDE DEF now
    <2>2. /\ at' = [at EXCEPT ![th] = now]
          /\ at' \in [Threads -> Activity]
          /\ at'[th] = now
          /\ \A x \in Threads : x # th => at'[x] = at[x]
      BY <1>9, <2>1 DEF ArpOK, now
    <2>3. /\ arp' \in [Nodes -> ArpState]
          /\ \A m \in Nodes : arp'[m].cache = arp[m].cache
          /\ arp'[n].outstanding[hop] = th
          /\ \A m \in Nodes, ip \in Address :
                ~(m = n /\ ip = hop) =>
                    arp'[m].outstanding[ip] = arp[m].outstanding[ip]
      BY <1>1, <1>3, <1>9, OutstandingSet DEF ArpOK
    <2>4. RequestHasOwner'
      <3> SUFFICES ASSUME NEW m \in Nodes, NEW ip \in Address,
                          ~Cached(m, ip)
                   PROVE  Owners(m, ip)' = {arp'[m].outstanding[ip]} \ {None}
        BY <2>3 DEF RequestHasOwner, Cached
      <3>1. Owners(m, ip) = {arp[m].outstanding[ip]} \ {None}
        BY DEF ArpOK, RequestHasOwner
      <3>2. CASE m = n /\ ip = hop
        <4>1. Owners(n, hop) = {}
          BY <3>1, <3>2, <1>9 DEF Asks
        <4>2. Owners(n, hop)' = {th}
          BY <4>1, <2>1, <2>2 DEF Owners, NodeOfThread
        <4>3. th # None
          BY DEF Threads, Address
        <4> QED BY <4>2, <4>3, <3>2, <2>3
      <3>3. CASE ~(m = n /\ ip = hop)
        <4>1. Owners(m, ip)' = Owners(m, ip)
          BY <3>3, <1>4, <2>1, <2>2 DEF Owners, NodeOfThread
        <4> QED BY <4>1, <3>1, <3>3, <2>3
      <3> QED BY <3>2, <3>3
    <2>5. ActivityOK'
      BY <1>3, <2>1, <2>2 DEF ArpOK, ActivityOK
    <2>6. CacheIsTrue'
      BY <2>3 DEF ArpOK, CacheIsTrue
    <2>7. WireOK(wire')
      BY <1>3, <1>9, FrameTypes, WireSent
    <2> QED BY <1>0, <2>2, <2>3, <2>4, <2>5, <2>6, <2>7 DEF ArpOK
  <1>10. CASE /\ Asks(n, hop)
              /\ wire' = w
              /\ at' = [at EXCEPT ![th] = Idle]
              /\ UNCHANGED arp
    BY <1>0, <1>6, <1>10
  <1> QED BY <1>7, <1>8, <1>9, <1>10, <1>0 DEF Resolve, dev, hop

\* ARPQuery after its wait.
LEMMA QueryAnsweredOK ==
    ASSUME ArpOK, WireOK(wire), NEW th \in Threads, QueryAnswered(th)
    PROVE  WireOK(wire') /\ ArpOK'
  <1> DEFINE n == NodeOfThread(th)
             hop == at[th].hop
             p == at[th].packet
  <1>1. at[th] \in Activity
    BY DEF ArpOK
  <1>2. n \in Nodes /\ hop \in Address /\ p \in Packet \cup {NoPacket}
    BY <1>1, ThreadNode DEF Activity, ArpOK, ActivityOK, QueryAnswered
  <1>3. /\ Cached(n, hop)
        /\ at' = [at EXCEPT ![th] = Idle]
        /\ arp' = arp
    BY DEF QueryAnswered
  <1>4. Idle \in Activity /\ Idle.step = "idle"
    BY IdleType DEF Idle, Doing
  <1>5. /\ at' \in [Threads -> Activity]
        /\ at'[th] = Idle
        /\ \A x \in Threads : x # th => at'[x] = at[x]
    BY <1>3, <1>4 DEF ArpOK
  <1>6. ActivityOK'
    BY <1>4, <1>5 DEF ArpOK, ActivityOK
  <1>7. RequestHasOwner'
    <2> SUFFICES ASSUME NEW m \in Nodes, NEW ip \in Address, ~Cached(m, ip)
                 PROVE  Owners(m, ip)' = {arp[m].outstanding[ip]} \ {None}
      BY <1>3 DEF RequestHasOwner, Cached
    <2>1. Owners(m, ip) = {arp[m].outstanding[ip]} \ {None}
      BY DEF ArpOK, RequestHasOwner
    <2>2. ~(n = m /\ hop = ip)
      BY <1>3
    <2>3. Owners(m, ip)' = Owners(m, ip)
      BY <2>2, <1>4, <1>5 DEF Owners, NodeOfThread
    <2> QED BY <2>1, <2>3
  <1>8. WireOK(wire')
    <2>1. arp[n].cache[hop] \in Devices
      BY <1>2, <1>3, CachedDevice DEF ArpOK
    <2> QED BY <2>1, <1>2, FrameTypes, WireSent DEF QueryAnswered
  <1> QED BY <1>3, <1>5, <1>6, <1>7, <1>8 DEF ArpOK, CacheIsTrue

\* A query whose time is over withdraws its own request only.
LEMMA QueryTimedOutOK ==
    ASSUME ArpOK, NEW th \in Threads, QueryTimedOut(th)
    PROVE  ArpOK'
  <1> DEFINE n == NodeOfThread(th)
             hop == at[th].hop
  <1>1. /\ n \in Nodes /\ hop \in Address
        /\ at[th].step = "query"
        /\ ~Cached(n, hop)
        /\ at' = [at EXCEPT ![th] = Idle]
        /\ arp' = IF at[th].owner THEN Withdrawn(n, hop) ELSE arp
    BY ThreadNode DEF ArpOK, ActivityOK, QueryTimedOut, TimeIsOver
  <1> HIDE DEF hop
  <1>2. Idle \in Activity /\ Idle.step = "idle"
    BY IdleType DEF Idle, Doing
  <1>3. /\ at' \in [Threads -> Activity]
        /\ at'[th] = Idle
        /\ \A x \in Threads : x # th => at'[x] = at[x]
    BY <1>1, <1>2 DEF ArpOK
  <1>4. ActivityOK'
    BY <1>2, <1>3 DEF ArpOK, ActivityOK
  <1>5. CASE ~at[th].owner
    <2>1. arp' = arp
      BY <1>1, <1>5
    <2>2. RequestHasOwner'
      BY <1>1, <1>2, <1>5, <2>1, OwnersStay
    <2> QED BY <1>3, <1>4, <2>1, <2>2 DEF ArpOK, CacheIsTrue
  <1>6. CASE at[th].owner
    <2>1. arp' = Asked(n, hop, None)
      BY <1>1, <1>6 DEF Withdrawn, Asked
    <2>2. /\ arp' \in [Nodes -> ArpState]
          /\ \A m \in Nodes : arp'[m].cache = arp[m].cache
          /\ arp'[n].outstanding[hop] = None
          /\ \A m \in Nodes, ip \in Address :
                ~(m = n /\ ip = hop) =>
                    arp'[m].outstanding[ip] = arp[m].outstanding[ip]
      BY <1>1, <2>1, OutstandingSet DEF ArpOK
    <2>3. RequestHasOwner'
      <3> SUFFICES ASSUME NEW m \in Nodes, NEW ip \in Address, ~Cached(m, ip)
                   PROVE  Owners(m, ip)' = {arp'[m].outstanding[ip]} \ {None}
        BY <2>2 DEF RequestHasOwner, Cached
      <3>1. Owners(m, ip) = {arp[m].outstanding[ip]} \ {None}
        BY DEF ArpOK, RequestHasOwner
      <3>2. CASE m = n /\ ip = hop
        <4>1. th \in Owners(m, ip)
          BY <1>1, <1>6, <3>2 DEF Owners, hop
        <4>2. Owners(m, ip) = {th}
          BY <3>1, <4>1
        <4>3. Owners(m, ip)' = {}
          BY <4>2, <1>2, <1>3 DEF Owners, NodeOfThread
        <4> QED BY <4>3, <3>2, <2>2
      <3>3. CASE ~(m = n /\ ip = hop)
        <4>1. Owners(m, ip)' = Owners(m, ip)
          BY <3>3, <1>2, <1>3 DEF Owners, NodeOfThread, hop
        <4> QED BY <4>1, <3>1, <3>3, <2>2
      <3> QED BY <3>2, <3>3
    <2>4. CacheIsTrue'
      BY <2>2 DEF ArpOK, CacheIsTrue
    <2> QED BY <1>3, <1>4, <2>2, <2>3, <2>4 DEF ArpOK
  <1> QED BY <1>5, <1>6

\* A reply that tells the truth.
LEMMA RepliedOK ==
    ASSUME ArpOK, at' = at, NEW n \in Nodes, NEW reply \in ArpMessage,
           reply.spa = reply.sha, arp' = Replied(n, reply)
    PROVE  ArpOK'
  <1> DEFINE spa == reply.spa
             known == Emplaced(n, reply)
             cache == [arp[n].cache EXCEPT ![spa] = known]
             out == [arp[n].outstanding EXCEPT ![spa] = None]
             of == [cache |-> cache, outstanding |-> out]
  <1>1. spa \in Address /\ reply.sha \in Devices
    BY DEF ArpMessage
  <1>2. arp[n] \in ArpState
    BY DEF ArpOK
  <1>3. known \in Devices /\ known = spa
    <2>1. arp[n].cache[spa] \in Devices \cup {None}
      BY <1>1, <1>2 DEF ArpState
    <2>2. arp[n].cache[spa] \in {spa, None}
      BY <1>1 DEF ArpOK, CacheIsTrue
    <2> QED BY <1>1, <2>1, <2>2 DEF Emplaced, Cached
  <1> HIDE DEF spa, known
  <1>4. /\ cache \in [Address -> Devices \cup {None}]
        /\ out \in [Address -> Threads \cup {None}]
    BY <1>2, <1>3 DEF ArpState
  <1>5. /\ cache[spa] = spa
        /\ out[spa] = None
        /\ \A ip \in Address : ip # spa => /\ cache[ip] = arp[n].cache[ip]
                                           /\ out[ip] = arp[n].outstanding[ip]
    BY <1>1, <1>2, <1>3 DEF ArpState
  <1>6. arp' = [arp EXCEPT ![n] = of]
    BY DEF Replied, spa, known
  <1> HIDE DEF cache, out
  <1>of. of \in ArpState /\ of.cache = cache /\ of.outstanding = out
    BY <1>4 DEF ArpState
  <1> HIDE DEF of
  <1>7. /\ arp' \in [Nodes -> ArpState]
        /\ arp'[n].cache = cache /\ arp'[n].outstanding = out
        /\ \A m \in Nodes : m # n => arp'[m] = arp[m]
    BY <1>6, <1>of DEF ArpOK
  <1>8. CacheIsTrue'
    BY <1>5, <1>7 DEF ArpOK, CacheIsTrue
  <1>9. RequestHasOwner'
    <2> SUFFICES ASSUME NEW m \in Nodes, NEW ip \in Address,
                        arp'[m].cache[ip] = None
                 PROVE  Owners(m, ip)' = {arp'[m].outstanding[ip]} \ {None}
      BY DEF RequestHasOwner, Cached
    <2>1. ~(m = n /\ ip = spa)
      BY <1>1, <1>5, <1>7 DEF Address
    <2>2. /\ arp[m].cache[ip] = None
          /\ arp'[m].outstanding[ip] = arp[m].outstanding[ip]
      BY <2>1, <1>5, <1>7
    <2>3. Owners(m, ip) = {arp[m].outstanding[ip]} \ {None}
      BY <2>2 DEF ArpOK, RequestHasOwner, Cached
    <2> QED BY <2>2, <2>3 DEF Owners, NodeOfThread
  <1> QED BY <1>7, <1>8, <1>9 DEF ArpOK, ActivityOK

-----------------------------------------------------------------------------
(* The steps.                                                              *)

LEMMA ArpStays ==
    ASSUME ArpOK, arp' = arp, at' = at
    PROVE  ArpOK'
  BY DEF ArpOK, ActivityOK, CacheIsTrue, RequestHasOwner, Owners, Cached,
         NodeOfThread

\* A step of a thread that is not in ip_send_packet.
LEMMA PushersStay ==
    ASSUME PushersOK, pushing' = pushing, NEW th \in Threads, OthersStay(th),
           at[th].step # "push"
    PROVE  PushersOK'
  BY DEF PushersOK, OthersStay, Threads

LEMMA ReceiveRequestOK ==
    ASSUME IInv, NEW d \in Devices, ReceiveRequest(d)
    PROVE  IInv'
  <1> DEFINE f == Head(wire[d])
  <1>1. WireOK(Rest(d)) /\ f \in TrueFrame
    BY WireRest DEF IInv, ReceiveRequest, Receives
  <1>2. f.arp # None /\ f.arp \in ArpMessage
    BY <1>1 DEF ReceiveRequest, TrueFrame, Frame
  <1>3. ArpFrame(f.arp.sha, Reply(d, d, f.arp)) \in TrueFrame
    BY <1>1, <1>2, FrameTypes DEF ArpMessage
  <1>4. WireOK(wire')
    BY <1>1, <1>3, WireSent DEF ReceiveRequest
  <1> QED BY <1>4, ArpStays
          DEF IInv, ReceiveRequest, PushingOK, PushersOK, QueueOK, BoundsOK

LEMMA ReceiveReplyOK ==
    ASSUME IInv, NEW d \in Devices, ReceiveReply(d)
    PROVE  IInv'
  <1> DEFINE f == Head(wire[d])
  <1>1. WireOK(Rest(d)) /\ f \in TrueFrame
    BY WireRest DEF IInv, ReceiveReply, Receives
  <1>2. f.arp \in ArpMessage /\ f.arp.spa = f.arp.sha
    BY <1>1 DEF ReceiveReply, TrueFrame, Frame
  <1>3. ArpOK'
    BY <1>2, RepliedOK DEF IInv, ReceiveReply
  <1> QED BY <1>1, <1>3
          DEF IInv, ReceiveReply, PushingOK, PushersOK, QueueOK, BoundsOK

LEMMA HoppedType ==
    ASSUME NEW p \in Packet, p.ttl # 0
    PROVE  Hopped(p) \in Packet /\ Hopped(p).dest = p.dest
  <1>1. p.ttl \in 0..InitialTtl /\ InitialTtl \in Nat
    BY DEF Packet
  <1>2. \A i \in 0..InitialTtl : i # 0 => i - 1 \in 0..InitialTtl
    BY <1>1
  <1>3. p.ttl - 1 \in 0..InitialTtl
    BY <1>1, <1>2
  <1> QED BY <1>3 DEF Packet, Hopped

LEMMA ReceivePacketOK ==
    ASSUME IInv, NEW d \in Devices, ReceivePacket(d)
    PROVE  IInv'
  <1> DEFINE n == NodeOf[d]
             p == Head(wire[d]).packet
             dev == Route[n][p.dest].dev
  <1>1. WireOK(Rest(d)) /\ Head(wire[d]) \in TrueFrame
    BY WireRest DEF IInv, ReceivePacket, Receives
  <1>2. p \in Packet \cup {NoPacket}
    BY <1>1 DEF TrueFrame, Frame
  <1>3. p.ttl # 0 => p \in Packet
    BY <1>2 DEF NoPacket
  <1>4. at[d] = Idle /\ at[d].step = "idle" /\ ~at[d].owner
    <2>1. at[d] = Idle
      BY DEF ReceivePacket, Receives
    <2> QED
      BY ONLY <2>1 DEF Idle, Doing
  <1>5. d \in Threads /\ NodeOfThread(d) = n /\ n \in Nodes
    BY DEF Threads, NodeOfThread
  <1>6. CASE wire' = Rest(d) /\ UNCHANGED <<arp, at>>
    <2>1. ArpOK'
      BY <1>6, ArpStays DEF IInv
    <2> QED BY <1>1, <1>6, <2>1
            DEF IInv, ReceivePacket, PushingOK, PushersOK, QueueOK, BoundsOK
  <1>7. ASSUME WireOK(wire'), ArpOK', OthersStay(d)
        PROVE  IInv'
    <2>1. PushersOK'
      BY <1>4, <1>5, <1>7, PushersStay DEF IInv, ReceivePacket
    <2> QED BY <1>7, <2>1
            DEF IInv, ReceivePacket, PushingOK, QueueOK, BoundsOK
  <1>8. CASE /\ p.ttl # 0 /\ dev # None /\ dev = p.dest
             /\ at' = [at EXCEPT ![d] = Doing("segment", p, None, FALSE)]
             /\ wire' = Rest(d)
             /\ UNCHANGED arp
    <2> DEFINE now == Doing("segment", p, None, FALSE)
    <2>1. p \in Packet /\ p.dest \in Address
      BY <1>3, <1>8 DEF Packet
    <2>2. p.dest \in Devices
      BY <2>1, <1>5, <1>8 DEF NoRoute
    <2>3. /\ now \in Activity /\ now.step = "segment" /\ ~now.owner
          /\ now.packet = p
      BY <2>1 DEF Doing, Activity
    <2> HIDE DEF now
    <2>4. at' = [at EXCEPT ![d] = now]
      BY <1>8 DEF now
    <2>5. /\ at' \in [Threads -> Activity] /\ at'[d] = now
          /\ OthersStay(d)
      BY <2>3, <2>4, <1>5 DEF IInv, ArpOK, OthersStay
    <2>6. RequestHasOwner'
      BY <1>4, <1>5, <1>8, <2>3, <2>4, OwnersStay DEF IInv
    <2>7. ActivityOK'
      BY <2>1, <2>2, <2>3, <2>5 DEF IInv, ArpOK, ActivityOK, OthersStay
    <2>8. ArpOK'
      BY <1>8, <2>5, <2>6, <2>7 DEF IInv, ArpOK, CacheIsTrue
    <2> QED BY <1>1, <1>7, <1>8, <2>5, <2>8
  <1>9. CASE /\ p.ttl # 0 /\ dev # None
             /\ Hopped(p).ttl # 0
             /\ Resolve(d, n, Hopped(p), Rest(d))
    <2>1. Hopped(p) \in Packet /\ Hopped(p).dest = p.dest
      BY <1>3, <1>9, HoppedType
    <2>2. WireOK(wire') /\ ArpOK' /\ OthersStay(d)
      BY <1>1, <1>4, <1>5, <1>9, <2>1, ResolveOK DEF IInv
    <2> QED BY <1>7, <2>2
  <1> QED BY <1>6, <1>8, <1>9 DEF ReceivePacket

LEMMA HandleSegmentOK ==
    ASSUME IInv, NEW d \in Devices, HandleSegment(d)
    PROVE  IInv'
  <1> DEFINE n == NodeOf[d]
             p == at[d].packet
  <1>1. /\ d \in Threads /\ n \in Nodes
        /\ at[d].step = "segment" /\ pushing[n] = Nobody
        /\ p \in Packet /\ p.dest \in Devices
    BY DEF Threads, HandleSegment, IInv, ArpOK, ActivityOK
  <1>2. ASSUME NEW now \in Activity, now.step \in {"idle", "push"},
               at' = [at EXCEPT ![d] = now]
        PROVE  ArpOK' /\ at'[d] = now /\ OthersStay(d)
    <2>1. /\ at' \in [Threads -> Activity] /\ at'[d] = now
          /\ OthersStay(d)
      BY <1>1, <1>2 DEF IInv, ArpOK, OthersStay
    <2>2. RequestHasOwner'
      BY <1>1, <1>2, OwnersStay DEF IInv, HandleSegment
    <2>3. ActivityOK'
      BY <1>2, <2>1 DEF IInv, ArpOK, ActivityOK, OthersStay
    <2> QED BY <2>1, <2>2, <2>3 DEF IInv, ArpOK, CacheIsTrue, HandleSegment
  <1>3. CASE /\ pushing' = [pushing EXCEPT ![n] = Pushing(d, Answer(p))]
             /\ at' = [at EXCEPT ![d] = Doing("push", p, None, FALSE)]
    <2> DEFINE now == Doing("push", p, None, FALSE)
               push == Pushing(d, Answer(p))
    <2>1. now \in Activity /\ now.step = "push"
      BY <1>1 DEF Doing, Activity
    <2>2. /\ push \in [by : Threads \cup {None}, packet : Packet \cup {NoPacket}]
          /\ push.by = d /\ push.packet \in Packet
      BY <1>1 DEF Pushing, Answer, Packet, Address
    <2> HIDE DEF now, push
    <2>3. ArpOK' /\ at'[d] = now /\ OthersStay(d)
      BY <1>2, <1>3, <2>1 DEF now
    <2>4. /\ pushing' = [pushing EXCEPT ![n] = push]
          /\ pushing'[n] = push
          /\ \A m \in Nodes : m # n => pushing'[m] = pushing[m]
      BY <1>1, <1>3 DEF push, IInv, PushingOK
    <2>5. PushingOK'
      BY <2>2, <2>4 DEF IInv, PushingOK
    <2>6. PushersOK'
      BY <1>1, <2>1, <2>2, <2>3, <2>4 DEF IInv, PushersOK, OthersStay, Threads
    <2> QED BY <2>3, <2>5, <2>6 DEF IInv, HandleSegment, QueueOK, BoundsOK
  <1>4. CASE at' = [at EXCEPT ![d] = Idle] /\ UNCHANGED pushing
    <2>1. ArpOK' /\ OthersStay(d)
      BY <1>2, <1>4, IdleType DEF Idle, Doing
    <2>2. PushersOK'
      BY <1>1, <1>4, <2>1, PushersStay DEF IInv
    <2> QED BY <1>4, <2>1, <2>2
            DEF IInv, HandleSegment, PushingOK, QueueOK, BoundsOK
  <1> QED BY <1>3, <1>4 DEF HandleSegment

LEMMA QueryOK ==
    ASSUME IInv, NEW th \in Threads, Querying(th)
    PROVE  IInv'
  <1>1. OthersStay(th) /\ at[th].step = "query"
    BY DEF Querying, QueryAnswered, QueryTimedOut, TimeIsOver, OthersStay,
           IInv, ArpOK
  <1>2. /\ UNCHANGED <<queue, pushing, unsent, leaving>>
        /\ WireOK(wire') /\ ArpOK'
    <2>1. CASE QueryAnswered(th)
      BY <2>1, QueryAnsweredOK DEF IInv, QueryAnswered
    <2>2. CASE QueryTimedOut(th)
      BY <2>2, QueryTimedOutOK DEF IInv, QueryTimedOut, WireOK
    <2> QED BY <2>1, <2>2 DEF Querying
  <1>3. PushersOK'
    BY <1>1, <1>2, PushersStay DEF IInv
  <1> QED BY <1>2, <1>3 DEF IInv, PushingOK, QueueOK, BoundsOK

LEMMA TransmitOK ==
    ASSUME IInv, NEW n \in Nodes, Transmit(n)
    PROVE  IInv'
  <1>1. PICK s \in unsent :
            /\ unsent' = unsent \ {s}
            /\ pushing' = [pushing EXCEPT ![n] =
                  Pushing(n, [src |-> s[1], dest |-> s[2], answer |-> FALSE,
                              ttl |-> InitialTtl])]
    BY DEF Transmit
  <1> DEFINE push == Pushing(n, [src |-> s[1], dest |-> s[2],
                                 answer |-> FALSE, ttl |-> InitialTtl])
  <1>2. s[1] \in Devices /\ s[2] \in Address
    BY DEF IInv, BoundsOK
  <1>3. /\ push \in [by : Threads \cup {None}, packet : Packet \cup {NoPacket}]
        /\ push.by = n /\ push.packet \in Packet
    BY <1>2 DEF Pushing, Packet, Threads
  <1> HIDE DEF push
  <1>4. /\ pushing'[n] = push /\ pushing' = [pushing EXCEPT ![n] = push]
        /\ \A m \in Nodes : m # n => pushing'[m] = pushing[m]
    BY <1>1 DEF push, IInv, PushingOK
  <1>5. PushingOK'
    BY <1>3, <1>4 DEF IInv, PushingOK
  <1>6. PushersOK'
    BY <1>3, <1>4 DEF IInv, PushersOK, Transmit
  <1>7. ArpOK'
    BY ArpStays DEF IInv, Transmit
  <1> QED BY <1>1, <1>5, <1>6, <1>7
          DEF IInv, Transmit, WireOK, QueueOK, BoundsOK

LEMMA PushOK ==
    ASSUME IInv, NEW n \in Nodes, Push(n)
    PROVE  IInv'
  <1> DEFINE who == pushing[n].by
  <1>1. QueueOK'
    <2>1. pushing[n].packet \in Packet
      BY DEF IInv, PushingOK, Push
    <2>2. queue[n] \in Seq(Packet) /\ Len(queue[n]) < QueueCapacity
      <3>1. Len(queue[n]) \in Nat /\ Len(queue[n]) <= QueueCapacity
        BY LenProperties DEF IInv, QueueOK
      <3> QED BY <3>1 DEF IInv, QueueOK, Push, BufferFull
    <2> DEFINE q == Append(queue[n], pushing[n].packet)
    <2>3. q \in Seq(Packet) /\ Len(q) <= QueueCapacity
      BY <2>1, <2>2, AppendProperties, LenProperties
    <2>4. queue' = [queue EXCEPT ![n] = q]
      BY DEF Push
    <2> HIDE DEF q
    <2> QED BY <2>3, <2>4 DEF IInv, QueueOK
  <1>2. /\ Nobody \in [by : Threads \cup {None}, packet : Packet \cup {NoPacket}]
        /\ Nobody.by = None
    BY DEF Nobody, Pushing
  <1>3. /\ pushing' = [pushing EXCEPT ![n] = Nobody]
        /\ pushing'[n] = Nobody
        /\ \A m \in Nodes : m # n => pushing'[m] = pushing[m]
    BY DEF Push, IInv, PushingOK
  <1>4. PushingOK'
    BY <1>2, <1>3 DEF IInv, PushingOK
  <1>5. None \notin Devices
    BY DEF Address
  <1>6. CASE who \in Devices
    <2>1. /\ NodeOf[who] = n /\ at[who].step = "push" /\ who \in Threads
          /\ at' = [at EXCEPT ![who] = Idle]
      BY <1>6 DEF IInv, PushersOK, Threads, Push
    <2>2. Idle \in Activity /\ Idle.step = "idle"
      BY IdleType DEF Idle, Doing
    <2>3. /\ at' \in [Threads -> Activity] /\ at'[who] = Idle
          /\ \A x \in Threads : x # who => at'[x] = at[x]
      BY <2>1, <2>2 DEF IInv, ArpOK
    <2>4. RequestHasOwner'
      BY <2>1, <2>2, OwnersStay DEF IInv, Push
    <2>5. ActivityOK'
      BY <2>2, <2>3 DEF IInv, ArpOK, ActivityOK
    <2>6. ArpOK'
      BY <2>3, <2>4, <2>5 DEF IInv, ArpOK, CacheIsTrue, Push
    <2>7. PushersOK'
      <3> SUFFICES ASSUME NEW m \in Nodes, NEW d \in Devices,
                          pushing'[m].by = d
                   PROVE  NodeOf[d] = m /\ at'[d].step = "push"
        BY DEF PushersOK
      <3>1. m # n /\ pushing[m].by = d
        BY <1>2, <1>3, <1>5
      <3>2. NodeOf[d] = m /\ at[d].step = "push"
        BY <3>1 DEF IInv, PushersOK
      <3> QED BY <3>1, <3>2, <2>1, <2>3 DEF Threads
    <2> QED BY <1>1, <1>4, <2>6, <2>7 DEF IInv, Push, WireOK, BoundsOK
  <1>7. CASE who \notin Devices
    <2>1. ArpOK'
      BY <1>7, ArpStays DEF IInv, Push
    <2>2. PushersOK'
      BY <1>2, <1>3, <1>5, <1>7 DEF IInv, PushersOK, Push
    <2> QED BY <1>1, <1>4, <2>1, <2>2 DEF IInv, Push, WireOK, BoundsOK
  <1> QED BY <1>6, <1>7

LEMMA PopOK ==
    ASSUME IInv, NEW n \in Nodes, Pop(n)
    PROVE  IInv'
  <1> DEFINE p == Head(queue[n])
  <1>1. p \in Packet /\ QueueOK'
    <2>1. queue[n] \in Seq(Packet) /\ Len(queue[n]) <= QueueCapacity
          /\ queue[n] # <<>>
      BY DEF IInv, QueueOK, Pop
    <2> DEFINE q == Tail(queue[n])
    <2>2. p \in Packet /\ q \in Seq(Packet) /\ Len(q) <= QueueCapacity
      BY <2>1, HeadTailProperties, LenProperties
    <2>3. queue' = [queue EXCEPT ![n] = q]
      BY DEF Pop
    <2> HIDE DEF q
    <2> QED BY <2>2, <2>3 DEF IInv, QueueOK
  <1>2. n \in Threads /\ NodeOfThread(n) = n /\ at[n] = Idle
        /\ at[n].step = "idle"
    BY DEF Threads, NodeOfThread, Pop, Idle, Doing
  <1>3. CASE UNCHANGED <<arp, wire, at>>
    <2>1. ArpOK'
      BY <1>3, ArpStays DEF IInv
    <2> QED BY <1>1, <1>3, <2>1
            DEF IInv, Pop, WireOK, PushingOK, PushersOK, BoundsOK
  <1>4. CASE ~Unroutable(n, p) /\ Resolve(n, n, p, wire)
    <2>1. WireOK(wire') /\ ArpOK' /\ OthersStay(n)
      BY <1>1, <1>2, <1>4, ResolveOK DEF IInv, Unroutable
    <2>2. PushersOK'
      BY <1>2, <2>1, PushersStay DEF IInv, Pop
    <2> QED BY <1>1, <2>1, <2>2 DEF IInv, Pop, PushingOK, BoundsOK
  <1> QED BY <1>3, <1>4 DEF Pop

\* The clean-ups at exit change nothing but how far they are.
LEMMA LeavingOK ==
    ASSUME IInv, UNCHANGED <<arp, wire, at, queue, pushing, unsent>>,
           leaving' \in [Nodes -> {"no", "joining", "tcp", "done"}]
    PROVE  IInv'
  BY ArpStays DEF IInv, WireOK, PushingOK, PushersOK, QueueOK, BoundsOK

-----------------------------------------------------------------------------

LEMMA InitInv == Init => IInv
  <1> SUFFICES ASSUME Init
               PROVE  IInv
    OBVIOUS
  <1> USE DEF Init
  <1>1. WireOK(wire)
    BY EmptySeq, LenProperties DEF WireOK
  <1>2. ArpInit \in ArpState /\ \A ip \in Address :
            ArpInit.cache[ip] = None /\ ArpInit.outstanding[ip] = None
    BY DEF ArpInit, ArpState
  <1>3. Idle \in Activity /\ Idle.step = "idle"
    BY IdleType DEF Idle, Doing
  <1>4. ArpOK
    BY <1>2, <1>3
       DEF ArpOK, ActivityOK, CacheIsTrue, RequestHasOwner, Owners, Cached
  <1>5. /\ Nobody \in [by : Threads \cup {None}, packet : Packet \cup {NoPacket}]
        /\ Nobody.by = None /\ None \notin Devices
    BY DEF Nobody, Pushing, Address
  <1>6. PushingOK /\ PushersOK
    BY <1>5 DEF PushingOK, PushersOK
  <1>7. QueueOK /\ BoundsOK
    BY DEF QueueOK, BoundsOK
  <1> QED BY <1>1, <1>4, <1>6, <1>7 DEF IInv

LEMMA StepInv == IInv /\ [Next]_vars => IInv'
  <1> SUFFICES ASSUME IInv, [Next]_vars
               PROVE  IInv'
    OBVIOUS
  <1>1. ASSUME NEW d \in Devices, Receiving(d)
        PROVE  IInv'
    BY <1>1, ReceiveRequestOK, ReceiveReplyOK, ReceivePacketOK, HandleSegmentOK
       DEF Receiving, Taking
  <1>2. ASSUME NEW th \in Threads, Querying(th)
        PROVE  IInv'
    BY <1>2, QueryOK
  <1>3. ASSUME NEW n \in Nodes, Transmit(n) \/ Push(n) \/ Pop(n)
        PROVE  IInv'
    BY <1>3, TransmitOK, PushOK, PopOK
  <1>4. ASSUME NEW n \in Nodes, Leave(n) \/ Leaving(n)
        PROVE  IInv'
    BY <1>4, LeavingOK
       DEF Leave, Leaving, LeaveLinks, LeaveTcp, IInv, BoundsOK
  <1>5. CASE UNCHANGED vars
    BY <1>5, LeavingOK DEF vars, IInv, BoundsOK
  <1> QED BY <1>1, <1>2, <1>3, <1>4, <1>5 DEF Next

LEMMA InvTypes == IInv => TypeOK
  <1> SUFFICES ASSUME IInv
               PROVE  TypeOK
    OBVIOUS
  <1>1. Seq(TrueFrame) \subseteq Seq(Frame)
    <2>1. TrueFrame \subseteq Frame
      BY DEF TrueFrame
    <2> QED BY <2>1, SeqDef
  <1>2. wire \in [Devices -> Seq(Frame)]
    BY <1>1 DEF IInv, WireOK
  <1> QED BY <1>2 DEF IInv, TypeOK, WireOK, ArpOK, PushingOK, QueueOK, BoundsOK

-----------------------------------------------------------------------------

LEMMA Invariant == Spec => []IInv
  BY InitInv, StepInv, PTL DEF Spec

\* The types of all variables: a packet never has more than its first TTL, and
\* ip_sending_buffer never holds more than its capacity (pnx_ip.cc:129).
THEOREM IpTypesHold == Spec => []TypeOK
  BY Invariant, InvTypes, PTL

\* What the ARP cache of any node says of an address is true for ever, on
\* every network, whatever the tables are (arp.h:12, arp.cc:118).
THEOREM CacheStaysTrue == Spec => []CacheIsTrue
  <1>1. IInv => CacheIsTrue
    BY DEF IInv, ArpOK
  <1> QED BY <1>1, Invariant, PTL

\* However many threads ask for an address, the request that stands for it in
\* outstanding_requests_ is that of the one that waits for it (arp.cc:60-111).
THEOREM RequestsAreOwned == Spec => []RequestHasOwner
  <1>1. IInv => RequestHasOwner
    BY DEF IInv, ArpOK
  <1> QED BY <1>1, Invariant, PTL

=============================================================================
