-------------------------------- MODULE Tcp --------------------------------
(***************************************************************************)
(* One connection of NS-Stack from both ends: the blocks of the client and *)
(* the server (pnx_tcp.cc), the calls the socket layer makes on them, the  *)
(* two timer threads, and the segments under way between the two stacks.   *)
(*                                                                         *)
(* Every handler and every call holds tcp_lock from beginning to end, so   *)
(* each is one action; the threads of the two stacks interleave freely.    *)
(* The k-th byte an application writes is represented by the number k: the *)
(* code only ever moves bytes, so their values cannot matter to it.        *)
(***************************************************************************)
EXTENDS Tcb

CONSTANTS
    Client,         \* the endpoint that calls tcp_open
    Server,         \* the endpoint with a listening socket
    InitSeqs,       \* the initial sequence numbers rand() can give each endpoint
    MaxBytes,       \* bound: bytes each endpoint's application writes in all
    MaxLosses,      \* bound: segments a network that does not duplicate loses
    Duplicating,    \* TRUE: a segment under way can arrive any number of times,
                    \* in any order, or never; FALSE: at most once, in any order
    PromptNetwork   \* TRUE: a segment arrives or is lost well within kTcpTimeout,
                    \* so the timers expire only when nothing is under way, and
                    \* in the order in which they were set

ASSUME TcpAssumption ==
    /\ Client # Server
    /\ InitSeqs \in [{Client, Server} -> SUBSET Nat]
    /\ MaxBytes \in [{Client, Server} -> Nat]
    /\ MaxLosses \in Nat
    /\ Duplicating \in BOOLEAN
    /\ PromptNetwork \in BOOLEAN

\* A connection uses one sequence number for the SYN, one for the FIN and one
\* for each byte; with kTcpMaxSegmentSize bytes in a segment at most, it takes
\* more than 2^32 - 10000 bytes for the numbers of one direction to wrap.
NoWrap ==
    \A e \in {Client, Server} :
        \A init \in InitSeqs[e] : init + MaxBytes[e] + 3 < SeqSpace

VARIABLES
    tcb,        \* the block of each endpoint
    registry,   \* which map holds it: "none" before it exists, "active",
                \* "orphaned" once closed, "lost" when tcp_close has failed
    net,        \* segments under way
    losses,     \* how many the network has lost
    latest,     \* the endpoint with the later send.last_sent_time (kept only
                \* for the timers of a prompt network)
    written,    \* how many bytes tcp_send has accepted from each application
    delivered   \* the bytes tcp_receive has given to each application

vars == <<tcb, registry, net, losses, latest, written, delivered>>

Endpoints == {Client, Server}
Peer(e) == IF e = Client THEN Server ELSE Client

TypeOK ==
    /\ tcb \in [Endpoints -> TCB(Endpoints)]
    /\ \A e \in Endpoints :
          /\ tcb[e].local = e
          /\ Len(tcb[e].sendBuf) <= SendCapacity
          /\ Len(tcb[e].recvBuf) <= RecvCapacity
          /\ tcb[e].retransCount <= MaxRetrans
    /\ registry \in [Endpoints -> {"none", "active", "orphaned", "lost"}]
    /\ net \subseteq Segment(Endpoints)
    /\ losses \in Nat
    /\ latest \in Endpoints
    /\ written \in [Endpoints -> Nat]
    /\ delivered \in [Endpoints -> Seq(Nat)]

Init ==
    /\ tcb = [e \in Endpoints |-> NoTcb(e)]
    /\ registry = [e \in Endpoints |-> "none"]
    /\ net = {}
    /\ losses = 0
    /\ latest = Client
    /\ written = [e \in Endpoints |-> 0]
    /\ delivered = [e \in Endpoints |-> <<>>]

-----------------------------------------------------------------------------
(* The network.                                                            *)

Arriving(e) == {m \in net : m.src = Peer(e)}

\* What is still under way once m has arrived.
After(m) == IF Duplicating THEN net ELSE net \ {m}

\* An active or orphaned block is found by its tuple; a lost one is not.
Registered(e) == registry[e] \in {"active", "orphaned"}

\* m opens a connection; it never reaches an existing block.
IsSyn(m) == m.syn /\ ~m.ack

\* m is handed to the block of e.
Reaches(m, e) == ~IsSyn(m) /\ Registered(e) /\ tcb[e].state # "CLOSE"

\* Mutant: a segment is also in order when it repeats what was received.
InOrderOrOlder(m, e) == tcb[e].state = "SYN_SENT" \/ tcb[e].recvNext >= m.seq

\* The comparison every state but SYN_SENT makes first.
InOrder(m, e) == tcb[e].state = "SYN_SENT" \/ tcb[e].recvNext = m.seq

\* e's block becomes r.tcb, and the segments r.out leave with what is under way.
Effect(e, r, underWay) ==
    /\ tcb' = [tcb EXCEPT ![e] = r.tcb]
    /\ net' = underWay \cup r.out
    /\ latest' = IF PromptNetwork /\ \E m \in r.out : SegLen(m) > 0
                 THEN e ELSE latest

\* The user calls, and the opening of a connection, add segments to net.
Step(e, r) == Effect(e, r, net)

\* m arrives in order at e, in state s: the handler's result is r.
HandledAs(s, e, m, r) ==
    /\ tcb[e].state = s
    /\ Reaches(m, e)
    /\ InOrder(m, e)
    /\ m.ack                                    \* assert(seg->hdr->ack == 1)
    /\ Effect(e, r, After(m))
    /\ UNCHANGED <<registry, losses, written, delivered>>

-----------------------------------------------------------------------------
(* Opening a connection.                                                   *)

\* tcp_open by connect(): a new block sends its SYN.
Connect(e) ==
    /\ e = Client
    /\ registry[e] = "none"
    /\ \E init \in InitSeqs[e] : Step(e, SendCtrl(ActiveTcb(e, init), "syn"))
    /\ registry' = [registry EXCEPT ![e] = "active"]
    /\ UNCHANGED <<losses, written, delivered>>

\* A SYN reaches the listening socket: a new block answers it.
ReceiveSyn(e) ==
    /\ e = Server
    /\ registry[e] = "none"
    /\ \E m \in Arriving(e), init \in InitSeqs[e] :
          /\ IsSyn(m)
          /\ Effect(e, SendCtrl(PassiveTcb(e, init, m), "syn"), After(m))
    /\ registry' = [registry EXCEPT ![e] = "active"]
    /\ UNCHANGED <<losses, written, delivered>>

-----------------------------------------------------------------------------
(* tcp_segment_handler.                                                    *)

\* Nobody wants m: a SYN for a tuple in use, no block, or a closed one.
Discard(e) ==
    /\ \E m \in Arriving(e) :
          /\ IF IsSyn(m) THEN e = Client \/ registry[e] # "none"
                         ELSE ~Reaches(m, e)
          /\ net' = After(m)
    /\ UNCHANGED <<tcb, registry, losses, latest, written, delivered>>

ReceiveOutOfOrder(e) ==
    \E m \in Arriving(e) :
        /\ Reaches(m, e)
        /\ ~InOrder(m, e)
        /\ Effect(e, OnOutOfOrder(tcb[e], m), After(m))
        /\ UNCHANGED <<registry, losses, written, delivered>>

ReceiveSynRecv(e) ==
    \E m \in Arriving(e) : HandledAs("SYN_RECV", e, m, OnSynRecv(tcb[e], m))

ReceiveSynSent(e) ==
    \E m \in Arriving(e) : HandledAs("SYN_SENT", e, m, OnSynSent(tcb[e], m))

ReceiveEstablished(e) ==
    \E m \in Arriving(e) :
        HandledAs("ESTABLISHED", e, m, OnEstablished(tcb[e], m))

ReceiveFinWait1(e) ==
    \E m \in Arriving(e) : HandledAs("FIN_WAIT1", e, m, OnFinWait1(tcb[e], m))

ReceiveFinWait2(e) ==
    \E m \in Arriving(e) : HandledAs("FIN_WAIT2", e, m, OnFinWait2(tcb[e], m))

ReceiveCloseWait(e) ==
    \E m \in Arriving(e) :
        HandledAs("CLOSE_WAIT", e, m, OnCloseWait(tcb[e], m))

ReceiveClosing(e) ==
    \E m \in Arriving(e) : HandledAs("CLOSING", e, m, OnClosing(tcb[e], m))

ReceiveLastAck(e) ==
    \E m \in Arriving(e) : HandledAs("LAST_ACK", e, m, OnLastAck(tcb[e], m))

ReceiveTimeWait(e) ==
    \E m \in Arriving(e) : HandledAs("TIME_WAIT", e, m, OnTimeWait(tcb[e], m))

Receive(e) ==
    \/ ReceiveSyn(e)
    \/ Discard(e)
    \/ ReceiveOutOfOrder(e)
    \/ ReceiveSynRecv(e)
    \/ ReceiveSynSent(e)
    \/ ReceiveEstablished(e)
    \/ ReceiveFinWait1(e)
    \/ ReceiveFinWait2(e)
    \/ ReceiveCloseWait(e)
    \/ ReceiveClosing(e)
    \/ ReceiveLastAck(e)
    \/ ReceiveTimeWait(e)

-----------------------------------------------------------------------------
(* The calls of the socket layer.                                          *)

\* tcp_send of n bytes: those that fit are queued.
Write(e, n) ==
    LET room == SendCapacity - Len(tcb[e].sendBuf)
        accepted == Min({n, room})
        items == [i \in 1..accepted |-> ByteItem(written[e] + i)]
    IN  /\ registry[e] = "active"
        /\ tcb[e].state = "ESTABLISHED"
        /\ written[e] + n <= MaxBytes[e]
        /\ Step(e, PushAndSend(tcb[e], items))
        /\ written' = [written EXCEPT ![e] = @ + accepted]
        /\ UNCHANGED <<registry, losses, delivered>>

\* tcp_receive gives up to n bytes, whatever the state; a closed socket
\* cannot read.
Read(e, n) ==
    LET taken == Min({n, Len(tcb[e].recvBuf)})
    IN  /\ registry[e] \in {"active", "lost"}
        /\ tcb' = [tcb EXCEPT ![e].recvBuf = SubSeq(@, taken + 1, Len(@))]
        /\ delivered' = [delivered EXCEPT
                            ![e] = @ \o SubSeq(tcb[e].recvBuf, 1, taken)]
        /\ UNCHANGED <<registry, net, losses, latest, written>>

\* tcp_close: the block leaves the active map and becomes an orphan, unless
\* the FIN was refused; the application may then call close() again.
Close(e) ==
    /\ registry[e] \in {"active", "lost"}
    /\ Step(e, CloseTcb(tcb[e]))
    /\ registry' = [registry EXCEPT
                        ![e] = IF CloseFails(tcb[e]) THEN "lost"
                                                     ELSE "orphaned"]
    /\ UNCHANGED <<losses, written, delivered>>

-----------------------------------------------------------------------------
(* The timer thread of a block, and the network's failures.                *)

\* Mutant: the timer stops when the application closes.
TimedOutUntilClose(e) ==
    /\ tcb[e].state \in {"SYN_SENT", "SYN_RECV", "ESTABLISHED", "CLOSE_WAIT"}
    /\ WaitingForAck(tcb[e])

\* send.last_sent_time is kTcpTimeout ago.
TimedOut(e) ==
    /\ tcb[e].state \notin {"NONE", "CLOSE", "TIME_WAIT"}
    /\ WaitingForAck(tcb[e])

Timeout(e) ==
    /\ TimedOut(e)
    /\ PromptNetwork => /\ net = {}
                        /\ TimedOut(Peer(e)) => latest # e
    /\ Step(e, Retransmit(tcb[e]))
    /\ UNCHANGED <<registry, losses, written, delivered>>

\* 2 kTcpMSL after the last segment with a sequence number was sent.
TimeWaitExpire(e) ==
    /\ tcb[e].state = "TIME_WAIT"
    /\ PromptNetwork => net = {}
    /\ tcb' = [tcb EXCEPT ![e].state = "CLOSE"]
    /\ UNCHANGED <<registry, net, losses, latest, written, delivered>>

\* A network that does not duplicate loses segments one at a time (one that
\* does has lost a segment by never letting it arrive).
Lose ==
    /\ ~Duplicating
    /\ losses < MaxLosses
    /\ \E m \in net : net' = net \ {m}
    /\ losses' = losses + 1
    /\ UNCHANGED <<tcb, registry, latest, written, delivered>>

Timer(e) == Timeout(e) \/ TimeWaitExpire(e)

User(e) ==
    \/ Connect(e)
    \/ \E n \in 1..MaxBytes[e] : Write(e, n)
    \/ \E n \in 1..RecvCapacity : Read(e, n)
    \/ Close(e)

Next ==
    \/ \E e \in Endpoints : Receive(e) \/ User(e) \/ Timer(e)
    \/ Lose

Spec == Init /\ [][Next]_vars

=============================================================================
