--------------------------- MODULE TcpProperties ---------------------------
(***************************************************************************)
(* What a connection of module Tcp promises to the applications at its     *)
(* ends, and what each end may conclude about the other from its own block.*)
(***************************************************************************)
EXTENDS Tcp

\* Every byte e's application has been given or will be given, in order.
Received(e) == delivered[e] \o tcb[e].recvBuf

\* The states of a block that has taken the peer's FIN.
FinStates == {"CLOSE_WAIT", "CLOSING", "LAST_ACK", "TIME_WAIT"}
FinTaken(e) == tcb[e].state \in FinStates

\* The states before our own close().
WriteStates == {"NONE", "SYN_SENT", "SYN_RECV", "ESTABLISHED", "CLOSE_WAIT"}

Open(e) == tcb[e].state \notin {"NONE", "CLOSE"}

-----------------------------------------------------------------------------
(* Safety.                                                                 *)

\* Whatever the network loses, repeats or reorders, and whenever the timers
\* fire, the bytes an application reads are the bytes its peer wrote: none is
\* missing, repeated, reordered or invented (tcp_segment_handler's comparison
\* with recv.next, and the stop-and-wait sender).
InOrderDelivery ==
    \A e \in Endpoints :
        /\ Len(Received(e)) <= written[Peer(e)]
        /\ \A i \in 1..Len(Received(e)) : Received(e)[i] = i

\* An acknowledgement is never ahead of the truth: what a sender takes to be
\* received has been received in order by its peer's block, although handlers
\* take ack_seq from segments they then drop and never compare it with next.
AckMeansReceived ==
    \A e \in Endpoints :
        Open(e) /\ tcb[e].sendUnack > tcb[e].sendInit =>
            /\ tcb[e].sendUnack <= tcb[e].sendNext
            /\ tcb[e].sendUnack <= tcb[Peer(e)].recvNext

\* While anything is unacknowledged, it is the one segment kept in last_seg:
\* the timer has everything that may have to be sent again, whatever was
\* pushed to the send buffer in the meantime.
OutstandingIsLastSegment ==
    \A e \in Endpoints :
        Open(e) /\ WaitingForAck(tcb[e]) =>
            /\ tcb[e].lastSeg.seq = tcb[e].sendUnack
            /\ Plus(tcb[e].lastSeg.seq, SegLen(tcb[e].lastSeg)) = tcb[e].sendNext

\* A FIN is only taken after every byte its sender's application wrote, so
\* "end of file" is never early (a FIN that overtakes data is out of order, and
\* tcp_send refuses once the FIN is queued).
FinAfterAllBytes ==
    \A e \in Endpoints :
        FinTaken(e) => Len(Received(e)) = written[Peer(e)]

\* An end whose handshake is complete agrees with its peer on where both
\* directions start, retransmitted and repeated SYNs notwithstanding.
HandshakeAgreement ==
    \A e \in Endpoints :
        Open(e) /\ tcb[e].state # "SYN_SENT" =>
            tcb[e].recvInit = tcb[Peer(e)].sendInit

\* An end that believes its FIN acknowledged is right: its peer has taken it.
FinAckedMeansTaken ==
    \A e \in Endpoints :
        tcb[e].state \in {"FIN_WAIT2", "TIME_WAIT"} =>
            FinTaken(Peer(e)) \/ tcb[Peer(e)].state = "CLOSE"

\* The block of a passive close only reaches CLOSE, other than by giving up
\* its retransmissions, when all it had to send has been received
\* (_tcp_handle_segment_last_ack only compares ack_seq with next).
LastAckMeansDone ==
    [][\A e \in Endpoints :
          tcb[e].state = "LAST_ACK" /\ tcb'[e].state = "CLOSE" =>
              \/ tcb[e].retransCount = MaxRetrans
              \/ /\ tcb[e].sendBuf = <<>>
                 /\ tcb[Peer(e)].recvNext = tcb[e].sendNext]_vars

\* Neither end's view of the other ever moves back: an acknowledgement taken
\* is not taken back by an older segment that arrives later.
NeverMovesBack ==
    [][\A e \in Endpoints :
          tcb[e].state \notin {"NONE", "SYN_SENT"} =>
              /\ tcb'[e].sendUnack >= tcb[e].sendUnack
              /\ tcb'[e].recvNext >= tcb[e].recvNext]_vars

-----------------------------------------------------------------------------
(* Refinement: the connection implements a pair of reliable streams.       *)

\* The numbers of the SYN, of the bytes received and of a FIN have been passed.
FinCounted(e) ==
    tcb[e].recvNext = Plus(tcb[e].recvInit, Len(Received(e)) + 2)

CanWrite(e) == tcb[e].state \in WriteStates

Stream == INSTANCE ReliableStream WITH
    sent  <- written,
    ended <- [e \in Endpoints |-> ~CanWrite(e)],
    given <- [e \in Endpoints |-> Received(e)],
    eof   <- [e \in Endpoints |-> FinCounted(e)]

\* Every step of the two stacks and the network is a step of the streams or
\* changes nothing an application can see; in particular what has been given
\* is never taken back, and no end of file is early or followed by bytes.
ImplementsStream == Stream!Spec

-----------------------------------------------------------------------------
(* The blocks as module Sockets sees them.                                 *)

Host == INSTANCE TcbStates WITH SendSlots <- SendCapacity,
                                RecvSlots <- RecvCapacity

\* What is left of block t.
View(t) == [state |-> t.state, waiting |-> WaitingForAck(t),
            unsent |-> Len(t.sendBuf), unread |-> Len(t.recvBuf)]

\* The steps of such a block.
BlockSteps(b) ==
    IF b.state = "NONE" THEN {Host!Opened(passive) : passive \in BOOLEAN}
    ELSE Host!OnSegment(b) \cup Host!OnTimer(b) \cup Host!Closed(b)
         \cup {Host!Received(b, n) : n \in 1..RecvCapacity}
         \cup (IF b.state = "ESTABLISHED"
               THEN UNION {Host!Sent(b, n) : n \in 1..SendCapacity} ELSE {})

\* Whatever the segments say, a block takes no step that the model of the
\* socket layer and the recycler does not expect of it.
BlocksStepAsSeen ==
    [][\A e \in Endpoints :
          tcb'[e] # tcb[e] => View(tcb'[e]) \in BlockSteps(View(tcb[e]))
                              \/ View(tcb'[e]) = View(tcb[e])]_vars

=============================================================================
