---------------------------- MODULE TcpInvariant ----------------------------
(***************************************************************************)
(* The inductive invariant behind the safety properties of module          *)
(* TcpProperties.  Each part speaks of one endpoint's block t, the number w *)
(* of bytes its application has written and the bytes d it has been given, *)
(* and of its peer's block q and number wq.                                 *)
(*                                                                         *)
(* Number init + k of a direction is the SYN for k = 0, the k-th byte for  *)
(* k = 1 .. w, and the FIN for k = w + 1.                                   *)
(***************************************************************************)
EXTENDS TcpProperties

NotOpened(t) == t.state = "NONE"

\* What waits in a send buffer at number next: the bytes up to the w-th, then,
\* once the application can write no more, possibly the FIN.
Queue(buf, init, next, w, ended) ==
    /\ \/ next + Len(buf) = init + w + 1
       \/ next + Len(buf) = init + w + 2 /\ ended
    /\ \A i \in 1..Len(buf) :
          buf[i] = IF next + i <= init + w + 1
                   THEN ByteItem(next + i - (init + 1))
                   ELSE CtrlItem("fin")

\* What has been sent and what is queued is exactly the SYN, the bytes written
\* and the FIN.
SenderOK(e, t, w) ==
    IF NotOpened(t)
    THEN t = NoTcb(e) /\ w = 0
    ELSE /\ t.sendInit \in InitSeqs[e]
         /\ w <= MaxBytes[e]
         /\ t.sendInit < t.sendNext
         /\ Queue(t.sendBuf, t.sendInit, t.sendNext, w,
                  t.state \notin WriteStates)

\* A segment of t carries what its number says, nothing that has not been sent,
\* and no acknowledgement ahead of t.
SegmentOK(t, w, m) ==
    /\ ~NotOpened(t)
    /\ m.ackSeq <= t.recvNext
    /\ m.seq + SegLen(m) <= t.sendNext
    /\ m.syn => m.seq = t.sendInit /\ m.data = <<>> /\ ~m.fin
    /\ ~m.syn => m.seq > t.sendInit
    /\ m.fin => /\ m.seq = t.sendInit + w + 1
                /\ m.data = <<>>
                /\ t.state \notin WriteStates
    /\ HavePayload(m) =>
          /\ m.seq + Len(m.data) <= t.sendInit + w + 1
          /\ \A i \in 1..Len(m.data) : m.data[i] = m.seq + i - (t.sendInit + 1)

\* t is at the number that follows the bytes it has taken from q, or at the one
\* that follows q's FIN when it has taken that.
ReceiverOK(t, q, wq, d) ==
    /\ \A i \in 1..Len(d) : d[i] = i
    /\ \A i \in 1..Len(t.recvBuf) : t.recvBuf[i] = Len(d) + i
    /\ IF t.recvNext = 0
       THEN /\ t.state \in {"NONE", "SYN_SENT", "CLOSE"}
            /\ t.recvInit = 0 /\ d = <<>> /\ t.recvBuf = <<>>
       ELSE /\ t.state \notin {"NONE", "SYN_SENT"}
            /\ ~NotOpened(q)
            /\ t.recvInit = q.sendInit
            /\ t.recvNext <= q.sendNext
            /\ Len(d) + Len(t.recvBuf) <= wq
            /\ \/ /\ t.recvNext = q.sendInit + 1 + Len(d) + Len(t.recvBuf)
                  /\ t.state \notin FinStates
               \/ /\ t.recvNext = q.sendInit + 2 + wq
                  /\ Len(d) + Len(t.recvBuf) = wq
                  /\ q.state \notin WriteStates
                  /\ t.state \in FinStates \cup {"CLOSE"}

\* What t takes to be acknowledged has been sent, and received by q.
AckedOK(t, q) ==
    t.state \notin {"NONE", "CLOSE"} =>
        /\ t.sendInit <= t.sendUnack
        /\ t.sendUnack <= t.sendNext
        /\ t.sendUnack > t.sendInit => t.sendUnack <= q.recvNext

BlockOK(e, t, q, w, wq, d) ==
    /\ SenderOK(e, t, w)
    /\ ReceiverOK(t, q, wq, d)
    /\ AckedOK(t, q)
    /\ ~NotOpened(t) => t.lastSeg.src = e /\ SegmentOK(t, w, t.lastSeg)

Inductive ==
    /\ TypeOK
    /\ \A e \in Endpoints :
          /\ registry[e] = "none" <=> NotOpened(tcb[e])
          /\ BlockOK(e, tcb[e], tcb[Peer(e)], written[e], written[Peer(e)],
                     delivered[e])
          /\ \A m \in net : m.src = e => SegmentOK(tcb[e], written[e], m)

-----------------------------------------------------------------------------
(* The invariant behind what an end may conclude from acknowledgements.    *)

\* q has taken all that t's application wrote, and t's FIN.
HasFin(q, t, w) == ~NotOpened(t) /\ q.recvNext = t.sendInit + 2 + w

\* No number that t's peer may name falls within t's last segment.
Cut(t, x) == x <= t.lastSeg.seq \/ x = t.sendNext

\* A segment of t with bytes or control bits is an earlier one or the last one.
WholeOK(t, m) ==
    SegLen(m) # 0 =>
        \/ m.seq + SegLen(m) <= t.lastSeg.seq
        \/ m.seq = t.lastSeg.seq /\ SegLen(m) = SegLen(t.lastSeg)

\* t's last segment ends what t has sent, and q is at its beginning or its end.
LastOK(t, q) ==
    /\ t.lastSeg.seq + SegLen(t.lastSeg) = t.sendNext
    /\ q.recvNext = 0 => t.lastSeg.seq = t.sendInit
    /\ q.recvNext # 0 => q.recvNext \in {t.lastSeg.seq, t.sendNext}
    /\ t.state # "CLOSE" => t.sendUnack \in {t.lastSeg.seq, t.sendNext}

\* A FIN of t tells how far t is, unless t has taken q's FIN since.
FinOK(t, q, wq, m) ==
    m.fin => /\ t.recvNext # 0
             /\ m.ackSeq = t.recvNext \/ HasFin(t, q, wq)

\* Once t has taken q's FIN it knows how far q is, unless q has taken t's, and
\* what waits in its buffer waits for an acknowledgement.
ClosedOK(t, w, q) ==
    t.state \in FinStates \ {"TIME_WAIT"} =>
        /\ t.sendBuf = <<>> \/ WaitingForAck(t)
        /\ t.sendUnack = q.recvNext \/ HasFin(q, t, w)

\* An end stands at the beginning or at the end of its peer's last segment, and
\* so does every acknowledgement under way: a cumulative ack_seq never takes a
\* part of what the timer would repeat.  Once a FIN has been taken, each end
\* knows exactly how far the other is.
Acknowledging ==
    \A e \in Endpoints :
        /\ ~NotOpened(tcb[e]) => LastOK(tcb[e], tcb[Peer(e)])
        /\ ClosedOK(tcb[e], written[e], tcb[Peer(e)])
        /\ \A m \in net :
              m.src = e => /\ WholeOK(tcb[e], m)
                           /\ Cut(tcb[Peer(e)], m.ackSeq)
                           /\ FinOK(tcb[e], tcb[Peer(e)], written[Peer(e)], m)

\* As long as no close() fails, a FIN follows all bytes, and who takes it to be
\* acknowledged is right.
NoneLost == \A e \in Endpoints : registry[e] # "lost"

EndedOK(t, w, q) ==
    /\ t.state \notin WriteStates \cup {"CLOSE"} =>
          t.sendNext + Len(t.sendBuf) = t.sendInit + w + 2
    /\ t.state \in {"FIN_WAIT2", "TIME_WAIT"} => HasFin(q, t, w)

Ended == \A e \in Endpoints : EndedOK(tcb[e], written[e], tcb[Peer(e)])

\* tcp_send waits for the handshake.
NothingWritten ==
    \A e \in Endpoints : tcb[e].state = "SYN_SENT" => written[e] = 0

=============================================================================
