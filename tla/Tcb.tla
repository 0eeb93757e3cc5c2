-------------------------------- MODULE Tcb --------------------------------
(***************************************************************************)
(* The operations of pnx_tcp.cc on one transmission control block, as pure *)
(* operators: each takes the block (and the segment that arrived) and      *)
(* gives the block after the call and the segments handed to               *)
(* ip_send_packet.  Every caller holds tcp_lock for the whole call, so a    *)
(* call is one step of the system that module Tcp builds from them.        *)
(*                                                                         *)
(* ip_send_packet puts the segment on the sending queue and returns 0 (it  *)
(* waits when the queue is full), so the failure branches behind it are    *)
(* dead and are left out.  Ports, windows and checksums are left out: the  *)
(* window is filled in but never read, and a segment with a wrong checksum *)
(* is a lost one.                                                          *)
(***************************************************************************)
EXTENDS Naturals, Sequences, FiniteSetsExt

CONSTANTS
    SendCapacity,   \* kTcpSendBufferSize: items send.buf can hold
    RecvCapacity,   \* kTcpRecvBufferSize: bytes recv.buf can hold
    MaxPayload,     \* kTcpMaxSegmentSize minus the header: bytes in a segment
    MaxRetrans,     \* kTcpMaxRetrans: retransmissions before giving up
    SeqSpace        \* 2^32: a sequence number is kept modulo SeqSpace

ASSUME TcbAssumption ==
    /\ SendCapacity \in Nat \ {0}
    /\ RecvCapacity \in Nat
    /\ MaxPayload \in Nat \ {0}
    /\ MaxRetrans \in Nat
    /\ SeqSpace \in Nat \ {0}
    /\ MaxPayload + 2 < SeqSpace

-----------------------------------------------------------------------------
(* What the send buffer holds, and what travels between the endpoints.     *)

States == {"NONE", "SYN_SENT", "SYN_RECV", "ESTABLISHED", "FIN_WAIT1",
           "FIN_WAIT2", "CLOSE_WAIT", "CLOSING", "LAST_ACK", "TIME_WAIT",
           "CLOSE"}

Item == [ctrl : {"none", "syn", "fin"}, byte : Nat]
ByteItem(b) == [ctrl |-> "none", byte |-> b]
CtrlItem(c) == [ctrl |-> c, byte |-> 0]

\* A segment names its sender; its receiver is the other endpoint.
Segment(E) == [src : E, syn : BOOLEAN, ack : BOOLEAN, fin : BOOLEAN,
               seq : Nat, ackSeq : Nat, data : Seq(Nat)]

Flag(b) == IF b THEN 1 ELSE 0

HavePayload(seg) == seg.data # <<>>
NeedToAck(seg) == HavePayload(seg) \/ seg.fin \/ seg.syn
IsPureAck(seg) == ~NeedToAck(seg)

\* The sequence numbers a segment uses up: its bytes and its control bits.
SegLen(seg) == Len(seg.data) + Flag(seg.syn) + Flag(seg.fin)

\* uint32_t addition (SeqSpace is never passed twice by one segment).
Plus(x, n) == IF x + n < SeqSpace THEN x + n ELSE x + n - SeqSpace

NoSegment(e) == [src |-> e, syn |-> FALSE, ack |-> FALSE, fin |-> FALSE,
                 seq |-> 0, ackSeq |-> 0, data |-> <<>>]

-----------------------------------------------------------------------------
(* The block itself.                                                       *)

TCB(E) == [local : E, state : States,
           sendInit : Nat, sendNext : Nat, sendUnack : Nat,
           sendBuf : Seq(Item), lastSeg : Segment(E), retransCount : Nat,
           recvInit : Nat, recvNext : Nat, recvBuf : Seq(Nat)]

\* No block has been made for endpoint e yet.
NoTcb(e) == [local |-> e, state |-> "NONE",
             sendInit |-> 0, sendNext |-> 0, sendUnack |-> 0,
             sendBuf |-> <<>>, lastSeg |-> NoSegment(e), retransCount |-> 0,
             recvInit |-> 0, recvNext |-> 0, recvBuf |-> <<>>]

\* _init_TCB without a SYN: an active open that starts at sequence number init.
ActiveTcb(e, init) ==
    [NoTcb(e) EXCEPT !.state = "SYN_SENT", !.sendInit = init,
                     !.sendNext = init, !.sendUnack = init]

\* Mutant: recv.init_seq is taken to be the number after the SYN.
PassiveTcbAfterSyn(e, init, syn) ==
    [NoTcb(e) EXCEPT !.state = "SYN_RECV", !.sendInit = init,
                     !.sendNext = init, !.sendUnack = init,
                     !.recvInit = Plus(syn.seq, 1), !.recvNext = Plus(syn.seq, 1)]

\* _init_TCB with a SYN: a passive open that answers it.
PassiveTcb(e, init, syn) ==
    [NoTcb(e) EXCEPT !.state = "SYN_RECV", !.sendInit = init,
                     !.sendNext = init, !.sendUnack = init,
                     !.recvInit = syn.seq, !.recvNext = Plus(syn.seq, 1)]

\* Mutant: one unacknowledged number does not count.
WaitingForMoreThanOne(tcb) == tcb.sendUnack + 1 < tcb.sendNext

WaitingForAck(tcb) == tcb.sendUnack < tcb.sendNext

SendBufFull(tcb) == Len(tcb.sendBuf) = SendCapacity

\* Mutant: what the application has not read yet is not counted.
RecvRoomOfEmpty(tcb) == RecvCapacity

RecvRoom(tcb) == RecvCapacity - Len(tcb.recvBuf)

-----------------------------------------------------------------------------
(* Sending.  A result is the block after the call and the segments sent.   *)

Result(tcb, out) == [tcb |-> tcb, out |-> out]
Silent(tcb) == Result(tcb, {})

\* Mutant: acknowledges one number too many.
PureAckAhead(tcb) ==
    [src |-> tcb.local, syn |-> FALSE, ack |-> TRUE, fin |-> FALSE,
     seq |-> tcb.sendNext, ackSeq |-> tcb.recvNext + 1, data |-> <<>>]

PureAck(tcb) ==
    [src |-> tcb.local, syn |-> FALSE, ack |-> TRUE, fin |-> FALSE,
     seq |-> tcb.sendNext, ackSeq |-> tcb.recvNext, data |-> <<>>]

\* Mutant: a run of bytes goes on past a control item.
PayloadLenPastCtrl(buf) ==
    IF Head(buf).ctrl # "none" THEN 0 ELSE Min({MaxPayload, Len(buf)})

\* How many bytes go into the next segment: up to MaxPayload of them, stopping
\* before the first control item.
PayloadLen(buf) ==
    Min({i \in 1..Len(buf) : buf[i].ctrl # "none"}
            \cup {MaxPayload + 1, Len(buf) + 1}) - 1

\* The segment made of the head of a non-empty send buffer: one control item
\* alone, or a run of bytes.  Only the first SYN of an active open has no ACK.
NextSegment(tcb) ==
    [src |-> tcb.local,
     syn |-> Head(tcb.sendBuf).ctrl = "syn",
     ack |-> tcb.state # "SYN_SENT",
     fin |-> Head(tcb.sendBuf).ctrl = "fin",
     seq |-> tcb.sendNext,
     ackSeq |-> tcb.recvNext,
     data |-> [i \in 1..PayloadLen(tcb.sendBuf) |-> tcb.sendBuf[i].byte]]

SendSegment(tcb) ==
    IF WaitingForAck(tcb) \/ tcb.sendBuf = <<>>
    THEN Result(tcb, {PureAck(tcb)})
    ELSE LET seg == NextSegment(tcb)
         IN  Result([tcb EXCEPT
                        !.sendNext = Plus(@, SegLen(seg)),
                        !.sendBuf = SubSeq(@, SegLen(seg) + 1, Len(@)),
                        !.lastSeg = seg,
                        !.retransCount = 0],
                    {seg})

\* _tcp_make_sure_sendback: while a segment is unacknowledged nothing is sent,
\* its retransmission will carry the news.
MakeSureSendback(tcb) ==
    IF WaitingForAck(tcb) THEN Silent(tcb) ELSE SendSegment(tcb)

\* Queue items behind what the buffer holds, and send if nothing is in flight.
PushAndSend(tcb, items) ==
    MakeSureSendback([tcb EXCEPT !.sendBuf = @ \o items])

\* Mutant: the control item overtakes the bytes that wait.
SendCtrlFirst(tcb, c) ==
    IF SendBufFull(tcb)
    THEN Silent(tcb)
    ELSE MakeSureSendback([tcb EXCEPT !.sendBuf = <<CtrlItem(c)>> \o @])

\* _tcp_send_ctrl: a full buffer refuses the control item.
SendCtrl(tcb, c) ==
    IF SendBufFull(tcb) THEN Silent(tcb) ELSE PushAndSend(tcb, <<CtrlItem(c)>>)

-----------------------------------------------------------------------------
(* Receiving: one operator per branch of tcp_segment_handler.              *)

\* Mutant: an older acknowledgement is taken, too.
AckAny(tcb, seg) == [tcb EXCEPT !.sendUnack = seg.ackSeq]

\* The acknowledgement update that most branches start with.
Ack(tcb, seg) ==
    IF seg.ackSeq > tcb.sendUnack
    THEN [tcb EXCEPT !.sendUnack = seg.ackSeq]
    ELSE tcb

\* A segment that does not start at recv.next is dropped, but its
\* acknowledgement counts, and the sender is told where we are.
OnOutOfOrder(tcb, seg) == MakeSureSendback(Ack(tcb, seg))

OnSynRecv(tcb, seg) ==
    IF /\ IsPureAck(seg)
       /\ seg.ackSeq = tcb.sendNext
       /\ seg.seq = Plus(tcb.recvInit, 1)
    THEN Silent([Ack(tcb, seg) EXCEPT !.state = "ESTABLISHED"])
    ELSE Silent(tcb)

OnSynSent(tcb, seg) ==
    IF /\ ~HavePayload(seg) /\ seg.syn /\ seg.ack /\ ~seg.fin
       /\ seg.ackSeq = Plus(tcb.sendInit, 1)
    THEN MakeSureSendback([Ack(tcb, seg) EXCEPT
                             !.recvInit = seg.seq,
                             !.recvNext = Plus(seg.seq, 1),
                             !.state = "ESTABLISHED"])
    ELSE Silent(tcb)

\* push_all took the bytes; a FIN counts as one more number.
Take(tcb, seg) ==
    [tcb EXCEPT !.recvBuf = @ \o seg.data,
                !.recvNext = Plus(@, Len(seg.data) + Flag(seg.fin)),
                !.state = IF seg.fin THEN "CLOSE_WAIT" ELSE @]

\* Mutant: recv.next moves on although push_all refused the bytes.
CountRefused(tcb, seg) ==
    LET acked == Ack(tcb, seg)
        counted == [acked EXCEPT !.recvNext = Plus(@, Len(seg.data))]
    IN  CASE Len(seg.data) > RecvRoom(tcb) -> MakeSureSendback(counted)
          [] Len(seg.data) <= RecvRoom(tcb) /\ NeedToAck(seg) ->
                MakeSureSendback(Take(acked, seg))
          [] OTHER -> Silent(Take(acked, seg))

\* Bytes are taken all together or, when the buffer cannot hold them, not at
\* all and without an answer.
OnEstablished(tcb, seg) ==
    LET acked == Ack(tcb, seg)
    IN  CASE Len(seg.data) > RecvRoom(tcb) -> Silent(acked)
          [] Len(seg.data) <= RecvRoom(tcb) /\ NeedToAck(seg) ->
                MakeSureSendback(Take(acked, seg))
          [] OTHER -> Silent(Take(acked, seg))

\* Mutant: our FIN counts as acknowledged once it has been sent.
AllSent(tcb) == tcb.sendBuf = <<>>

\* Everything has been sent and acknowledged, our FIN included.
FinAcked(tcb) == tcb.sendBuf = <<>> /\ ~WaitingForAck(tcb)

\* Only the acknowledgement of a segment with bytes counts in FIN_WAIT1.  The
\* peer's FIN is answered before the state changes; without one, FIN_WAIT2 is
\* reached once our own FIN is sent and acknowledged.
OnFinWait1(tcb, seg) ==
    LET acked == Ack(tcb, seg)
        answer == MakeSureSendback([acked EXCEPT !.recvNext = Plus(@, 1)])
    IN  CASE HavePayload(seg) \/ seg.syn -> Silent(acked)
          [] ~HavePayload(seg) /\ ~seg.syn /\ seg.fin ->
                Result([answer.tcb EXCEPT !.state =
                            IF WaitingForAck(answer.tcb) THEN "CLOSING"
                                                         ELSE "TIME_WAIT"],
                       answer.out)
          [] IsPureAck(seg) /\ FinAcked(acked) ->
                Silent([acked EXCEPT !.state = "FIN_WAIT2"])
          [] OTHER -> Silent(acked)

OnFinWait2(tcb, seg) ==
    LET acked == Ack(tcb, seg)
    IN  IF HavePayload(seg) \/ seg.syn \/ ~seg.fin
        THEN Silent(acked)
        ELSE MakeSureSendback([acked EXCEPT !.recvNext = Plus(@, 1),
                                            !.state = "TIME_WAIT"])

OnCloseWait(tcb, seg) == Silent(tcb)

OnClosing(tcb, seg) ==
    IF IsPureAck(seg) /\ seg.ackSeq = tcb.sendNext
    THEN Silent([tcb EXCEPT !.state = "TIME_WAIT"])
    ELSE Silent(tcb)

\* Mutant: any pure ACK ends the connection.
OnLastAckAny(tcb, seg) ==
    IF IsPureAck(seg)
    THEN Silent([tcb EXCEPT !.state = "CLOSE", !.sendUnack = Plus(@, 1)])
    ELSE Silent(tcb)

OnLastAck(tcb, seg) ==
    IF IsPureAck(seg) /\ seg.ackSeq = tcb.sendNext
    THEN Silent([tcb EXCEPT !.state = "CLOSE",
                            !.sendUnack = Plus(@, 1)])
    ELSE Silent(tcb)

OnTimeWait(tcb, seg) == Silent(tcb)

-----------------------------------------------------------------------------
(* Closing and the timer.                                                  *)

\* _tcp_close refuses when the FIN does not fit in the send buffer ...
CloseFails(tcb) ==
    /\ tcb.state \in {"SYN_RECV", "ESTABLISHED", "CLOSE_WAIT"}
    /\ SendBufFull(tcb)

\* Mutant: all that can send a FIN go to FIN_WAIT1.
CloseTcbAlike(tcb) ==
    CASE tcb.state = "SYN_SENT" -> Silent([tcb EXCEPT !.state = "CLOSE"])
      [] tcb.state \in {"SYN_RECV", "ESTABLISHED", "CLOSE_WAIT"} ->
            SendCtrl([tcb EXCEPT !.state = "FIN_WAIT1"], "fin")
      [] OTHER -> Silent(tcb)

\* ... but the state has changed by then.
CloseTcb(tcb) ==
    CASE tcb.state = "SYN_SENT" -> Silent([tcb EXCEPT !.state = "CLOSE"])
      [] tcb.state \in {"SYN_RECV", "ESTABLISHED"} ->
            SendCtrl([tcb EXCEPT !.state = "FIN_WAIT1"], "fin")
      [] tcb.state = "CLOSE_WAIT" ->
            SendCtrl([tcb EXCEPT !.state = "LAST_ACK"], "fin")
      [] OTHER -> Silent(tcb)

\* Mutant: the retransmissions are not counted.
RetransmitForever(tcb) ==
    LET seg == [tcb.lastSeg EXCEPT !.ackSeq = tcb.recvNext]
    IN  Result([tcb EXCEPT !.lastSeg = seg], {seg})

\* The timer's answer to a segment unacknowledged for kTcpTimeout: send it
\* again with the current acknowledgement, or give the connection up.
Retransmit(tcb) ==
    LET seg == [tcb.lastSeg EXCEPT !.ackSeq = tcb.recvNext]
    IN  IF tcb.retransCount >= MaxRetrans
        THEN Silent([tcb EXCEPT !.state = "CLOSE"])
        ELSE Result([tcb EXCEPT !.lastSeg = seg,
                                !.retransCount = @ + 1],
                    {seg})

=============================================================================
