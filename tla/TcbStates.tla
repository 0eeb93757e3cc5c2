----------------------------- MODULE TcbStates -----------------------------
(***************************************************************************)
(* A block of pnx_tcp.cc as the socket layer and the recycler see it: its  *)
(* state, whether a segment is unacknowledged, and how much waits in its   *)
(* two buffers.  Each operator gives the set of blocks an operation can    *)
(* leave behind, whatever the segments say; module Tcp, which knows what   *)
(* they say, takes no other step (BlocksStepAsSeen of TcpProperties).      *)
(***************************************************************************)
EXTENDS Naturals

CONSTANTS
    SendSlots,   \* kTcpSendBufferSize: items send.buf can hold
    RecvSlots    \* kTcpRecvBufferSize: bytes recv.buf can hold

ASSUME RoomAssumption == SendSlots \in Nat \ {0} /\ RecvSlots \in Nat

States == {"NONE", "SYN_SENT", "SYN_RECV", "ESTABLISHED", "FIN_WAIT1",
           "FIN_WAIT2", "CLOSE_WAIT", "CLOSING", "LAST_ACK", "TIME_WAIT",
           "CLOSE"}

Block == [state : States, waiting : BOOLEAN,
          unsent : 0..SendSlots, unread : 0..RecvSlots]

NoBlock == [state |-> "NONE", waiting |-> FALSE, unsent |-> 0, unread |-> 0]

\* _init_TCB, and the SYN that is sent at once.
Opened(passive) ==
    [NoBlock EXCEPT !.state = IF passive THEN "SYN_RECV" ELSE "SYN_SENT",
                    !.waiting = TRUE]

-----------------------------------------------------------------------------

\* _tcp_make_sure_sendback
Sendback(b) ==
    IF b.waiting \/ b.unsent = 0 THEN {b}
    ELSE {[b EXCEPT !.waiting = TRUE, !.unsent = @ - n] : n \in 1..b.unsent}

\* The acknowledgement update: all that was sent is acknowledged, or not.
Acked(b) == {b, [b EXCEPT !.waiting = FALSE]}

AckedSendback(b) == UNION {Sendback(a) : a \in Acked(b)}

In(state, B) == {[b EXCEPT !.state = state] : b \in B}

\* What a segment's bytes do to an established block (a FIN comes without any).
Filled(b) == {[b EXCEPT !.unread = n] : n \in b.unread .. RecvSlots}

AllFilled(B) == UNION {Filled(b) : b \in B}

\* tcp_segment_handler, in order or not.
OnSegment(b) ==
    LET acked == [b EXCEPT !.waiting = FALSE]
        idle == {a \in Acked(b) : ~a.waiting /\ a.unsent = 0}
        answered == AckedSendback(b)
        inOrder ==
            CASE b.state = "SYN_RECV" -> In("ESTABLISHED", {acked})
              [] b.state = "SYN_SENT" -> In("ESTABLISHED", Sendback(acked))
              [] b.state = "ESTABLISHED" ->
                   AllFilled(Acked(b) \cup answered)
                     \cup In("CLOSE_WAIT", answered)
              [] b.state = "FIN_WAIT1" ->
                   In("CLOSING", {a \in answered : a.waiting})
                     \cup In("TIME_WAIT", {a \in answered : ~a.waiting})
                     \cup In("FIN_WAIT2", idle)
              [] b.state = "FIN_WAIT2" -> In("TIME_WAIT", answered)
              [] b.state = "CLOSING" -> In("TIME_WAIT", {b})
              [] b.state = "LAST_ACK" -> In("CLOSE", {acked})
              [] OTHER -> {}
    IN  CASE b.state = "CLOSE" -> {b}
          [] b.state = "SYN_SENT" -> {b} \cup inOrder
          [] OTHER -> Acked(b) \cup answered \cup inOrder

\* _tcp_timer: the end of TIME_WAIT, or of the retransmissions.
OnTimer(b) ==
    CASE b.state = "TIME_WAIT" -> {b, [b EXCEPT !.state = "CLOSE"]}
      [] b.state \notin {"TIME_WAIT", "CLOSE"} /\ b.waiting ->
            {b, [b EXCEPT !.state = "CLOSE"]}
      [] OTHER -> {b}

-----------------------------------------------------------------------------

CanSend(b) == b.state \in {"ESTABLISHED", "CLOSE_WAIT"}
NoDataIncoming(b) ==
    b.state \in {"CLOSE", "CLOSE_WAIT", "CLOSING", "LAST_ACK", "TIME_WAIT"}

\* tcp_send of n bytes pushes those that fit (n = 0: returns at once).
Pushed(b, n) == IF n <= SendSlots - b.unsent THEN n ELSE SendSlots - b.unsent
Sent(b, n) == IF n = 0 THEN {b}
              ELSE Sendback([b EXCEPT !.unsent = @ + Pushed(b, n)])

\* tcp_receive
Taken(b, n) == IF n <= b.unread THEN n ELSE b.unread
Received(b, n) == [b EXCEPT !.unread = @ - Taken(b, n)]

\* The FIN does not fit in the send buffer.
CloseFails(b) ==
    /\ b.state \in {"SYN_RECV", "ESTABLISHED", "CLOSE_WAIT"}
    /\ b.unsent = SendSlots

\* _tcp_close, up to the orphan queue.
Closed(b) ==
    LET closing == [b EXCEPT !.state = CASE @ = "SYN_SENT" -> "CLOSE"
                                         [] @ = "CLOSE_WAIT" -> "LAST_ACK"
                                         [] @ \in {"SYN_RECV", "ESTABLISHED"} ->
                                              "FIN_WAIT1"
                                         [] OTHER -> @]
        sendsFin == b.state \in {"SYN_RECV", "ESTABLISHED", "CLOSE_WAIT"}
    IN  IF sendsFin /\ ~CloseFails(b)
        THEN Sendback([closing EXCEPT !.unsent = @ + 1])
        ELSE {closing}

=============================================================================
