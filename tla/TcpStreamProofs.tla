-------------------------- MODULE TcpStreamProofs --------------------------
(***************************************************************************)
(* A connection implements a pair of reliable streams, for every value of  *)
(* the constants, as long as the sequence numbers do not wrap: every step  *)
(* of module Tcp that starts in a state of the inductive invariant is a    *)
(* step of ReliableStream or changes nothing that an application can see.  *)
(***************************************************************************)
EXTENDS TcpSafetyProofs

-----------------------------------------------------------------------------
(* How one operation moves a block on.                                     *)

\* Nothing that the applications or the peer's acknowledgements show changes.
Alike(t, u) ==
    /\ u.state = t.state /\ u.sendUnack = t.sendUnack
    /\ u.recvNext = t.recvNext /\ u.recvBuf = t.recvBuf

\* t becomes u: bytes are taken, or something without bytes is counted, or
\* neither; our stream may only end when neither happens.
MovesOn(t, u) ==
    /\ t.state \notin WriteStates => u.state \notin WriteStates
    /\ t.state \notin {"NONE", "SYN_SENT"} =>
          /\ u.state \notin {"NONE", "SYN_SENT"}
          /\ t.sendUnack <= u.sendUnack
    /\ t.recvNext <= u.recvNext
    /\ Len(t.recvBuf) <= Len(u.recvBuf)
    /\ \/ u.recvNext = t.recvNext /\ Len(u.recvBuf) = Len(t.recvBuf)
       \/ /\ u.state \in WriteStates <=> t.state \in WriteStates
          /\ \/ Len(u.recvBuf) = Len(t.recvBuf)
             \/ u.recvNext + Len(t.recvBuf) = t.recvNext + Len(u.recvBuf)

LEMMA SendbackAlike ==
    ASSUME NEW e \in Endpoints, NEW t \in Block(Endpoints, e)
    PROVE  Alike(t, MakeSureSendback(t).tcb)
<1>1. t \in TCB(Endpoints)
  BY DEF Block
<1>2. Alike(t, Silent(t).tcb)
  BY DEF Alike, Silent, Result
<1>3. Alike(t, SendSegment(t).tcb)
  <2>1. CASE WaitingForAck(t) \/ t.sendBuf = <<>>
    BY <2>1 DEF SendSegment, Alike, Result
  <2>2. CASE ~(WaitingForAck(t) \/ t.sendBuf = <<>>)
    <3> DEFINE m == NextSegment(t)
               next == Plus(t.sendNext, SegLen(m))
               rest == SubSeq(t.sendBuf, SegLen(m) + 1, Len(t.sendBuf))
               u == [t EXCEPT !.sendNext = next, !.sendBuf = rest,
                              !.lastSeg = m, !.retransCount = 0]
    <3>1. SendSegment(t).tcb = u
      BY <2>2 DEF SendSegment, Result
    <3> HIDE DEF m, next, rest
    <3>2. Alike(t, u)
      BY <1>1 DEF Alike, TCB
    <3> QED
      BY <3>1, <3>2
  <2> QED
    BY <2>1, <2>2
<1> QED
  BY <1>2, <1>3 DEF MakeSureSendback

LEMMA PushAlike ==
    ASSUME NEW e \in Endpoints, NEW t \in Block(Endpoints, e),
           NEW items \in Seq(Item), Len(t.sendBuf) + Len(items) <= SendCapacity
    PROVE  Alike(t, PushAndSend(t, items).tcb)
<1> DEFINE v == [t EXCEPT !.sendBuf = t.sendBuf \o items]
<1>1. t \in TCB(Endpoints) /\ t.sendBuf \in Seq(Item) /\ t.local = e /\ Fits(t)
  BY DEF Block, TCB
<1>2. /\ t.sendBuf \o items \in Seq(Item)
      /\ Len(t.sendBuf \o items) = Len(t.sendBuf) + Len(items)
  BY <1>1, ConcatProperties
<1>3. v \in Block(Endpoints, e) /\ Alike(t, v)
  BY <1>1, <1>2 DEF Block, Fits, TCB, Alike
<1>4. PushAndSend(t, items) = MakeSureSendback(v)
  BY DEF PushAndSend
<1> HIDE DEF v
<1>5. Alike(v, MakeSureSendback(v).tcb)
  BY <1>3, SendbackAlike
<1> QED
  BY <1>3, <1>4, <1>5 DEF Alike

LEMMA CtrlAlike ==
    ASSUME NEW e \in Endpoints, NEW t \in Block(Endpoints, e),
           NEW c \in {"syn", "fin"}
    PROVE  Alike(t, SendCtrl(t, c).tcb)
<1>1. CASE SendBufFull(t)
  BY <1>1 DEF SendCtrl, Silent, Result, Alike
<1>2. CASE ~SendBufFull(t)
  <2>1. <<CtrlItem(c)>> \in Seq(Item) /\ Len(<<CtrlItem(c)>>) = 1
    BY DEF CtrlItem, Item
  <2>2. Len(t.sendBuf) \in Nat /\ Len(t.sendBuf) <= SendCapacity
    BY DEF Block, Fits, TCB
  <2>3. Len(t.sendBuf) + 1 <= SendCapacity
    BY <1>2, <2>2, TcbAssumption DEF SendBufFull
  <2> QED
    BY <1>2, <2>1, <2>3, PushAlike DEF SendCtrl
<1> QED
  BY <1>1, <1>2

LEMMA AckMoves ==
    ASSUME NEW e \in Endpoints, NEW t \in Block(Endpoints, e),
           NEW m \in Segment(Endpoints)
    PROVE  LET a == Ack(t, m)
           IN  /\ a \in Block(Endpoints, e)
               /\ a.state = t.state /\ t.sendUnack <= a.sendUnack
               /\ a.recvNext = t.recvNext /\ a.recvBuf = t.recvBuf
<1> DEFINE a == Ack(t, m)
<1>1. a \in Block(Endpoints, e)
  BY AckType
<1>2. t \in TCB(Endpoints) /\ t.sendUnack \in Nat /\ m.ackSeq \in Nat
  BY BlockFields, SegmentFields
<1>3. /\ a.state = t.state
      /\ a.recvNext = t.recvNext /\ a.recvBuf = t.recvBuf
      /\ a.sendUnack = IF m.ackSeq > t.sendUnack THEN m.ackSeq ELSE t.sendUnack
  BY <1>2 DEF Ack, TCB
<1> HIDE DEF a
<1> QED
  BY <1>1, <1>2, <1>3 DEF a

\* The receiving half stays as it is, and the state may move on.
LEMMA StateMoves ==
    ASSUME NEW e \in Endpoints, NEW t \in Block(Endpoints, e), NEW u,
           u.recvNext = t.recvNext, u.recvBuf = t.recvBuf,
           t.sendUnack <= u.sendUnack,
           t.state \notin WriteStates => u.state \notin WriteStates,
           u.state \notin {"NONE", "SYN_SENT"} \/ u.state = t.state
    PROVE  MovesOn(t, u)
<1>1. t.recvNext \in Nat /\ Len(t.recvBuf) \in Nat
  BY BlockFields
<1> QED
  BY <1>1 DEF MovesOn

\* A segment that is not in order, or that the state has no use for, moves
\* nothing but the acknowledgement.
LEMMA OutOfOrderMoves ==
    ASSUME NEW e \in Endpoints, NEW t \in Block(Endpoints, e),
           NEW m \in Segment(Endpoints)
    PROVE  MovesOn(t, OnOutOfOrder(t, m).tcb)
<1> DEFINE a == Ack(t, m)
           u == MakeSureSendback(a).tcb
<1>1. /\ a \in Block(Endpoints, e)
      /\ a.state = t.state /\ t.sendUnack <= a.sendUnack
      /\ a.recvNext = t.recvNext /\ a.recvBuf = t.recvBuf
  BY AckMoves
<1> HIDE DEF a
<1>2. Alike(a, u)
  BY <1>1, SendbackAlike
<1> HIDE DEF u
<1>3. MovesOn(t, u)
  BY <1>1, <1>2, StateMoves DEF Alike
<1> QED
  BY <1>3 DEF OnOutOfOrder, u, a

LEMMA SynRecvMoves ==
    ASSUME NEW e \in Endpoints, NEW t \in Block(Endpoints, e),
           t.state = "SYN_RECV", NEW m \in Segment(Endpoints)
    PROVE  MovesOn(t, OnSynRecv(t, m).tcb)
<1> DEFINE a == Ack(t, m)
           u == [a EXCEPT !.state = "ESTABLISHED"]
<1>1. /\ a \in Block(Endpoints, e)
      /\ a.state = t.state /\ t.sendUnack <= a.sendUnack
      /\ a.recvNext = t.recvNext /\ a.recvBuf = t.recvBuf
  BY AckMoves
<1>2. OnSynRecv(t, m).tcb \in {u, t}
  BY DEF OnSynRecv, Silent, Result
<1> HIDE DEF a
<1>3. /\ u.state = "ESTABLISHED" /\ t.sendUnack <= u.sendUnack
      /\ u.recvNext = t.recvNext /\ u.recvBuf = t.recvBuf
  BY <1>1 DEF Block, TCB
<1> HIDE DEF u
<1>4. MovesOn(t, u)
  BY <1>3, StateMoves DEF WriteStates
<1>5. MovesOn(t, t)
  BY BlockFields, StateMoves
<1> QED
  BY <1>2, <1>4, <1>5

LEMMA SynSentMoves ==
    ASSUME NEW e \in Endpoints, NEW t \in Block(Endpoints, e),
           t.state = "SYN_SENT", NEW m \in Segment(Endpoints),
           t.recvNext <= OnSynSent(t, m).tcb.recvNext
    PROVE  MovesOn(t, OnSynSent(t, m).tcb)
<1> DEFINE a == Ack(t, m)
           init == m.seq
           next == Plus(m.seq, 1)
           v == [a EXCEPT !.recvInit = init, !.recvNext = next,
                          !.state = "ESTABLISHED"]
           u == MakeSureSendback(v).tcb
<1>1. /\ a \in Block(Endpoints, e) /\ a.recvBuf = t.recvBuf
  BY AckMoves
<1>2. init \in Nat /\ next \in Nat
  BY SegmentFields, PlusType
<1>3. OnSynSent(t, m).tcb \in {u, t}
  BY DEF OnSynSent, Silent, Result
<1> HIDE DEF a, init, next
<1>4. /\ v \in Block(Endpoints, e)
      /\ v.state = "ESTABLISHED" /\ v.recvBuf = t.recvBuf
  BY <1>1, <1>2 DEF Block, Fits, TCB, States
<1> HIDE DEF v
<1>5. Alike(v, u)
  BY <1>4, SendbackAlike
<1> HIDE DEF u
<1>6. Len(t.recvBuf) \in Nat
  BY BlockFields
<1>7. t.recvNext <= u.recvNext => MovesOn(t, u)
  BY <1>4, <1>5, <1>6 DEF Alike, MovesOn, WriteStates
<1>8. MovesOn(t, t)
  BY BlockFields, StateMoves
<1> QED
  BY <1>3, <1>7, <1>8

LEMMA ClosingMoves ==
    ASSUME NEW e \in Endpoints, NEW t \in Block(Endpoints, e),
           NEW s \in {"CLOSE", "TIME_WAIT", "FIN_WAIT2"}
    PROVE  MovesOn(t, [t EXCEPT !.state = s])
<1> DEFINE u == [t EXCEPT !.state = s]
<1>1. /\ u.state = s /\ u.sendUnack = t.sendUnack
      /\ u.recvNext = t.recvNext /\ u.recvBuf = t.recvBuf
  BY DEF Block, TCB
<1> HIDE DEF u
<1>2. t.sendUnack <= u.sendUnack
  BY <1>1, BlockFields
<1>3. MovesOn(t, u)
  BY <1>1, <1>2, StateMoves DEF WriteStates
<1> QED
  BY <1>3 DEF u

\* An operation after an acknowledgement.
LEMMA AckThenMoves ==
    ASSUME NEW e \in Endpoints, NEW t \in Block(Endpoints, e),
           NEW m \in Segment(Endpoints), NEW u, u.sendUnack \in Nat,
           MovesOn(Ack(t, m), u)
    PROVE  MovesOn(t, u)
<1> DEFINE a == Ack(t, m)
<1>1. /\ a \in Block(Endpoints, e)
      /\ a.state = t.state /\ t.sendUnack <= a.sendUnack
      /\ a.recvNext = t.recvNext /\ a.recvBuf = t.recvBuf
  BY AckMoves
<1>2. a.sendUnack \in Nat /\ t.sendUnack \in Nat
  BY <1>1, BlockFields
<1> HIDE DEF a
<1>3. MovesOn(a, u)
  BY DEF a
<1>4. a.sendUnack <= u.sendUnack => t.sendUnack <= u.sendUnack
  BY <1>1, <1>2
<1> QED
  BY <1>1, <1>3, <1>4 DEF MovesOn

\* Bytes, or a FIN without bytes.
LEMMA TakeMoves ==
    ASSUME NoWrap, NEW e \in Endpoints, NEW t, NEW w, NEW q, NEW wq, NEW d,
           Sound(e, t, w, q, wq, d), t.state = "ESTABLISHED",
           NEW m, Heard(m, q, wq), m.seq = t.recvNext
    PROVE  MovesOn(t, Take(t, m))
<1> DEFINE k == Len(m.data)
           y == Len(t.recvBuf)
           n == Len(d) + Len(t.recvBuf)
           next == Plus(t.recvNext, k + Flag(m.fin))
           s == IF m.fin THEN "CLOSE_WAIT" ELSE t.state
           buf == t.recvBuf \o m.data
           u == Take(t, m)
<1>1. /\ t \in Block(Endpoints, e) /\ t \in TCB(Endpoints)
      /\ q \in Block(Endpoints, Peer(e)) /\ Peer(e) \in Endpoints
      /\ m \in Segment(Endpoints) /\ wq \in Nat
  BY EndpointsDef DEF Sound, SenderSide, Heard, Block
<1>2. /\ ~m.syn /\ ~NotOpened(q)
      /\ n \in Nat /\ k \in Nat
      /\ t.recvInit = q.sendInit
      /\ t.recvNext = q.sendInit + 1 + n
      /\ n + k <= wq
      /\ \A i \in 1..k : m.data[i] = n + i
      /\ ~m.fin => /\ Plus(t.recvNext, k) = q.sendInit + 1 + n + k
                   /\ q.sendInit + 1 + n + k <= q.sendNext
      /\ m.fin => /\ m.data = <<>> /\ n = wq
                  /\ Plus(t.recvNext, 1) = q.sendInit + wq + 2
                  /\ q.sendInit + wq + 2 <= q.sendNext
                  /\ q.state \notin WriteStates
  BY InOrderSays DEF FinStates
<1>3. /\ t.recvBuf \in Seq(Nat) /\ m.data \in Seq(Nat) /\ y \in Nat
      /\ t.recvNext \in Nat /\ q.sendInit \in Nat /\ t.sendUnack \in Nat
  BY <1>1, BlockFields, SegmentFields
<1>4. /\ u.state = s /\ u.sendUnack = t.sendUnack
      /\ u.recvNext = next /\ u.recvBuf = buf
  BY <1>1 DEF Take, TCB
<1>5. Len(buf) = y + k
  BY <1>3, Concatenation
<1>6. s \in {"ESTABLISHED", "CLOSE_WAIT"}
  OBVIOUS
<1> HIDE DEF u, s, buf
<1>7. \/ next = t.recvNext + k
      \/ k = 0 /\ next = t.recvNext + 1
  <2>1. CASE m.fin
    <3>1. k = 0 /\ k + Flag(m.fin) = 1
      BY <1>2, <2>1 DEF Flag
    <3>2. next = Plus(t.recvNext, 1) /\ n = wq
      BY <1>2, <2>1, <3>1
    <3> HIDE DEF next, n, k
    <3>3. Plus(t.recvNext, 1) = q.sendInit + wq + 2
      BY <1>2, <2>1
    <3> QED
      BY <1>1, <1>2, <1>3, <3>1, <3>2, <3>3
  <2>2. CASE ~m.fin
    <3>1. k + Flag(m.fin) = k
      BY <1>2, <2>2 DEF Flag
    <3>2. next = Plus(t.recvNext, k)
      BY <3>1
    <3>3. Plus(t.recvNext, k) = q.sendInit + 1 + n + k
      BY <1>2, <2>2
    <3>4. k \in Nat /\ n \in Nat /\ t.recvNext = q.sendInit + 1 + n
      BY <1>2
    <3> HIDE DEF next, n, k
    <3> QED
      BY <1>3, <3>2, <3>3, <3>4
  <2> QED
    BY <2>1, <2>2
<1> HIDE DEF next, n, k, y
<1>8. /\ t.recvNext <= next /\ y <= y + k
      /\ y + k = y \/ next + y = t.recvNext + (y + k)
  BY <1>2, <1>3, <1>7
<1>9. /\ u.state \in WriteStates /\ t.state \in WriteStates
      /\ u.state \notin {"NONE", "SYN_SENT"}
      /\ t.sendUnack <= u.sendUnack
  BY <1>3, <1>4, <1>6 DEF WriteStates
<1>10. /\ t.recvNext <= u.recvNext
       /\ Len(t.recvBuf) <= Len(u.recvBuf)
       /\ \/ Len(u.recvBuf) = Len(t.recvBuf)
          \/ u.recvNext + Len(t.recvBuf) = t.recvNext + Len(u.recvBuf)
  BY <1>4, <1>5, <1>8, Zenon DEF y
<1>11. MovesOn(t, u)
  BY <1>9, <1>10, Zenon DEF MovesOn
<1> QED
  BY <1>11 DEF u

LEMMA EstablishedMoves ==
    ASSUME NoWrap, NEW e \in Endpoints, NEW t, NEW w, NEW q, NEW wq, NEW d,
           Sound(e, t, w, q, wq, d), t.state = "ESTABLISHED",
           NEW m, Heard(m, q, wq), m.seq = t.recvNext
    PROVE  MovesOn(t, OnEstablished(t, m).tcb)
<1> DEFINE a == Ack(t, m)
           v == Take(a, m)
           u == MakeSureSendback(v).tcb
<1>1. /\ t \in Block(Endpoints, e) /\ m \in Segment(Endpoints)
      /\ m.ackSeq <= q.recvNext
  BY DEF Heard, SegmentOK, Sound, SenderSide
<1>2. /\ a \in Block(Endpoints, e) /\ Sound(e, a, w, q, wq, d)
      /\ a.state = "ESTABLISHED" /\ m.seq = a.recvNext
      /\ a.recvBuf = t.recvBuf
  BY <1>1, AckMoves, AckSafe
<1>3. MovesOn(a, a) /\ a.sendUnack \in Nat
  BY <1>2, BlockFields, StateMoves
<1>4. MovesOn(t, a)
  BY <1>1, <1>3, AckThenMoves
<1>5. RecvRoom(t) \in Int /\ Len(m.data) \in Nat
  <2>1. Len(m.data) \in Nat /\ t.recvBuf \in Seq(Nat)
    BY <1>1, BlockFields, SegmentFields
  <2>2. Len(t.recvBuf) \in Nat
    BY <2>1
  <2> QED
    BY <2>1, <2>2, TcbAssumption DEF RecvRoom
<1>6. CASE Len(m.data) > RecvRoom(t)
  <2>1. ~(Len(m.data) <= RecvRoom(t))
    BY <1>5, <1>6
  <2>2. OnEstablished(t, m).tcb = a
    BY <1>6, <2>1 DEF OnEstablished, Silent, Result
  <2> QED
    BY <1>4, <2>2
<1>7. CASE ~(Len(m.data) > RecvRoom(t))
  <2>1. Len(m.data) <= RecvRoom(t)
    BY <1>5, <1>7
  <2>2. OnEstablished(t, m).tcb \in {u, v}
    BY <1>7, <2>1 DEF OnEstablished, Silent, Result
  <2>3. Len(m.data) <= RecvRoom(a)
    BY <1>2, <2>1 DEF RecvRoom
  <2> HIDE DEF a
  <2>4. MovesOn(a, v)
    BY <1>2, TakeMoves
  <2>5. v \in Block(Endpoints, e)
    BY <1>1, <1>2, <2>3, TakeType
  <2> HIDE DEF v
  <2>6. Alike(v, u)
    BY <2>5, SendbackAlike
  <2> HIDE DEF u
  <2>7. MovesOn(a, u)
    BY <2>4, <2>6 DEF Alike, MovesOn
  <2>8. u.sendUnack \in Nat /\ v.sendUnack \in Nat
    BY <2>5, <2>6, BlockFields DEF Alike
  <2>9. MovesOn(t, u) /\ MovesOn(t, v)
    BY <1>1, <2>4, <2>7, <2>8, AckThenMoves DEF a
  <2> QED
    BY <2>2, <2>9
<1> QED
  BY <1>6, <1>7

\* A FIN counts, without bytes, in states whose own stream has ended.
LEMMA FinMoves ==
    ASSUME NEW e \in Endpoints, NEW t \in Block(Endpoints, e),
           t.state \in {"FIN_WAIT1", "FIN_WAIT2"}, NEW u,
           u.state \in {"FIN_WAIT1", "FIN_WAIT2", "CLOSING", "TIME_WAIT"},
           t.recvNext <= u.recvNext, u.recvBuf = t.recvBuf,
           t.sendUnack <= u.sendUnack
    PROVE  MovesOn(t, u)
<1>1. Len(t.recvBuf) \in Nat
  BY BlockFields
<1> QED
  BY <1>1 DEF MovesOn, WriteStates

LEMMA FinWait1Moves ==
    ASSUME NEW e \in Endpoints, NEW t \in Block(Endpoints, e),
           t.state = "FIN_WAIT1", NEW m \in Segment(Endpoints),
           t.recvNext <= OnFinWait1(t, m).tcb.recvNext
    PROVE  MovesOn(t, OnFinWait1(t, m).tcb)
<1> DEFINE a == Ack(t, m)
           next == Plus(a.recvNext, 1)
           v == [a EXCEPT !.recvNext = next]
           answer == MakeSureSendback(v)
           s == IF WaitingForAck(answer.tcb) THEN "CLOSING" ELSE "TIME_WAIT"
           x == answer.tcb
           u == [x EXCEPT !.state = s]
           z == [a EXCEPT !.state = "FIN_WAIT2"]
<1>1. /\ a \in Block(Endpoints, e)
      /\ a.state = t.state /\ t.sendUnack <= a.sendUnack
      /\ a.recvNext = t.recvNext /\ a.recvBuf = t.recvBuf
  BY AckMoves
<1>2. OnFinWait1(t, m).tcb \in {a, u, z}
  <2>1. \/ HavePayload(m) \/ m.syn
        \/ ~HavePayload(m) /\ ~m.syn /\ m.fin
        \/ IsPureAck(m) /\ FinAcked(a)
        \/ ~(\/ HavePayload(m) \/ m.syn
             \/ ~HavePayload(m) /\ ~m.syn /\ m.fin
             \/ IsPureAck(m) /\ FinAcked(a))
    OBVIOUS
  <2>2. OnFinWait1(t, m) \in
           {Silent(a), Result(u, answer.out), Silent(z)}
    BY <2>1 DEF OnFinWait1, IsPureAck, NeedToAck
  <2> QED
    BY <2>2 DEF Silent, Result
<1>3. next \in Nat
  BY <1>1, BlockFields, PlusType
<1> HIDE DEF a, next
<1>4. /\ v \in Block(Endpoints, e)
      /\ v.sendUnack = a.sendUnack /\ v.recvBuf = a.recvBuf
  BY <1>1, <1>3, SettingType, ZenonT(60) DEF Block, TCB
<1> HIDE DEF v
<1>5. Alike(v, x) /\ x \in Block(Endpoints, e)
  BY <1>4, SendbackAlike, MakeSureSendbackType DEF Typed
<1> HIDE DEF answer
<1>6. /\ u.state \in {"CLOSING", "TIME_WAIT"}
      /\ u.recvBuf = t.recvBuf /\ t.sendUnack <= u.sendUnack
  BY <1>1, <1>4, <1>5 DEF Alike, Block, TCB
<1>7. /\ z.state = "FIN_WAIT2" /\ z.recvNext = t.recvNext
      /\ z.recvBuf = t.recvBuf /\ t.sendUnack <= z.sendUnack
  BY <1>1 DEF Block, TCB
<1> HIDE DEF u, z
<1>8. t.recvNext <= u.recvNext => MovesOn(t, u)
  BY <1>6, FinMoves
<1>9. MovesOn(t, z) /\ MovesOn(t, a)
  BY <1>1, <1>7, BlockFields, FinMoves
<1> QED
  BY <1>2, <1>8, <1>9

LEMMA FinWait2Moves ==
    ASSUME NEW e \in Endpoints, NEW t \in Block(Endpoints, e),
           t.state = "FIN_WAIT2", NEW m \in Segment(Endpoints),
           t.recvNext <= OnFinWait2(t, m).tcb.recvNext
    PROVE  MovesOn(t, OnFinWait2(t, m).tcb)
<1> DEFINE a == Ack(t, m)
           next == Plus(a.recvNext, 1)
           v == [a EXCEPT !.recvNext = next, !.state = "TIME_WAIT"]
           u == MakeSureSendback(v).tcb
<1>1. /\ a \in Block(Endpoints, e)
      /\ a.state = t.state /\ t.sendUnack <= a.sendUnack
      /\ a.recvNext = t.recvNext /\ a.recvBuf = t.recvBuf
  BY AckMoves
<1>2. OnFinWait2(t, m).tcb \in {a, u}
  BY DEF OnFinWait2, Silent, Result
<1>3. next \in Nat
  BY <1>1, BlockFields, PlusType
<1> HIDE DEF a, next
<1>4. /\ v \in Block(Endpoints, e) /\ v.state = "TIME_WAIT"
      /\ v.sendUnack = a.sendUnack /\ v.recvBuf = a.recvBuf
  BY <1>1, <1>3 DEF Block, Fits, TCB, States
<1> HIDE DEF v
<1>5. Alike(v, u)
  BY <1>4, SendbackAlike
<1> HIDE DEF u
<1>6. t.recvNext <= u.recvNext => MovesOn(t, u)
  BY <1>1, <1>4, <1>5, FinMoves DEF Alike
<1>7. MovesOn(t, a)
  BY <1>1, BlockFields, FinMoves
<1> QED
  BY <1>2, <1>6, <1>7

LEMMA OnClosingMoves ==
    ASSUME NEW e \in Endpoints, NEW t \in Block(Endpoints, e), NEW m
    PROVE  MovesOn(t, OnClosing(t, m).tcb)
<1>1. MovesOn(t, t)
  BY BlockFields, StateMoves
<1> QED
  BY <1>1, ClosingMoves DEF OnClosing, Silent, Result

LEMMA OnLastAckMoves ==
    ASSUME NoWrap, NEW e \in Endpoints, NEW t, NEW w, NEW q, NEW wq, NEW d,
           Sound(e, t, w, q, wq, d), t.state = "LAST_ACK", NEW m
    PROVE  MovesOn(t, OnLastAck(t, m).tcb)
<1> DEFINE next == Plus(t.sendUnack, 1)
           u == [t EXCEPT !.state = "CLOSE", !.sendUnack = next]
<1>1. /\ t \in Block(Endpoints, e) /\ SenderSide(e, t, w) /\ w \in Nat
      /\ AckedOK(t, q)
  BY DEF Sound, SenderSide
<1>2. /\ t.sendUnack \in Nat /\ t.sendNext \in Nat /\ t.sendInit \in Nat
      /\ Len(t.sendBuf) \in Nat
  BY <1>1, BlockFields
<1>3. t.sendUnack <= t.sendNext
  BY <1>1 DEF AckedOK
<1>4. /\ t.sendInit + w + 3 < SeqSpace
      /\ t.sendNext + Len(t.sendBuf) <= t.sendInit + w + 2
  BY <1>1, SenderFits
<1>5. next = t.sendUnack + 1
  <2>1. t.sendUnack + 1 < SeqSpace
    BY <1>1, <1>2, <1>3, <1>4, TcbAssumption, SMTT(30)
  <2> QED
    BY <2>1 DEF Plus
<1> HIDE DEF next
<1>6. /\ u.state = "CLOSE" /\ u.sendUnack = next
      /\ u.recvNext = t.recvNext /\ u.recvBuf = t.recvBuf
  BY <1>1 DEF Block, TCB
<1> HIDE DEF u
<1>7. MovesOn(t, u)
  <2>1. t.sendUnack <= u.sendUnack
    BY <1>2, <1>5, <1>6
  <2> QED
    BY <1>1, <1>6, <2>1, StateMoves DEF WriteStates
<1>8. MovesOn(t, t)
  BY <1>1, BlockFields, StateMoves
<1>9. OnLastAck(t, m).tcb \in {u, t}
  BY DEF OnLastAck, Silent, Result, u, next
<1> QED
  BY <1>7, <1>8, <1>9

LEMMA CloseMoves ==
    ASSUME NEW e \in Endpoints, NEW t \in Block(Endpoints, e)
    PROVE  MovesOn(t, CloseTcb(t).tcb)
<1> DEFINE f == [t EXCEPT !.state = "FIN_WAIT1"]
           l == [t EXCEPT !.state = "LAST_ACK"]
           c == [t EXCEPT !.state = "CLOSE"]
<1>1. /\ f \in Block(Endpoints, e) /\ l \in Block(Endpoints, e)
  BY SettingType DEF States
<1>2. \A s \in {"FIN_WAIT1", "LAST_ACK", "CLOSE"} :
         LET u == [t EXCEPT !.state = s]
         IN  /\ u.state = s /\ u.sendUnack = t.sendUnack
             /\ u.recvNext = t.recvNext /\ u.recvBuf = t.recvBuf
  BY DEF Block, TCB
<1>3. /\ f.state = "FIN_WAIT1" /\ f.sendUnack = t.sendUnack
      /\ f.recvNext = t.recvNext /\ f.recvBuf = t.recvBuf
      /\ l.state = "LAST_ACK" /\ l.sendUnack = t.sendUnack
      /\ l.recvNext = t.recvNext /\ l.recvBuf = t.recvBuf
      /\ c.state = "CLOSE" /\ c.sendUnack = t.sendUnack
      /\ c.recvNext = t.recvNext /\ c.recvBuf = t.recvBuf
  BY <1>2
<1> DEFINE x == SendCtrl(f, "fin").tcb
           y == SendCtrl(l, "fin").tcb
<1>4. CloseTcb(t).tcb \in {c, x, y, t}
  <2>1. \/ t.state = "SYN_SENT"
        \/ t.state \in {"SYN_RECV", "ESTABLISHED"}
        \/ t.state = "CLOSE_WAIT"
        \/ t.state \notin {"SYN_SENT", "SYN_RECV", "ESTABLISHED", "CLOSE_WAIT"}
    OBVIOUS
  <2>2. CloseTcb(t) \in {Silent(c), SendCtrl(f, "fin"), SendCtrl(l, "fin"),
                         Silent(t)}
    BY <2>1 DEF CloseTcb
  <2> QED
    BY <2>2 DEF Silent, Result
<1> HIDE DEF f, l, c
<1>5. Alike(f, x) /\ Alike(l, y)
  BY <1>1, CtrlAlike
<1> HIDE DEF x, y
<1>6. t.sendUnack \in Nat
  BY BlockFields
<1>7. MovesOn(t, c) /\ MovesOn(t, x) /\ MovesOn(t, y) /\ MovesOn(t, t)
  BY <1>3, <1>5, <1>6, StateMoves DEF Alike, WriteStates
<1> QED
  BY <1>4, <1>7

LEMMA RetransmitMoves ==
    ASSUME NEW e \in Endpoints, NEW t \in Block(Endpoints, e)
    PROVE  MovesOn(t, Retransmit(t).tcb)
<1> DEFINE m == [t.lastSeg EXCEPT !.ackSeq = t.recvNext]
           n == t.retransCount + 1
           c == [t EXCEPT !.state = "CLOSE"]
           u == [t EXCEPT !.lastSeg = m, !.retransCount = n]
<1>1. Retransmit(t).tcb \in {c, u}
  BY DEF Retransmit, Silent, Result
<1> HIDE DEF m, n
<1>2. Alike(t, u)
  BY DEF Alike, Block, TCB
<1> HIDE DEF u
<1>3. MovesOn(t, u)
  BY <1>2, BlockFields, StateMoves DEF Alike
<1>4. MovesOn(t, c)
  BY ClosingMoves
<1> QED
  BY <1>1, <1>3, <1>4

LEMMA OpeningMoves ==
    ASSUME NEW e \in Endpoints, NEW t \in Block(Endpoints, e),
           t.state \in {"SYN_SENT", "SYN_RECV"}, t.recvBuf = <<>>
    PROVE  MovesOn(NoTcb(e), SendCtrl(t, "syn").tcb)
<1> DEFINE n == NoTcb(e)
           u == SendCtrl(t, "syn").tcb
<1>1. n.state = "NONE" /\ n.recvNext = 0 /\ n.recvBuf = <<>>
  BY DEF NoTcb
<1>2. Alike(t, u) /\ t.recvNext \in Nat /\ Len(<<>>) = 0
  BY CtrlAlike, BlockFields
<1> HIDE DEF n, u
<1>3. MovesOn(n, u)
  BY <1>1, <1>2 DEF Alike, MovesOn, WriteStates
<1> QED
  BY <1>3 DEF n, u

-----------------------------------------------------------------------------
(* What has been given of a stream, and whether its end has been reached.  *)

\* What the invariant says of e's receiving half t, with the bytes d, and of
\* the peer's block q that has written wq bytes.
Fitting(e, t, q, wq, d) ==
    /\ t \in Block(Endpoints, e)
    /\ d \in Seq(Nat)
    /\ wq \in Nat
    /\ q \in Block(Endpoints, Peer(e))
    /\ ReceiverOK(t, q, wq, d)
    /\ ~NotOpened(q) => SenderSide(Peer(e), q, wq)

LEMMA FittingNow ==
    Inductive => \A e \in Endpoints :
                    Fitting(e, tcb[e], tcb[Peer(e)], written[Peer(e)], delivered[e])
<1> SUFFICES ASSUME Inductive, NEW e \in Endpoints
             PROVE  Fitting(e, tcb[e], tcb[Peer(e)], written[Peer(e)], delivered[e])
  OBVIOUS
<1> DEFINE p == Peer(e)
           t == tcb[e]
           q == tcb[p]
<1>1. p \in Endpoints /\ Peer(p) = e
  BY EndpointsDef
<1>2. /\ t \in Block(Endpoints, e) /\ q \in Block(Endpoints, p)
      /\ written[p] \in Nat /\ delivered[e] \in Seq(Nat)
  BY <1>1, TypeOKBlocks DEF Inductive
<1>3. /\ BlockOK(e, t, q, written[e], written[p], delivered[e])
      /\ BlockOK(p, q, t, written[p], written[e], delivered[p])
  BY <1>1 DEF Inductive
<1>4. ~NotOpened(q) => SenderSide(p, q, written[p])
  BY <1>2, <1>3 DEF BlockOK, SenderSide
<1> QED
  BY <1>2, <1>3, <1>4 DEF Fitting, BlockOK

LEMMA FittingNext ==
    Inductive' => \A e \in Endpoints :
                     Fitting(e, tcb'[e], tcb'[Peer(e)], written'[Peer(e)],
                             delivered'[e])
<1>1. (Inductive => \A e \in Endpoints :
          Fitting(e, tcb[e], tcb[Peer(e)], written[Peer(e)], delivered[e]))'
  BY FittingNow, PTL
<1> QED
  BY <1>1

\* The bytes are 1 .. n, and the end has been counted exactly if recv.next has
\* passed the numbers of the peer's SYN, of its n bytes and of its FIN.
Seen(t, q, wq, d) ==
    LET n == Len(d \o t.recvBuf)
        end == t.recvNext = Plus(t.recvInit, n + 2)
    IN  /\ n = Len(d) + Len(t.recvBuf)
        /\ d \o t.recvBuf = [i \in 1..n |-> i]
        /\ n \in Nat /\ n <= wq
        /\ end <=> t.recvNext # 0 /\ t.recvNext = q.sendInit + 2 + n
        /\ end => n = wq /\ ~(q.state \in WriteStates)
        /\ t.recvNext # 0 => \/ t.recvNext = q.sendInit + 1 + n
                             \/ t.recvNext = q.sendInit + 2 + n

LEMMA EndCounted ==
    ASSUME NoWrap, NEW e \in Endpoints, NEW t, NEW q, NEW wq, NEW d,
           Fitting(e, t, q, wq, d)
    PROVE  Seen(t, q, wq, d)
<1> DEFINE b == t.recvBuf
           x == Len(d)
           y == Len(b)
           c == d \o b
           n == Len(c)
           end == t.recvNext = Plus(t.recvInit, n + 2)
<1>1. /\ t \in Block(Endpoints, e) /\ q \in Block(Endpoints, Peer(e))
      /\ d \in Seq(Nat) /\ b \in Seq(Nat) /\ wq \in Nat /\ Peer(e) \in Endpoints
      /\ ReceiverOK(t, q, wq, d)
  BY EndpointsDef, BlockFields DEF Fitting
<1>2. /\ t.recvNext \in Nat /\ t.recvInit \in Nat /\ q.sendInit \in Nat
      /\ x \in Nat /\ y \in Nat /\ SeqSpace \in Nat
  BY <1>1, BlockFields, TcbAssumption
<1>3. /\ \A i \in 1..x : d[i] = i
      /\ \A i \in 1..y : b[i] = x + i
      /\ IF t.recvNext = 0
         THEN t.recvInit = 0 /\ d = <<>> /\ b = <<>>
         ELSE /\ ~NotOpened(q)
              /\ t.recvInit = q.sendInit
              /\ x + y <= wq
              /\ \/ t.recvNext = q.sendInit + 1 + x + y
                 \/ /\ t.recvNext = q.sendInit + 2 + wq
                    /\ x + y = wq
                    /\ q.state \notin WriteStates
  BY <1>1 DEF ReceiverOK
<1>4. d = <<>> /\ b = <<>> => x = 0 /\ y = 0
  OBVIOUS
<1>5. ~NotOpened(q) => q.sendInit + wq + 3 < SeqSpace
  BY <1>1, SenderFits DEF Fitting
<1> HIDE DEF b
<1>6. /\ n = x + y /\ c \in Seq(Nat)
      /\ \A i \in 1..x : c[i] = d[i]
      /\ \A i \in 1..y : c[x + i] = b[i]
  BY <1>1, Concatenation
<1>7. c = [i \in 1..n |-> i]
  <2> DEFINE f == [i \in 1..n |-> i]
  <2>1. \A i \in 1..n : c[i] = i
    <3> SUFFICES ASSUME NEW i \in 1..n
                 PROVE  c[i] = i
      OBVIOUS
    <3> HIDE DEF x, y, c, n
    <3>1. CASE i <= x
      BY <1>2, <1>3, <1>6, <3>1
    <3>2. CASE i > x
      <4> DEFINE j == i - x
      <4>1. j \in 1..y /\ i = x + j
        BY <1>2, <1>6, <3>2
      <4> HIDE DEF j
      <4> QED
        BY <1>3, <1>6, <4>1
    <3> QED
      BY <1>2, <1>6, <3>1, <3>2
  <2>2. c = [i \in 1..Len(c) |-> c[i]]
    <3> HIDE DEF c
    <3> QED
      BY <1>6
  <2> HIDE DEF c
  <2> QED
    BY <2>1, <2>2
<1> HIDE DEF x, y, c, n
<1>9. n \in Nat /\ n <= wq
  BY <1>1, <1>2, <1>3, <1>4, <1>6
<1>10. CASE t.recvNext = 0
  <2>1. n = 0 /\ t.recvInit = 0
    BY <1>2, <1>3, <1>4, <1>6, <1>10
  <2>2. 3 < SeqSpace
    BY <1>2, TcbAssumption
  <2>3. ~end
    BY <1>2, <1>10, <2>1, <2>2 DEF Plus
  <2> QED
    BY <1>6, <1>7, <1>9, <1>10, <2>3 DEF Seen, c, n, b, x, y
<1>11. CASE t.recvNext # 0
  <2>1. Plus(t.recvInit, n + 2) = q.sendInit + 2 + n
    <3>1. t.recvInit = q.sendInit /\ q.sendInit + wq + 3 < SeqSpace
      BY <1>3, <1>5, <1>11
    <3>2. t.recvInit + (n + 2) < SeqSpace
      BY <1>1, <1>2, <1>9, <3>1
    <3> QED
      BY <1>2, <1>9, <3>1, <3>2 DEF Plus
  <2>2. /\ \/ t.recvNext = q.sendInit + 1 + n
           \/ t.recvNext = q.sendInit + 2 + n
        /\ end => n = wq /\ q.state \notin WriteStates
    <3>1. \/ t.recvNext = q.sendInit + 1 + x + y
          \/ /\ t.recvNext = q.sendInit + 2 + wq
             /\ x + y = wq
             /\ q.state \notin WriteStates
      BY <1>3, <1>11
    <3>2. q.sendInit + 1 + x + y = q.sendInit + 1 + n
      BY <1>2, <1>6
    <3>3. q.sendInit + 1 + n # q.sendInit + 2 + n
      BY <1>2, <1>9
    <3> QED
      BY <1>6, <2>1, <3>1, <3>2, <3>3
  <2> QED
    BY <1>6, <1>7, <1>9, <1>11, <2>1, <2>2 DEF Seen, c, n, b, x, y
<1> QED
  BY <1>10, <1>11

-----------------------------------------------------------------------------
(* The steps of the system, seen from the applications.                    *)

\* e's block moves on; nothing is written or read.
EndMoves(e) ==
    /\ MovesOn(tcb[e], tcb'[e])
    /\ tcb'[Peer(e)] = tcb[Peer(e)]
    /\ UNCHANGED <<written, delivered>>

LEMMA EffectMoves ==
    ASSUME Inductive, NEW e \in Endpoints, NEW r, NEW underWay,
           Effect(e, r, underWay)
    PROVE  tcb'[e] = r.tcb /\ tcb'[Peer(e)] = tcb[Peer(e)]
  BY EndpointsDef DEF Effect, Inductive, TypeOK

LEMMA OpeningEndMoves ==
    ASSUME NoWrap, Inductive, NEW e \in Endpoints, Connect(e) \/ ReceiveSyn(e)
    PROVE  EndMoves(e)
<1>1. PICK t \in Block(Endpoints, e) :
          /\ t.state \in {"SYN_SENT", "SYN_RECV"} /\ t.recvBuf = <<>>
          /\ \E underWay : Effect(e, SendCtrl(t, "syn"), underWay)
  <2>1. ASSUME NEW init \in InitSeqs[e], NEW m \in Segment(Endpoints)
        PROVE  /\ ActiveTcb(e, init) \in Block(Endpoints, e)
               /\ PassiveTcb(e, init, m) \in Block(Endpoints, e)
    BY TcpAssumption, OpeningType DEF Endpoints
  <2>2. /\ \A init : /\ ActiveTcb(e, init).state = "SYN_SENT"
                     /\ ActiveTcb(e, init).recvBuf = <<>>
        /\ \A init, m : /\ PassiveTcb(e, init, m).state = "SYN_RECV"
                        /\ PassiveTcb(e, init, m).recvBuf = <<>>
    BY DEF ActiveTcb, PassiveTcb, NoTcb
  <2>3. CASE Connect(e)
    <3>1. PICK init \in InitSeqs[e] :
             Effect(e, SendCtrl(ActiveTcb(e, init), "syn"), net)
      BY <2>3 DEF Connect, Step
    <3>2. NoSegment(e) \in Segment(Endpoints)
      BY DEF NoSegment, Segment
    <3>3. ActiveTcb(e, init) \in Block(Endpoints, e)
      BY <2>1, <3>2
    <3> QED
      BY <2>2, <3>1, <3>3
  <2>4. CASE ReceiveSyn(e)
    <3>1. PICK m \in Arriving(e), init \in InitSeqs[e] :
             Effect(e, SendCtrl(PassiveTcb(e, init, m), "syn"), After(m))
      BY <2>4 DEF ReceiveSyn
    <3>2. m \in Segment(Endpoints)
      BY DEF Arriving, Inductive, TypeOK
    <3>3. PassiveTcb(e, init, m) \in Block(Endpoints, e)
      BY <2>1, <3>2
    <3> QED
      BY <2>2, <3>1, <3>3
  <2> QED
    BY <2>3, <2>4
<1>2. registry[e] = "none" /\ UNCHANGED <<written, delivered>>
  BY DEF Connect, ReceiveSyn
<1>3. tcb[e] = NoTcb(e)
  BY <1>2, UnopenedBlock
<1>4. MovesOn(NoTcb(e), SendCtrl(t, "syn").tcb)
  BY <1>1, OpeningMoves
<1>5. /\ tcb'[e] = SendCtrl(t, "syn").tcb
      /\ tcb'[Peer(e)] = tcb[Peer(e)]
  BY <1>1, EffectMoves
<1> QED
  BY <1>2, <1>3, <1>4, <1>5 DEF EndMoves

\* A handler whose result moves on.
LEMMA HandledMoves ==
    ASSUME Inductive, NEW e \in Endpoints, NEW m \in Arriving(e),
           NEW s, NEW r, HandledAs(s, e, m, r), MovesOn(tcb[e], r.tcb)
    PROVE  EndMoves(e)
  BY EffectMoves DEF HandledAs, EndMoves

LEMMA ReceiveMoves ==
    ASSUME NoWrap, Inductive, NEW e \in Endpoints, NEW m \in Arriving(e),
           \/ HandledAs("SYN_RECV", e, m, OnSynRecv(tcb[e], m))
           \/ HandledAs("SYN_SENT", e, m, OnSynSent(tcb[e], m))
           \/ HandledAs("ESTABLISHED", e, m, OnEstablished(tcb[e], m))
           \/ HandledAs("FIN_WAIT1", e, m, OnFinWait1(tcb[e], m))
           \/ HandledAs("FIN_WAIT2", e, m, OnFinWait2(tcb[e], m))
           \/ HandledAs("CLOSE_WAIT", e, m, OnCloseWait(tcb[e], m))
           \/ HandledAs("CLOSING", e, m, OnClosing(tcb[e], m))
           \/ HandledAs("LAST_ACK", e, m, OnLastAck(tcb[e], m))
           \/ HandledAs("TIME_WAIT", e, m, OnTimeWait(tcb[e], m))
    PROVE  EndMoves(e)
<1> DEFINE t == tcb[e]
           w == written[e]
           q == tcb[Peer(e)]
           wq == written[Peer(e)]
           d == delivered[e]
<1>1. Heard(m, q, wq) /\ m \in Segment(Endpoints)
  BY HeardNow DEF Heard
<1>2. tcb[e].state # "NONE" => Sound(e, t, w, q, wq, d)
  BY SoundNow
<1>3. t \in Block(Endpoints, e)
  BY TypeOKBlocks DEF Inductive
<1> HIDE DEF w, q, wq, d
<1>4. CASE HandledAs("SYN_RECV", e, m, OnSynRecv(t, m))
  <2>1. t.state = "SYN_RECV"
    BY <1>4 DEF HandledAs
  <2> QED
    BY <1>1, <1>3, <1>4, <2>1, SynRecvMoves, HandledMoves
<1>5. CASE HandledAs("SYN_SENT", e, m, OnSynSent(t, m))
  <2>1. t.state = "SYN_SENT"
    BY <1>5 DEF HandledAs
  <2>2. Safe(e, t, w, q, wq, d, OnSynSent(t, m))
    BY <1>1, <1>2, <2>1, OnSynSentSafe
  <2>3. t.recvNext <= OnSynSent(t, m).tcb.recvNext
    BY <2>2 DEF Safe, Grows
  <2> QED
    BY <1>1, <1>3, <1>5, <2>1, <2>3, SynSentMoves, HandledMoves
<1>6. CASE HandledAs("ESTABLISHED", e, m, OnEstablished(t, m))
  <2>1. t.state = "ESTABLISHED" /\ m.seq = t.recvNext
    BY <1>6 DEF HandledAs, InOrder
  <2> QED
    BY <1>1, <1>2, <1>6, <2>1, EstablishedMoves, HandledMoves
<1>7. CASE HandledAs("FIN_WAIT1", e, m, OnFinWait1(t, m))
  <2>1. t.state = "FIN_WAIT1" /\ m.seq = t.recvNext
    BY <1>7 DEF HandledAs, InOrder
  <2>2. Safe(e, t, w, q, wq, d, OnFinWait1(t, m))
    BY <1>1, <1>2, <2>1, OnFinWait1Safe
  <2>3. t.recvNext <= OnFinWait1(t, m).tcb.recvNext
    BY <2>2 DEF Safe, Grows
  <2> QED
    BY <1>1, <1>3, <1>7, <2>1, <2>3, FinWait1Moves, HandledMoves
<1>8. CASE HandledAs("FIN_WAIT2", e, m, OnFinWait2(t, m))
  <2>1. t.state = "FIN_WAIT2" /\ m.seq = t.recvNext
    BY <1>8 DEF HandledAs, InOrder
  <2>2. Safe(e, t, w, q, wq, d, OnFinWait2(t, m))
    BY <1>1, <1>2, <2>1, OnFinWait2Safe
  <2>3. t.recvNext <= OnFinWait2(t, m).tcb.recvNext
    BY <2>2 DEF Safe, Grows
  <2> QED
    BY <1>1, <1>3, <1>8, <2>1, <2>3, FinWait2Moves, HandledMoves
<1>9. CASE \/ HandledAs("CLOSE_WAIT", e, m, OnCloseWait(t, m))
           \/ HandledAs("TIME_WAIT", e, m, OnTimeWait(t, m))
  <2>1. MovesOn(t, t)
    BY <1>3, BlockFields, StateMoves
  <2>2. /\ OnCloseWait(t, m).tcb = t /\ OnTimeWait(t, m).tcb = t
    BY DEF OnCloseWait, OnTimeWait, Silent, Result
  <2> QED
    BY <1>9, <2>1, <2>2, HandledMoves
<1>10. CASE HandledAs("CLOSING", e, m, OnClosing(t, m))
  BY <1>3, <1>10, OnClosingMoves, HandledMoves
<1>11. CASE HandledAs("LAST_ACK", e, m, OnLastAck(t, m))
  <2>1. t.state = "LAST_ACK"
    BY <1>11 DEF HandledAs
  <2> QED
    BY <1>2, <1>11, <2>1, OnLastAckMoves, HandledMoves
<1> QED
  BY <1>4, <1>5, <1>6, <1>7, <1>8, <1>9, <1>10, <1>11

\* tcp_send changes what is queued, and nothing that is received.
WriteMoves(e) ==
    /\ Alike(tcb[e], tcb'[e])
    /\ tcb[e].state = "ESTABLISHED"
    /\ written' = [written EXCEPT ![e] = written'[e]]
    /\ written'[e] \in Nat /\ written[e] <= written'[e]
    /\ tcb'[Peer(e)] = tcb[Peer(e)]
    /\ UNCHANGED delivered

\* tcp_receive hands over bytes that had been taken before.
ReadMoves(e) ==
    /\ tcb'[e].state = tcb[e].state
    /\ tcb'[e].sendUnack = tcb[e].sendUnack
    /\ tcb'[e].recvNext = tcb[e].recvNext
    /\ Len(delivered'[e]) + Len(tcb'[e].recvBuf)
          = Len(delivered[e]) + Len(tcb[e].recvBuf)
    /\ tcb'[Peer(e)] = tcb[Peer(e)]
    /\ delivered'[Peer(e)] = delivered[Peer(e)]
    /\ UNCHANGED written

LEMMA WriteStep ==
    ASSUME Inductive, NEW e \in Endpoints, NEW n \in 1..MaxBytes[e], Write(e, n)
    PROVE  WriteMoves(e)
<1> DEFINE t == tcb[e]
           w == written[e]
           held == Len(t.sendBuf)
           room == SendCapacity - held
           accepted == Min({n, room})
           items == [i \in 1..accepted |-> ByteItem(w + i)]
           v == w + accepted
<1>1. /\ t \in Block(Endpoints, e) /\ w \in Nat
      /\ written \in [Endpoints -> Nat]
  BY TypeOKBlocks DEF Inductive, TypeOK
<1>2. held \in Nat /\ held <= SendCapacity
  BY <1>1, BlockFields DEF Block, Fits
<1>3. n \in Nat
  BY TcpAssumption DEF Endpoints
<1>4. /\ t.state = "ESTABLISHED"
      /\ Effect(e, PushAndSend(t, items), net)
      /\ written' = [written EXCEPT ![e] = v] /\ UNCHANGED delivered
  BY DEF Write, Step
<1> HIDE DEF held
<1>5. room \in Nat
  BY <1>2, TcbAssumption
<1> HIDE DEF room
<1>6. accepted \in {n, room} /\ accepted <= room
  BY <1>3, <1>5, MinOfNat
<1>7. accepted \in Nat
  BY <1>3, <1>5, <1>6
<1> HIDE DEF accepted
<1>8. items \in Seq(Item) /\ Len(items) = accepted
  <2>1. \A i \in 1..accepted : ByteItem(w + i) \in Item
    BY <1>1, <1>7 DEF ByteItem, Item
  <2> HIDE DEF w
  <2> QED
    BY <1>7, <2>1
<1> HIDE DEF items, t, w
<1>9. held + accepted <= SendCapacity
  BY <1>2, <1>6, <1>7, TcbAssumption DEF room
<1>10. Alike(t, PushAndSend(t, items).tcb)
  BY <1>1, <1>8, <1>9, PushAlike DEF held
<1>11. v \in Nat /\ w <= v
  BY <1>1, <1>7
<1> HIDE DEF v
<1>12. /\ tcb'[e] = PushAndSend(t, items).tcb
       /\ tcb'[Peer(e)] = tcb[Peer(e)]
  BY <1>4, EffectMoves
<1>13. written'[e] = v /\ written' = [written EXCEPT ![e] = written'[e]]
  BY <1>1, <1>4
<1> QED
  BY <1>4, <1>10, <1>11, <1>12, <1>13 DEF WriteMoves, t, w

LEMMA ReadStep ==
    ASSUME Inductive, NEW e \in Endpoints, NEW n \in 1..RecvCapacity, Read(e, n)
    PROVE  ReadMoves(e)
<1> DEFINE t == tcb[e]
           d == delivered[e]
           buf == t.recvBuf
           taken == Min({n, Len(buf)})
           rest == SubSeq(buf, taken + 1, Len(buf))
           more == SubSeq(buf, 1, taken)
           u == [t EXCEPT !.recvBuf = rest]
           c == d \o more
<1>1. /\ t \in Block(Endpoints, e) /\ t \in TCB(Endpoints) /\ d \in Seq(Nat)
      /\ tcb \in [Endpoints -> TCB(Endpoints)]
      /\ delivered \in [Endpoints -> Seq(Nat)]
  BY TypeOKBlocks DEF Inductive, TypeOK
<1>2. buf \in Seq(Nat) /\ Len(buf) \in Nat /\ n \in Nat
  BY <1>1, BlockFields, TcbAssumption
<1>3. taken \in Nat /\ taken <= Len(buf)
  BY <1>2, MinOfNat
<1>4. tcb' = [tcb EXCEPT ![e] = u]
  BY <1>1 DEF Read
<1>5. delivered' = [delivered EXCEPT ![e] = c] /\ UNCHANGED written
  BY DEF Read
<1> HIDE DEF taken
<1>6. /\ rest \in Seq(Nat) /\ Len(rest) = Len(buf) - taken
      /\ more \in Seq(Nat) /\ Len(more) = taken
  <2> HIDE DEF buf
  <2> QED
    BY <1>2, <1>3, SubSeqProperties
<1> HIDE DEF rest, more
<1>7. Len(c) = Len(d) + taken
  <2> HIDE DEF d
  <2> QED
    BY <1>1, <1>6, Concatenation
<1>8. /\ u.state = t.state /\ u.sendUnack = t.sendUnack
      /\ u.recvNext = t.recvNext /\ u.recvBuf = rest
  BY <1>1 DEF TCB
<1>9. /\ tcb'[e] = u /\ delivered'[e] = c
      /\ tcb'[Peer(e)] = tcb[Peer(e)]
      /\ delivered'[Peer(e)] = delivered[Peer(e)]
  BY <1>1, <1>4, <1>5, EndpointsDef
<1> HIDE DEF u, c
<1>10. Len(c) + Len(rest) = Len(d) + Len(buf)
  <2> DEFINE x == Len(d)
             y == Len(buf)
  <2>1. x \in Nat /\ y \in Nat /\ Len(c) = x + taken /\ Len(rest) = y - taken
    BY <1>1, <1>2, <1>6, <1>7
  <2> HIDE DEF x, y
  <2>2. Len(c) + Len(rest) = x + y
    BY <1>3, <2>1
  <2> QED
    BY <2>2 DEF x, y
<1> QED
  BY <1>5, <1>8, <1>9, <1>10 DEF ReadMoves

LEMMA NextMoves ==
    ASSUME NoWrap, Inductive, [Next]_vars
    PROVE  \/ UNCHANGED <<tcb, written, delivered>>
           \/ \E e \in Endpoints : EndMoves(e) \/ WriteMoves(e) \/ ReadMoves(e)
<1>1. ASSUME NEW e \in Endpoints, Receive(e)
      PROVE  UNCHANGED <<tcb, written, delivered>> \/ EndMoves(e)
  <2>1. CASE ReceiveSyn(e)
    BY <2>1, OpeningEndMoves
  <2>2. CASE Discard(e)
    BY <2>2 DEF Discard
  <2>3. CASE ReceiveOutOfOrder(e)
    <3>1. PICK m \in Arriving(e) :
             /\ Effect(e, OnOutOfOrder(tcb[e], m), After(m))
             /\ UNCHANGED <<written, delivered>>
      BY <2>3 DEF ReceiveOutOfOrder
    <3>2. m \in Segment(Endpoints) /\ tcb[e] \in Block(Endpoints, e)
      BY TypeOKBlocks DEF Arriving, Inductive, TypeOK
    <3> QED
      BY <3>1, <3>2, OutOfOrderMoves, EffectMoves DEF EndMoves
  <2>4. CASE \/ ReceiveSynRecv(e) \/ ReceiveSynSent(e) \/ ReceiveEstablished(e)
             \/ ReceiveFinWait1(e) \/ ReceiveFinWait2(e) \/ ReceiveCloseWait(e)
             \/ ReceiveClosing(e) \/ ReceiveLastAck(e) \/ ReceiveTimeWait(e)
    BY <2>4, ReceiveMoves
       DEF ReceiveSynRecv, ReceiveSynSent, ReceiveEstablished, ReceiveFinWait1,
           ReceiveFinWait2, ReceiveCloseWait, ReceiveClosing, ReceiveLastAck,
           ReceiveTimeWait
  <2> QED
    BY <1>1, <2>1, <2>2, <2>3, <2>4 DEF Receive
<1>2. ASSUME NEW e \in Endpoints, User(e)
      PROVE  EndMoves(e) \/ WriteMoves(e) \/ ReadMoves(e)
  <2>1. CASE Close(e)
    <3>1. /\ Effect(e, CloseTcb(tcb[e]), net)
          /\ UNCHANGED <<written, delivered>>
      BY <2>1 DEF Close, Step
    <3>2. tcb[e] \in Block(Endpoints, e)
      BY TypeOKBlocks DEF Inductive
    <3> QED
      BY <3>1, <3>2, CloseMoves, EffectMoves DEF EndMoves
  <2> QED
    BY <1>2, <2>1, OpeningEndMoves, WriteStep, ReadStep DEF User
<1>3. ASSUME NEW e \in Endpoints, Timer(e)
      PROVE  EndMoves(e)
  <2>1. tcb[e] \in Block(Endpoints, e)
    BY TypeOKBlocks DEF Inductive
  <2>2. CASE Timeout(e)
    <3>1. /\ Effect(e, Retransmit(tcb[e]), net)
          /\ UNCHANGED <<written, delivered>>
      BY <2>2 DEF Timeout, Step
    <3> QED
      BY <2>1, <3>1, RetransmitMoves, EffectMoves DEF EndMoves
  <2>3. CASE TimeWaitExpire(e)
    <3>1. /\ tcb'[e] = [tcb[e] EXCEPT !.state = "CLOSE"]
          /\ tcb'[Peer(e)] = tcb[Peer(e)]
          /\ UNCHANGED <<written, delivered>>
      BY <2>3, EndpointsDef DEF TimeWaitExpire, Inductive, TypeOK
    <3> QED
      BY <2>1, <3>1, ClosingMoves DEF EndMoves
  <2> QED
    BY <1>3, <2>2, <2>3 DEF Timer
<1>4. CASE Lose
  BY <1>4 DEF Lose
<1>5. CASE UNCHANGED vars
  BY <1>5 DEF vars
<1> QED
  BY <1>1, <1>2, <1>3, <1>4, <1>5 DEF Next

\* More of 1, 2, 3, ...
LEMMA CountOn ==
    ASSUME NEW n \in Nat, NEW k \in Nat
    PROVE  [i \in 1..n |-> i] \o [i \in 1..k |-> n + i] = [i \in 1..(n + k) |-> i]
<1> DEFINE a == [i \in 1..n |-> i]
           b == [i \in 1..k |-> n + i]
           c == a \o b
<1>1. /\ a \in Seq(Nat) /\ Len(a) = n /\ \A i \in 1..n : a[i] = i
      /\ b \in Seq(Nat) /\ Len(b) = k /\ \A i \in 1..k : b[i] = n + i
  OBVIOUS
<1> HIDE DEF a, b
<1>2. /\ c \in Seq(Nat) /\ Len(c) = n + k
      /\ \A i \in 1..n : c[i] = a[i]
      /\ \A i \in 1..k : c[n + i] = b[i]
  BY <1>1, Concatenation
<1> HIDE DEF c
<1>3. \A i \in 1..(n + k) : c[i] = i
  <2> SUFFICES ASSUME NEW i \in 1..(n + k)
               PROVE  c[i] = i
    OBVIOUS
  <2>1. CASE i <= n
    BY <1>1, <1>2, <2>1
  <2>2. CASE i > n
    <3> DEFINE j == i - n
    <3>1. j \in 1..k /\ i = n + j
      BY <2>2
    <3> HIDE DEF j
    <3> QED
      BY <1>1, <1>2, <3>1
  <2> QED
    BY <2>1, <2>2
<1>4. c = [i \in 1..(n + k) |-> c[i]]
  BY <1>2
<1> QED
  BY <1>3, <1>4 DEF c, a, b

\* An end whose block and bytes stay as they are shows what it showed.
LEMMA StandsStill ==
    ASSUME NEW x \in Endpoints, tcb'[x] = tcb[x], delivered'[x] = delivered[x]
    PROVE  /\ CanWrite(x)' <=> CanWrite(x)
           /\ Received(x)' = Received(x)
           /\ FinCounted(x)' <=> FinCounted(x)
  BY DEF CanWrite, Received, FinCounted

\* A step of the streams, from what one end shows before and after.
LEMMA StreamStep ==
    ASSUME Inductive, Inductive', NEW e \in Endpoints,
           tcb'[Peer(e)] = tcb[Peer(e)], delivered'[Peer(e)] = delivered[Peer(e)],
           UNCHANGED written,
           \/ /\ CanWrite(e)' <=> CanWrite(e)
              /\ Received(e)' = Received(e)
              /\ FinCounted(e)' <=> FinCounted(e)
           \/ /\ CanWrite(e) /\ ~CanWrite(e)'
              /\ Received(e)' = Received(e)
              /\ FinCounted(e)' <=> FinCounted(e)
           \/ /\ CanWrite(e)' <=> CanWrite(e)
              /\ Received(e)' = Received(e)
              /\ ~FinCounted(e) /\ FinCounted(e)'
              /\ ~CanWrite(Peer(e)) /\ Len(Received(e)) = written[Peer(e)]
           \/ /\ CanWrite(e)' <=> CanWrite(e)
              /\ FinCounted(e)' <=> FinCounted(e)
              /\ ~FinCounted(e)
              /\ \E k \in 1..(written[Peer(e)] - Len(Received(e))) :
                    Received(e)' = Received(e) \o
                                      [i \in 1..k |-> Len(Received(e)) + i]
    PROVE  [Stream!Next]_(Stream!vars)
<1> DEFINE p == Peer(e)
           ended == [x \in Endpoints |-> ~CanWrite(x)]
           given == [x \in Endpoints |-> Received(x)]
           eof == [x \in Endpoints |-> FinCounted(x)]
<1>1. p \in Endpoints /\ (\A x \in Endpoints : x = e \/ x = p) /\ p # e
  BY EndpointsDef
<1>2. /\ CanWrite(p)' <=> CanWrite(p)
      /\ Received(p)' = Received(p)
      /\ FinCounted(p)' <=> FinCounted(p)
  BY <1>1, StandsStill
<1>3. (CanWrite(e)' <=> CanWrite(e)) => ended' = ended
  <2>1. (CanWrite(e)' <=> CanWrite(e)) =>
           \A x \in Endpoints : (~CanWrite(x))' <=> ~CanWrite(x)
    BY <1>1, <1>2
  <2> QED
    BY <2>1 DEF CanWrite
<1>4. Received(e)' = Received(e) => given' = given
  BY <1>1, <1>2
<1>5. (FinCounted(e)' <=> FinCounted(e)) => eof' = eof
  <2>1. (FinCounted(e)' <=> FinCounted(e)) =>
           \A x \in Endpoints : FinCounted(x)' <=> FinCounted(x)
    BY <1>1, <1>2
  <2> QED
    BY <2>1 DEF FinCounted
<1>6. CanWrite(e) /\ ~CanWrite(e)' => ended' = [ended EXCEPT ![e] = TRUE]
  BY <1>1, <1>2 DEF CanWrite
<1>7. FinCounted(e)' => eof' = [eof EXCEPT ![e] = TRUE]
  BY <1>1, <1>2 DEF FinCounted
<1>8. given' = [given EXCEPT ![e] = Received(e)']
  BY <1>1, <1>2
<1>9. /\ given[e] = Received(e)
      /\ ended[p] <=> ~CanWrite(p)
      /\ eof[e] <=> FinCounted(e)
  BY <1>1
<1> HIDE DEF ended, given, eof
<1>10. CASE ended' = ended /\ given' = given /\ eof' = eof
  BY <1>10 DEF Stream!vars, ended, given, eof
<1>11. CASE CanWrite(e) /\ ~CanWrite(e)' /\ given' = given /\ eof' = eof
  <2>1. ended' = [ended EXCEPT ![e] = TRUE]
    BY <1>6, <1>11
  <2>2. Stream!End(e)
    BY <1>11, <2>1 DEF Stream!End, ended, given, eof
  <2> QED
    BY <2>2 DEF Stream!Next, Stream!Endpoints, Endpoints
<1>12. CASE /\ ended' = ended /\ given' = given /\ FinCounted(e)'
            /\ ~CanWrite(p) /\ Len(Received(e)) = written[p]
  <2>1. eof' = [eof EXCEPT ![e] = TRUE]
    BY <1>7, <1>12
  <2>2. ended[p] /\ Len(given[e]) = written[p]
    BY <1>9, <1>12
  <2>3. Stream!EndOfFile(e)
    BY <1>12, <2>1, <2>2
       DEF Stream!EndOfFile, Stream!Peer, Peer, ended, given, eof
  <2> QED
    BY <2>3 DEF Stream!Next, Stream!Endpoints, Endpoints
<1>13. CASE /\ ended' = ended /\ eof' = eof /\ ~FinCounted(e)
            /\ \E k \in 1..(written[p] - Len(Received(e))) :
                  Received(e)' = Received(e) \o
                                    [i \in 1..k |-> Len(Received(e)) + i]
  <2>1. PICK k \in 1..(written[p] - Len(given[e])) :
           Received(e)' = given[e] \o [i \in 1..k |-> Len(given[e]) + i]
    BY <1>9, <1>13
  <2>2. given' = [given EXCEPT ![e] =
                     given[e] \o [i \in 1..k |-> Len(given[e]) + i]]
    BY <1>8, <2>1
  <2>3. ~eof[e]
    BY <1>9, <1>13
  <2>4. Stream!Give(e)
    BY <1>13, <2>2, <2>3 DEF Stream!Give, Stream!Peer, Peer, ended, given, eof
  <2> QED
    BY <2>4 DEF Stream!Next, Stream!Endpoints, Endpoints
<1> QED
  BY <1>3, <1>4, <1>5, <1>10, <1>11, <1>12, <1>13

\* What e has been given, and whether it knows the end, before a step ...
LEMMA SeenNow ==
    ASSUME NoWrap, Inductive, NEW e \in Endpoints
    PROVE  LET n == Len(Received(e))
           IN  /\ n = Len(delivered[e]) + Len(tcb[e].recvBuf)
               /\ Received(e) = [i \in 1..n |-> i]
               /\ n \in Nat /\ n <= written[Peer(e)]
               /\ FinCounted(e) <=>
                     /\ tcb[e].recvNext # 0
                     /\ tcb[e].recvNext = tcb[Peer(e)].sendInit + 2 + n
               /\ FinCounted(e) => n = written[Peer(e)] /\ ~CanWrite(Peer(e))
               /\ tcb[e].recvNext # 0 =>
                     \/ tcb[e].recvNext = tcb[Peer(e)].sendInit + 1 + n
                     \/ tcb[e].recvNext = tcb[Peer(e)].sendInit + 2 + n
<1>1. Seen(tcb[e], tcb[Peer(e)], written[Peer(e)], delivered[e])
  <2>1. Fitting(e, tcb[e], tcb[Peer(e)], written[Peer(e)], delivered[e])
    BY FittingNow
  <2> QED
    BY <2>1, EndCounted
<1> QED
  BY <1>1, Zenon DEF Seen, Received, FinCounted, CanWrite

\* ... and after it.
LEMMA SeenNext ==
    ASSUME NoWrap, Inductive', NEW e \in Endpoints
    PROVE  LET n == Len(Received(e)')
           IN  /\ n = Len(delivered'[e]) + Len(tcb'[e].recvBuf)
               /\ Received(e)' = [i \in 1..n |-> i]
               /\ n \in Nat /\ n <= written'[Peer(e)]
               /\ FinCounted(e)' <=>
                     /\ tcb'[e].recvNext # 0
                     /\ tcb'[e].recvNext = tcb'[Peer(e)].sendInit + 2 + n
               /\ FinCounted(e)' =>
                     n = written'[Peer(e)] /\ ~CanWrite(Peer(e))'
               /\ tcb'[e].recvNext # 0 =>
                     \/ tcb'[e].recvNext = tcb'[Peer(e)].sendInit + 1 + n
                     \/ tcb'[e].recvNext = tcb'[Peer(e)].sendInit + 2 + n
<1>1. Seen(tcb'[e], tcb'[Peer(e)], written'[Peer(e)], delivered'[e])
  <2>1. Fitting(e, tcb'[e], tcb'[Peer(e)], written'[Peer(e)], delivered'[e])
    BY FittingNext
  <2> QED
    BY <2>1, EndCounted
<1> QED
  BY <1>1, Zenon DEF Seen, Received, FinCounted, CanWrite

LEMMA EndMovesStream ==
    ASSUME NoWrap, Inductive, Inductive', NEW e \in Endpoints, EndMoves(e)
    PROVE  [Stream!Next]_(Stream!vars)
<1> DEFINE t == tcb[e]
           u == tcb'[e]
           init == tcb[Peer(e)].sendInit
           wq == written[Peer(e)]
           n == Len(Received(e))
           m == Len(Received(e)')
           x == Len(delivered[e])
           y == Len(t.recvBuf)
           z == Len(u.recvBuf)
<1>1. /\ MovesOn(t, u)
      /\ tcb'[Peer(e)] = tcb[Peer(e)]
      /\ UNCHANGED <<written, delivered>>
  BY DEF EndMoves
<1>2. /\ t \in Block(Endpoints, e) /\ u \in Block(Endpoints, e)
      /\ delivered[e] \in Seq(Nat) /\ wq \in Nat
      /\ tcb[Peer(e)] \in Block(Endpoints, Peer(e)) /\ Peer(e) \in Endpoints
  BY FittingNow, FittingNext, EndpointsDef DEF Fitting
<1>3. /\ t.recvNext \in Nat /\ u.recvNext \in Nat /\ init \in Nat
      /\ x \in Nat /\ y \in Nat /\ z \in Nat
  BY <1>2, BlockFields
<1>4. /\ n = x + y /\ n \in Nat /\ n <= wq
      /\ Received(e) = [i \in 1..n |-> i]
      /\ FinCounted(e) <=> t.recvNext # 0 /\ t.recvNext = init + 2 + n
      /\ FinCounted(e) => n = wq /\ ~CanWrite(Peer(e))
  BY SeenNow
<1>5. /\ m = x + z /\ m \in Nat /\ m <= wq
      /\ Received(e)' = [i \in 1..m |-> i]
      /\ FinCounted(e)' <=> u.recvNext # 0 /\ u.recvNext = init + 2 + m
      /\ FinCounted(e)' => m = wq /\ ~CanWrite(Peer(e))'
      /\ u.recvNext # 0 => u.recvNext = init + 1 + m \/ u.recvNext = init + 2 + m
  BY <1>1, SeenNext
<1>6. CanWrite(Peer(e))' <=> CanWrite(Peer(e))
  BY <1>1, <1>2, StandsStill
<1>7. /\ t.recvNext <= u.recvNext /\ y <= z
      /\ ~CanWrite(e) => ~CanWrite(e)'
      /\ \/ u.recvNext = t.recvNext /\ z = y
         \/ /\ CanWrite(e)' <=> CanWrite(e)
            /\ \/ z = y
               \/ u.recvNext + y = t.recvNext + z
  BY <1>1 DEF MovesOn, CanWrite
<1> HIDE DEF t, u, init, wq, n, m, x, y, z
<1>8. m = n => Received(e)' = Received(e)
  BY <1>4, <1>5
<1>9. CASE u.recvNext = t.recvNext /\ z = y
  <2>1. m = n /\ (FinCounted(e)' <=> FinCounted(e))
    BY <1>4, <1>5, <1>9
  <2> QED
    BY <1>1, <1>7, <1>8, <2>1, StreamStep
<1>10. CASE (CanWrite(e)' <=> CanWrite(e)) /\ z = y
  <2>1. m = n
    BY <1>4, <1>5, <1>10
  <2>2. FinCounted(e) => FinCounted(e)'
    BY <1>3, <1>4, <1>5, <1>7, <2>1
  <2>3. FinCounted(e)' => Len(Received(e)) = wq /\ ~CanWrite(Peer(e))
    BY <1>5, <1>6, <2>1 DEF n
  <2> QED
    BY <1>1, <1>8, <1>10, <2>1, <2>2, <2>3, StreamStep DEF wq
<1>11. CASE /\ CanWrite(e)' <=> CanWrite(e)
            /\ u.recvNext + y = t.recvNext + z
            /\ z # y
  <2> DEFINE k == m - n
  <2>1. k \in Nat /\ k >= 1 /\ m = n + k /\ k = z - y
    BY <1>3, <1>4, <1>5, <1>7, <1>11
  <2>2. u.recvNext = t.recvNext + k
    BY <1>3, <1>11, <2>1
  <2>3. k \in 1..(wq - n)
    BY <1>2, <1>4, <1>5, <2>1
  <2> HIDE DEF k
  <2>4. ~FinCounted(e) /\ ~FinCounted(e)'
    <3>1. ~FinCounted(e)
      BY <1>2, <1>4, <1>5, <2>1
    <3>2. ASSUME FinCounted(e)'
          PROVE  FALSE
      <4>1. u.recvNext = init + 2 + n + k
        BY <1>3, <1>4, <1>5, <2>1, <3>2
      <4>2. t.recvNext = init + 2 + n
        BY <1>3, <1>4, <2>1, <2>2, <4>1
      <4> QED
        BY <1>3, <1>4, <3>1, <4>2
    <3> QED
      BY <3>1, <3>2
  <2>5. Received(e)' = Received(e) \o [i \in 1..k |-> n + i]
    <3>1. [i \in 1..n |-> i] \o [i \in 1..k |-> n + i] = [i \in 1..(n + k) |-> i]
      BY <1>4, <2>1, CountOn
    <3> QED
      BY <1>4, <1>5, <2>1, <3>1
  <2> QED
    BY <1>1, <1>11, <2>3, <2>4, <2>5, StreamStep DEF n, wq
<1> QED
  BY <1>7, <1>9, <1>10, <1>11

LEMMA ReadMovesStream ==
    ASSUME NoWrap, Inductive, Inductive', NEW e \in Endpoints, ReadMoves(e)
    PROVE  [Stream!Next]_(Stream!vars)
<1>1. /\ tcb'[e].state = tcb[e].state
      /\ tcb'[e].recvNext = tcb[e].recvNext
      /\ Len(delivered'[e]) + Len(tcb'[e].recvBuf)
            = Len(delivered[e]) + Len(tcb[e].recvBuf)
      /\ tcb'[Peer(e)] = tcb[Peer(e)]
      /\ delivered'[Peer(e)] = delivered[Peer(e)]
      /\ UNCHANGED written
  BY DEF ReadMoves
<1>2. CanWrite(e)' <=> CanWrite(e)
  BY <1>1 DEF CanWrite
<1>3. Len(Received(e)') = Len(Received(e))
  <2>1. Len(Received(e)) = Len(delivered[e]) + Len(tcb[e].recvBuf)
    BY SeenNow
  <2>2. Len(Received(e)') = Len(delivered'[e]) + Len(tcb'[e].recvBuf)
    BY SeenNext
  <2> QED
    BY <1>1, <2>1, <2>2
<1>4. Received(e)' = Received(e)
  BY <1>3, SeenNow, SeenNext
<1>5. FinCounted(e)' <=> FinCounted(e)
  BY <1>1, <1>3, SeenNow, SeenNext
<1> QED
  BY <1>1, <1>2, <1>4, <1>5, StreamStep

LEMMA WriteMovesStream ==
    ASSUME NoWrap, Inductive, Inductive', NEW e \in Endpoints, WriteMoves(e)
    PROVE  [Stream!Next]_(Stream!vars)
<1> DEFINE ended == [x \in Endpoints |-> ~CanWrite(x)]
           given == [x \in Endpoints |-> Received(x)]
           eof == [x \in Endpoints |-> FinCounted(x)]
<1>1. /\ Alike(tcb[e], tcb'[e])
      /\ tcb[e].state = "ESTABLISHED"
      /\ written' = [written EXCEPT ![e] = written'[e]]
      /\ written'[e] \in Nat /\ written[e] <= written'[e]
      /\ tcb'[Peer(e)] = tcb[Peer(e)]
      /\ UNCHANGED delivered
  BY DEF WriteMoves
<1>2. \A x \in Endpoints : x = e \/ x = Peer(e)
  BY EndpointsDef
<1>3. Peer(e) \in Endpoints /\ Peer(e) # e
  BY EndpointsDef
<1>4. written'[Peer(e)] = written[Peer(e)]
  BY <1>1, <1>3 DEF Inductive, TypeOK
<1>5. CanWrite(e) /\ CanWrite(e)'
  BY <1>1 DEF Alike, CanWrite, WriteStates
<1>6. Len(Received(e)') = Len(Received(e))
  <2>1. Len(Received(e)) = Len(delivered[e]) + Len(tcb[e].recvBuf)
    BY SeenNow
  <2>2. Len(Received(e)') = Len(delivered'[e]) + Len(tcb'[e].recvBuf)
    BY SeenNext
  <2> QED
    BY <1>1, <2>1, <2>2 DEF Alike
<1>7. Received(e)' = Received(e)
  BY <1>6, SeenNow, SeenNext
<1>8. FinCounted(e)' <=> FinCounted(e)
  BY <1>1, <1>6, SeenNow, SeenNext DEF Alike
<1>9. \A x \in Endpoints : /\ CanWrite(x)' <=> CanWrite(x)
                           /\ Received(x)' = Received(x)
                           /\ FinCounted(x)' <=> FinCounted(x)
  BY <1>1, <1>2, <1>3, <1>5, <1>7, <1>8, StandsStill
<1>10. ended' = ended /\ given' = given /\ eof' = eof
  BY <1>9 DEF CanWrite, FinCounted
<1>11. ~ended[e]
  BY <1>5
<1> HIDE DEF ended, given, eof
<1>12. CASE written'[e] = written[e]
  <2>1. UNCHANGED written
    BY <1>1, <1>12 DEF Inductive, TypeOK
  <2> QED
    BY <1>10, <2>1 DEF Stream!vars, ended, given, eof
<1>13. CASE written'[e] # written[e]
  <2>1. written'[e] > written[e]
    BY <1>1, <1>13 DEF Inductive, TypeOK
  <2>2. Stream!Extend(e)
    BY <1>1, <1>10, <1>11, <2>1 DEF Stream!Extend, ended, given, eof
  <2> QED
    BY <2>2 DEF Stream!Next, Stream!Endpoints, Endpoints
<1> QED
  BY <1>12, <1>13

LEMMA NextStream ==
    ASSUME NoWrap, Inductive, Inductive', [Next]_vars
    PROVE  [Stream!Next]_(Stream!vars)
<1>1. CASE UNCHANGED <<tcb, written, delivered>>
  BY <1>1 DEF Stream!vars, CanWrite, Received, FinCounted
<1>2. CASE \E e \in Endpoints : EndMoves(e) \/ WriteMoves(e) \/ ReadMoves(e)
  BY <1>2, EndMovesStream, WriteMovesStream, ReadMovesStream
<1> QED
  BY <1>1, <1>2, NextMoves

LEMMA InitStream ==
    ASSUME NoWrap, Init
    PROVE  Stream!Init
<1>1. Inductive
  BY InitSafe
<1>2. ASSUME NEW e \in Endpoints
      PROVE  ~(~CanWrite(e)) /\ Received(e) = <<>> /\ ~FinCounted(e)
  <2>1. /\ tcb[e].state = "NONE" /\ tcb[e].recvNext = 0
        /\ tcb[e].recvBuf = <<>> /\ delivered[e] = <<>>
    BY DEF Init, NoTcb
  <2>2. Received(e) = <<>>
    BY <2>1 DEF Received
  <2> QED
    BY <1>1, <2>1, <2>2, SeenNow DEF CanWrite, WriteStates
<1>3. /\ [x \in Endpoints |-> ~CanWrite(x)] = [x \in Endpoints |-> FALSE]
      /\ [x \in Endpoints |-> Received(x)] = [x \in Endpoints |-> <<>>]
      /\ [x \in Endpoints |-> FinCounted(x)] = [x \in Endpoints |-> FALSE]
  BY <1>2 DEF CanWrite, FinCounted
<1>4. written = [x \in Endpoints |-> 0]
  BY DEF Init
<1> QED
  BY <1>3, <1>4 DEF Stream!Init, Stream!Endpoints, Endpoints

-----------------------------------------------------------------------------
(* The theorems.                                                           *)

\* Neither end's view of the other moves back: acknowledgements and numbers
\* received only grow, whatever older segments arrive later.
THEOREM NeverBack ==
    ASSUME NoWrap
    PROVE  Spec => NeverMovesBack
<1> DEFINE Forward == \A e \in Endpoints :
                         tcb[e].state \notin {"NONE", "SYN_SENT"} =>
                            /\ tcb'[e].sendUnack >= tcb[e].sendUnack
                            /\ tcb'[e].recvNext >= tcb[e].recvNext
<1>1. ASSUME Inductive, [Next]_vars
      PROVE  Forward
  <2>1. ASSUME NEW e \in Endpoints
        PROVE  tcb[e].sendUnack \in Nat /\ tcb[e].recvNext \in Nat
    BY <1>1, TypeOKBlocks, BlockFields DEF Inductive
  <2>2. CASE UNCHANGED tcb
    BY <2>1, <2>2
  <2>3. CASE \E e \in Endpoints : EndMoves(e) \/ WriteMoves(e) \/ ReadMoves(e)
    <3>1. PICK e \in Endpoints : EndMoves(e) \/ WriteMoves(e) \/ ReadMoves(e)
      BY <2>3
    <3>2. tcb'[Peer(e)] = tcb[Peer(e)]
      BY <3>1 DEF EndMoves, WriteMoves, ReadMoves
    <3>3. tcb[e].state \notin {"NONE", "SYN_SENT"} =>
             /\ tcb[e].sendUnack <= tcb'[e].sendUnack
             /\ tcb[e].recvNext <= tcb'[e].recvNext
      <4>1. CASE EndMoves(e)
        BY <4>1 DEF EndMoves, MovesOn
      <4>2. CASE tcb'[e].sendUnack = tcb[e].sendUnack /\ tcb'[e].recvNext = tcb[e].recvNext
        BY <2>1, <4>2
      <4> QED
        BY <3>1, <4>1, <4>2 DEF WriteMoves, ReadMoves, Alike
    <3>4. \A x \in Endpoints : x = e \/ x = Peer(e)
      BY EndpointsDef
    <3> QED
      BY <2>1, <3>2, <3>3, <3>4
  <2> QED
    BY <1>1, <2>2, <2>3, NextMoves
<1>2. Spec => []Inductive
  BY InductiveHolds
<1>3. Inductive /\ [Next]_vars => [Forward]_vars
  BY <1>1
<1> QED
  BY <1>2, <1>3, PTL DEF Spec, NeverMovesBack

\* A connection implements a pair of reliable streams.
THEOREM StreamImplemented ==
    ASSUME NoWrap
    PROVE  Spec => ImplementsStream
<1>1. Init => Stream!Init
  BY InitStream
<1>2. Inductive /\ Inductive' /\ [Next]_vars => [Stream!Next]_(Stream!vars)
  BY NextStream
<1>3. Spec => []Inductive
  BY InductiveHolds
<1> QED
  BY <1>1, <1>2, <1>3, PTL DEF Spec, ImplementsStream, Stream!Spec

=============================================================================
