----------------------------- MODULE TcpProofs -----------------------------
(***************************************************************************)
(* Theorems about a connection, for every value of the constants: buffers  *)
(* of any size, any number of bytes, retransmissions and losses, and every *)
(* kind of network that module Tcp knows.                                  *)
(***************************************************************************)
EXTENDS TcpProperties, Integers, SequenceTheorems, WellFoundedInduction, TLAPS

-----------------------------------------------------------------------------
(* Least elements.                                                         *)

\* Every non-empty set of natural numbers has a least element.
LEMMA NatMin ==
    ASSUME NEW T \in SUBSET Nat, T # {}
    PROVE  \E x \in T : \A y \in T : x <= y
<1> DEFINE R == {ss \in Nat \X Nat : ss[1] < ss[2]}
<1>1. IsWellFoundedOn(R, Nat)
  <2>1. R = OpToRel(<, Nat)
    BY DEF OpToRel
  <2> QED
    BY <2>1, NatLessThanWellFounded
<1>2. \A x, y \in Nat : <<x, y>> \in R <=> x < y
  OBVIOUS
<1> HIDE DEF R
<1>3. PICK x \in T : \A y \in T : ~(<<y, x>> \in R)
  BY <1>1, WFMin
<1>4. x \in Nat
  OBVIOUS
<1>5. ASSUME NEW y \in T
      PROVE  x <= y
  <2>1. y \in Nat
    OBVIOUS
  <2>2. ~(y < x)
    BY <1>2, <1>3, <1>4, <2>1, Zenon
  <2> QED
    BY <1>4, <2>1, <2>2
<1> QED
  BY <1>5

\* Min of a non-empty set of natural numbers is its least element.
LEMMA MinOfNat ==
    ASSUME NEW T \in SUBSET Nat, T # {}
    PROVE  Min(T) \in T /\ \A y \in T : Min(T) <= y
  BY NatMin DEF Min

-----------------------------------------------------------------------------
(* Sending.                                                                *)

\* A segment takes a run of bytes from the head of the buffer: never a control
\* item, at least one byte if there is one, and at most MaxPayload.
LEMMA PayloadLenRun ==
    ASSUME NEW buf \in Seq(Item)
    PROVE  /\ PayloadLen(buf) \in Nat
           /\ PayloadLen(buf) <= Len(buf)
           /\ PayloadLen(buf) <= MaxPayload
           /\ \A i \in 1..PayloadLen(buf) : buf[i].ctrl = "none"
           /\ buf # <<>> => (PayloadLen(buf) = 0 <=> Head(buf).ctrl # "none")
<1> DEFINE Ctrls == {i \in 1..Len(buf) : buf[i].ctrl # "none"}
           T == Ctrls \cup {MaxPayload + 1, Len(buf) + 1}
<1>1. /\ T \in SUBSET Nat /\ T # {}
      /\ \A x \in T : x >= 1
      /\ MaxPayload + 1 \in T /\ Len(buf) + 1 \in T
  BY TcbAssumption
<1> DEFINE m == Min(T)
<1>2. m \in T /\ \A y \in T : m <= y
  BY <1>1, MinOfNat
<1>3. PayloadLen(buf) = m - 1
  BY DEF PayloadLen
<1>4. \A i \in 1..Len(buf) : buf[i].ctrl # "none" => i \in T
  OBVIOUS
<1>5. buf # <<>> => 1 \in 1..Len(buf) /\ Head(buf) = buf[1]
  OBVIOUS
<1>6. m = 1 => m \in Ctrls \/ MaxPayload + 1 = 1 \/ Len(buf) + 1 = 1
  BY <1>2
<1>7. m \in Nat /\ m >= 1 /\ m <= Len(buf) + 1 /\ m <= MaxPayload + 1
  BY <1>1, <1>2
<1> HIDE DEF m, T
<1>8. \A i \in 1..(m - 1) : buf[i].ctrl = "none"
  BY <1>2, <1>4, <1>7, TcbAssumption
<1>9. ASSUME buf # <<>>
      PROVE  m - 1 = 0 <=> Head(buf).ctrl # "none"
  <2>1. Len(buf) >= 1
    BY <1>9
  <2>2. Head(buf).ctrl # "none" => m <= 1
    BY <1>2, <1>4, <1>5, <1>9
  <2>3. m = 1 => buf[1].ctrl # "none"
    BY <1>6, <2>1, TcbAssumption
  <2> QED
    BY <1>5, <1>7, <1>9, <2>2, <2>3
<1> QED
  BY <1>3, <1>7, <1>8, <1>9, TcbAssumption

-----------------------------------------------------------------------------
(* The blocks an operation may leave behind.                               *)

\* Within what the buffers can hold and the retransmissions allowed.
Fits(t) ==
    /\ Len(t.sendBuf) <= SendCapacity
    /\ Len(t.recvBuf) <= RecvCapacity
    /\ t.retransCount <= MaxRetrans

Block(E, e) == {t \in TCB(E) : t.local = e /\ Fits(t)}

\* A result that keeps the types.
Typed(E, e, r) == r.tcb \in Block(E, e) /\ r.out \subseteq Segment(E)

LEMMA PlusType ==
    ASSUME NEW x \in Nat, NEW n \in Nat
    PROVE  Plus(x, n) \in Nat
  BY TcbAssumption DEF Plus

LEMMA SegLenType ==
    ASSUME NEW E, NEW s \in Segment(E)
    PROVE  SegLen(s) \in Nat
<1>1. s.data \in Seq(Nat) /\ s.syn \in BOOLEAN /\ s.fin \in BOOLEAN
  BY DEF Segment
<1>2. Flag(s.syn) \in Nat /\ Flag(s.fin) \in Nat
  BY DEF Flag
<1>3. Len(s.data) \in Nat
  BY <1>1
<1> QED
  BY <1>2, <1>3 DEF SegLen

LEMMA PureAckType ==
    ASSUME NEW E, NEW t \in TCB(E)
    PROVE  PureAck(t) \in Segment(E)
  BY DEF PureAck, TCB, Segment

\* A segment made from a non-empty buffer carries what it takes from it.
LEMMA NextSegmentType ==
    ASSUME NEW E, NEW t \in TCB(E), t.sendBuf # <<>>
    PROVE  /\ NextSegment(t) \in Segment(E)
           /\ SegLen(NextSegment(t)) \in 1..Len(t.sendBuf)
<1> DEFINE buf == t.sendBuf
           n == PayloadLen(buf)
           s == NextSegment(t)
<1>1. buf \in Seq(Item)
  BY DEF TCB
<1>2. /\ n \in Nat /\ n <= Len(buf)
      /\ n = 0 <=> Head(buf).ctrl # "none"
  BY <1>1, PayloadLenRun
<1>3. Len(buf) \in Nat /\ Len(buf) >= 1 /\ Head(buf) \in Item
  BY <1>1
<1>4. s.data \in Seq(Nat) /\ Len(s.data) = n
  <2>1. s.data = [i \in 1..n |-> buf[i].byte]
    BY DEF NextSegment
  <2>2. \A i \in 1..n : buf[i].byte \in Nat
    <3>1. \A i \in 1..n : buf[i] \in Item
      BY <1>1, <1>2, <1>3
    <3> QED
      BY <3>1 DEF Item
  <2> HIDE DEF n, s, buf
  <2> QED
    BY <1>2, <2>1, <2>2
<1>5. s \in Segment(E)
  BY <1>4 DEF NextSegment, Segment, TCB
<1>6. Flag(s.syn) + Flag(s.fin) = (IF Head(buf).ctrl = "none" THEN 0 ELSE 1)
  <2>1. Flag(s.syn) = IF Head(buf).ctrl = "syn" THEN 1 ELSE 0
    BY DEF NextSegment, Flag
  <2>2. Flag(s.fin) = IF Head(buf).ctrl = "fin" THEN 1 ELSE 0
    BY DEF NextSegment, Flag
  <2>3. Head(buf).ctrl \in {"none", "syn", "fin"}
    BY <1>3 DEF Item
  <2> HIDE DEF s, buf
  <2> QED
    BY <2>1, <2>2, <2>3
<1>7. SegLen(s) = n + (IF Head(buf).ctrl = "none" THEN 0 ELSE 1)
  <2>1. Flag(s.syn) \in Nat /\ Flag(s.fin) \in Nat
    BY DEF Flag
  <2> HIDE DEF s, n, buf
  <2> QED
    BY <1>2, <1>4, <1>6, <2>1 DEF SegLen
<1> QED
  BY <1>2, <1>3, <1>5, <1>7

LEMMA SendSegmentType ==
    ASSUME NEW E, NEW e \in E, NEW t \in Block(E, e)
    PROVE  Typed(E, e, SendSegment(t))
<1>1. t \in TCB(E)
  BY DEF Block
<1>2. CASE WaitingForAck(t) \/ t.sendBuf = <<>>
  BY <1>1, <1>2, PureAckType DEF SendSegment, Typed, Result
<1>3. CASE ~(WaitingForAck(t) \/ t.sendBuf = <<>>)
  <2> DEFINE s == NextSegment(t)
             buf == SubSeq(t.sendBuf, SegLen(s) + 1, Len(t.sendBuf))
  <2>1. s \in Segment(E) /\ SegLen(s) \in 1..Len(t.sendBuf)
    BY <1>1, <1>3, NextSegmentType
  <2>2. t.sendBuf \in Seq(Item) /\ t.sendNext \in Nat
    BY <1>1 DEF TCB
  <2>3. Len(t.sendBuf) \in Nat /\ SegLen(s) \in Nat
    BY <2>1, <2>2
  <2>4. buf \in Seq(Item) /\ Len(buf) <= Len(t.sendBuf)
    BY <2>1, <2>2, <2>3, SubSeqProperties
  <2>5. Plus(t.sendNext, SegLen(s)) \in Nat
    BY <2>2, <2>3, PlusType
  <2> DEFINE u == [t EXCEPT !.sendNext = Plus(t.sendNext, SegLen(s)),
                            !.sendBuf = buf, !.lastSeg = s,
                            !.retransCount = 0]
  <2>6. SendSegment(t) = Result(u, {s})
    BY <1>3 DEF SendSegment
  <2> HIDE DEF s, buf
  <2>7. u \in TCB(E)
    BY <1>1, <2>1, <2>4, <2>5 DEF TCB
  <2>8. /\ u.local = t.local /\ u.sendBuf = buf
        /\ u.recvBuf = t.recvBuf /\ u.retransCount = 0
    BY <1>1 DEF TCB
  <2> HIDE DEF u
  <2>9. Len(buf) <= SendCapacity
    BY <2>2, <2>3, <2>4, TcbAssumption DEF Block, Fits
  <2> QED
    BY <2>1, <2>6, <2>7, <2>8, <2>9, TcbAssumption
       DEF Result, Typed, Block, Fits
<1> QED
  BY <1>2, <1>3

LEMMA MakeSureSendbackType ==
    ASSUME NEW E, NEW e \in E, NEW t \in Block(E, e)
    PROVE  Typed(E, e, MakeSureSendback(t))
  BY SendSegmentType DEF MakeSureSendback, Silent, Result, Typed

\* What is pushed must fit in the buffer.
LEMMA PushAndSendType ==
    ASSUME NEW E, NEW e \in E, NEW t \in Block(E, e), NEW items \in Seq(Item),
           Len(t.sendBuf) + Len(items) <= SendCapacity
    PROVE  Typed(E, e, PushAndSend(t, items))
<1> DEFINE u == [t EXCEPT !.sendBuf = t.sendBuf \o items]
<1>1. t \in TCB(E) /\ t.sendBuf \in Seq(Item)
  BY DEF Block, TCB
<1>2. t.sendBuf \o items \in Seq(Item)
      /\ Len(t.sendBuf \o items) = Len(t.sendBuf) + Len(items)
  BY <1>1, ConcatProperties
<1>3. u \in TCB(E)
  BY <1>1, <1>2 DEF TCB
<1>4. u.local = t.local /\ u.sendBuf = t.sendBuf \o items
      /\ u.recvBuf = t.recvBuf /\ u.retransCount = t.retransCount
  BY <1>1 DEF TCB
<1> HIDE DEF u
<1>5. u \in Block(E, e)
  BY <1>2, <1>3, <1>4 DEF Block, Fits
<1>6. PushAndSend(t, items) = MakeSureSendback(u)
  BY DEF PushAndSend, u
<1> QED
  BY <1>5, <1>6, MakeSureSendbackType

LEMMA SendCtrlType ==
    ASSUME NEW E, NEW e \in E, NEW t \in Block(E, e), NEW c \in {"syn", "fin"}
    PROVE  Typed(E, e, SendCtrl(t, c))
<1>1. CASE SendBufFull(t)
  BY <1>1 DEF SendCtrl, Silent, Result, Typed
<1>2. CASE ~SendBufFull(t)
  <2>1. <<CtrlItem(c)>> \in Seq(Item) /\ Len(<<CtrlItem(c)>>) = 1
    BY DEF CtrlItem, Item
  <2>2. Len(t.sendBuf) \in Nat /\ Len(t.sendBuf) <= SendCapacity
    BY DEF Block, Fits, TCB
  <2>3. Len(t.sendBuf) + 1 <= SendCapacity
    BY <1>2, <2>2, TcbAssumption DEF SendBufFull
  <2> QED
    BY <1>2, <2>1, <2>3, PushAndSendType DEF SendCtrl
<1> QED
  BY <1>1, <1>2

-----------------------------------------------------------------------------
(* Opening, receiving, closing.                                            *)

LEMMA NoTcbType ==
    ASSUME NEW E, NEW e \in E
    PROVE  NoTcb(e) \in Block(E, e)
<1>1. <<>> \in Seq(Item) /\ <<>> \in Seq(Nat) /\ Len(<<>>) = 0
  OBVIOUS
<1>2. NoSegment(e) \in Segment(E)
  BY <1>1 DEF NoSegment, Segment
<1>3. NoTcb(e) \in TCB(E)
  BY <1>1, <1>2 DEF NoTcb, TCB, States
<1> QED
  BY <1>1, <1>3, TcbAssumption DEF NoTcb, Block, Fits

\* The fields an operation sets without sending keep a block a block.
LEMMA SettingType ==
    ASSUME NEW E, NEW e \in E, NEW t \in Block(E, e)
    PROVE  /\ \A s \in States : [t EXCEPT !.state = s] \in Block(E, e)
           /\ \A n \in Nat : [t EXCEPT !.recvNext = n] \in Block(E, e)
           /\ \A n \in Nat : [t EXCEPT !.sendUnack = n] \in Block(E, e)
<1>1. t \in TCB(E) /\ t.local = e /\ Fits(t)
  BY DEF Block
<1>2. ASSUME NEW s \in States
      PROVE  [t EXCEPT !.state = s] \in Block(E, e)
  BY <1>1 DEF TCB, Block, Fits
<1>3. ASSUME NEW n \in Nat
      PROVE  [t EXCEPT !.recvNext = n] \in Block(E, e)
  BY <1>1 DEF TCB, Block, Fits
<1>4. ASSUME NEW n \in Nat
      PROVE  [t EXCEPT !.sendUnack = n] \in Block(E, e)
  BY <1>1 DEF TCB, Block, Fits
<1> QED
  BY <1>2, <1>3, <1>4

LEMMA OpeningType ==
    ASSUME NEW E, NEW e \in E, NEW init \in Nat, NEW m \in Segment(E)
    PROVE  /\ ActiveTcb(e, init) \in Block(E, e)
           /\ PassiveTcb(e, init, m) \in Block(E, e)
<1> DEFINE t == NoTcb(e)
<1>1. t \in TCB(E) /\ t.local = e /\ Fits(t)
  BY NoTcbType DEF Block
<1>2. m.seq \in Nat /\ Plus(m.seq, 1) \in Nat
  BY PlusType DEF Segment
<1> HIDE DEF t
<1>3. ActiveTcb(e, init) \in Block(E, e)
  BY <1>1 DEF ActiveTcb, t, TCB, Block, Fits, States
<1>4. PassiveTcb(e, init, m) \in Block(E, e)
  BY <1>1, <1>2 DEF PassiveTcb, t, TCB, Block, Fits, States
<1> QED
  BY <1>3, <1>4

LEMMA AckType ==
    ASSUME NEW E, NEW e \in E, NEW t \in Block(E, e), NEW m \in Segment(E)
    PROVE  Ack(t, m) \in Block(E, e)
<1>1. m.ackSeq \in Nat
  BY DEF Segment
<1> QED
  BY <1>1, SettingType DEF Ack

\* Bytes are only taken when there is room for them.
LEMMA TakeType ==
    ASSUME NEW E, NEW e \in E, NEW t \in Block(E, e), NEW m \in Segment(E),
           Len(m.data) <= RecvRoom(t)
    PROVE  Take(t, m) \in Block(E, e)
<1> DEFINE buf == t.recvBuf \o m.data
           n == Plus(t.recvNext, Len(m.data) + Flag(m.fin))
           s == IF m.fin THEN "CLOSE_WAIT" ELSE t.state
<1>1. t \in TCB(E) /\ t.local = e /\ Fits(t)
  BY DEF Block
<1>2. /\ t.recvBuf \in Seq(Nat) /\ t.recvNext \in Nat /\ t.state \in States
      /\ m.data \in Seq(Nat)
  BY <1>1 DEF TCB, Segment
<1>3. buf \in Seq(Nat) /\ Len(buf) = Len(t.recvBuf) + Len(m.data)
  BY <1>2, ConcatProperties
<1>4. Flag(m.fin) \in Nat
  BY DEF Flag
<1>5. n \in Nat
  <2>1. Len(m.data) + Flag(m.fin) \in Nat
    BY <1>2, <1>4
  <2> QED
    BY <1>2, <2>1, PlusType
<1>6. s \in States
  BY <1>2 DEF States
<1>7. Len(buf) <= RecvCapacity
  <2> DEFINE held == Len(t.recvBuf)
             more == Len(m.data)
  <2>1. held \in Nat /\ more \in Nat
    BY <1>2
  <2>2. more <= RecvCapacity - held
    BY DEF RecvRoom
  <2>3. Len(buf) = held + more
    BY <1>3
  <2> HIDE DEF buf, held, more
  <2> QED
    BY <2>1, <2>2, <2>3, TcbAssumption
<1>8. Take(t, m) = [t EXCEPT !.recvBuf = buf, !.recvNext = n, !.state = s]
  BY <1>1 DEF Take, TCB
<1> DEFINE u == [t EXCEPT !.recvBuf = buf, !.recvNext = n, !.state = s]
<1> HIDE DEF buf, n, s
<1>9. u \in TCB(E)
  BY <1>1, <1>3, <1>5, <1>6 DEF TCB
<1>10. u.local = t.local /\ u.sendBuf = t.sendBuf
       /\ u.recvBuf = buf /\ u.retransCount = t.retransCount
  BY <1>1 DEF TCB
<1> QED
  BY <1>1, <1>7, <1>8, <1>9, <1>10 DEF Block, Fits

LEMMA SilentType ==
    ASSUME NEW E, NEW e \in E, NEW t \in Block(E, e)
    PROVE  Typed(E, e, Silent(t))
  BY DEF Silent, Result, Typed

LEMMA OnOutOfOrderType ==
    ASSUME NEW E, NEW e \in E, NEW t \in Block(E, e), NEW m \in Segment(E)
    PROVE  Typed(E, e, OnOutOfOrder(t, m))
  BY AckType, MakeSureSendbackType DEF OnOutOfOrder

LEMMA OnSynRecvType ==
    ASSUME NEW E, NEW e \in E, NEW t \in Block(E, e), NEW m \in Segment(E)
    PROVE  Typed(E, e, OnSynRecv(t, m))
<1>1. Ack(t, m) \in Block(E, e)
  BY AckType
<1>2. [Ack(t, m) EXCEPT !.state = "ESTABLISHED"] \in Block(E, e)
  BY <1>1, SettingType DEF States
<1> QED
  BY <1>2, SilentType DEF OnSynRecv

LEMMA OnSynSentType ==
    ASSUME NEW E, NEW e \in E, NEW t \in Block(E, e), NEW m \in Segment(E)
    PROVE  Typed(E, e, OnSynSent(t, m))
<1> DEFINE a == Ack(t, m)
           u == [a EXCEPT !.recvInit = m.seq, !.recvNext = Plus(m.seq, 1),
                          !.state = "ESTABLISHED"]
<1>1. a \in TCB(E) /\ a.local = e /\ Fits(a)
  BY AckType DEF Block
<1>2. m.seq \in Nat /\ Plus(m.seq, 1) \in Nat
  BY PlusType DEF Segment
<1>3. OnSynSent(t, m) \in {MakeSureSendback(u), Silent(t)}
  BY DEF OnSynSent
<1> HIDE DEF a
<1>4. u \in Block(E, e)
  BY <1>1, <1>2 DEF TCB, Block, Fits, States
<1> HIDE DEF u
<1> QED
  BY <1>3, <1>4, SilentType, MakeSureSendbackType

LEMMA OnEstablishedType ==
    ASSUME NEW E, NEW e \in E, NEW t \in Block(E, e), NEW m \in Segment(E)
    PROVE  Typed(E, e, OnEstablished(t, m))
<1> DEFINE a == Ack(t, m)
<1>1. a \in Block(E, e)
  BY AckType
<1>2. RecvRoom(a) = RecvRoom(t)
  BY DEF Ack, RecvRoom, Block, TCB
<1>3. Len(m.data) \in Nat /\ RecvRoom(t) \in Int
  <2>1. m.data \in Seq(Nat) /\ t.recvBuf \in Seq(Nat)
    BY DEF Segment, Block, TCB
  <2>2. Len(m.data) \in Nat /\ Len(t.recvBuf) \in Nat
    BY <2>1
  <2> QED
    BY <2>2, TcbAssumption DEF RecvRoom
<1>4. CASE Len(m.data) > RecvRoom(t)
  <2>1. ~(Len(m.data) <= RecvRoom(t))
    BY <1>3, <1>4
  <2>2. OnEstablished(t, m) = Silent(a)
    BY <1>4, <2>1 DEF OnEstablished
  <2> QED
    BY <1>1, <2>2, SilentType
<1>5. CASE ~(Len(m.data) > RecvRoom(t))
  <2>1. Len(m.data) <= RecvRoom(t)
    BY <1>3, <1>5
  <2>2. Take(a, m) \in Block(E, e)
    BY <1>1, <1>2, <2>1, TakeType
  <2>3. OnEstablished(t, m) \in {MakeSureSendback(Take(a, m)), Silent(Take(a, m))}
    BY <1>5, <2>1 DEF OnEstablished
  <2> QED
    BY <2>2, <2>3, SilentType, MakeSureSendbackType
<1> QED
  BY <1>4, <1>5

LEMMA OnFinWait1Type ==
    ASSUME NEW E, NEW e \in E, NEW t \in Block(E, e), NEW m \in Segment(E)
    PROVE  Typed(E, e, OnFinWait1(t, m))
<1> DEFINE a == Ack(t, m)
           r == MakeSureSendback([a EXCEPT !.recvNext = Plus(a.recvNext, 1)])
           s == IF WaitingForAck(r.tcb) THEN "CLOSING" ELSE "TIME_WAIT"
           u == [r.tcb EXCEPT !.state = s]
<1>1. a \in Block(E, e)
  BY AckType
<1>2. Plus(a.recvNext, 1) \in Nat
  BY <1>1, PlusType DEF Block, TCB
<1>3. Typed(E, e, r)
  BY <1>1, <1>2, SettingType, MakeSureSendbackType
<1>4. u \in Block(E, e) /\ r.out \subseteq Segment(E)
  BY <1>3, SettingType DEF Typed, States
<1>5. [a EXCEPT !.state = "FIN_WAIT2"] \in Block(E, e)
  BY <1>1, SettingType DEF States
<1>6. OnFinWait1(t, m) \in
          {Silent(a), Result(u, r.out), Silent([a EXCEPT !.state = "FIN_WAIT2"])}
  BY <1>1 DEF OnFinWait1, IsPureAck, NeedToAck, Block, TCB
<1> HIDE DEF a, r, s, u
<1> QED
  BY <1>1, <1>4, <1>5, <1>6, SilentType DEF Typed, Result

LEMMA OnFinWait2Type ==
    ASSUME NEW E, NEW e \in E, NEW t \in Block(E, e), NEW m \in Segment(E)
    PROVE  Typed(E, e, OnFinWait2(t, m))
<1> DEFINE a == Ack(t, m)
           u == [a EXCEPT !.recvNext = Plus(a.recvNext, 1), !.state = "TIME_WAIT"]
<1>1. a \in TCB(E) /\ a.local = e /\ Fits(a) /\ a \in Block(E, e)
  BY AckType DEF Block
<1>2. Plus(a.recvNext, 1) \in Nat
  BY <1>1, PlusType DEF TCB
<1>3. OnFinWait2(t, m) \in {Silent(a), MakeSureSendback(u)}
  BY <1>1 DEF OnFinWait2, TCB
<1> HIDE DEF a
<1>4. u \in Block(E, e)
  BY <1>1, <1>2 DEF TCB, Block, Fits, States
<1> HIDE DEF u
<1> QED
  BY <1>1, <1>3, <1>4, SilentType, MakeSureSendbackType

LEMMA OnClosingType ==
    ASSUME NEW E, NEW e \in E, NEW t \in Block(E, e), NEW m \in Segment(E)
    PROVE  Typed(E, e, OnClosing(t, m))
  BY SettingType, SilentType DEF OnClosing, States

LEMMA OnLastAckType ==
    ASSUME NEW E, NEW e \in E, NEW t \in Block(E, e), NEW m \in Segment(E)
    PROVE  Typed(E, e, OnLastAck(t, m))
<1> DEFINE u == [t EXCEPT !.state = "CLOSE", !.sendUnack = Plus(t.sendUnack, 1)]
<1>1. t \in TCB(E) /\ t.local = e /\ Fits(t)
  BY DEF Block
<1>2. Plus(t.sendUnack, 1) \in Nat
  BY <1>1, PlusType DEF TCB
<1>3. u \in Block(E, e)
  BY <1>1, <1>2 DEF TCB, Block, Fits, States
<1>4. OnLastAck(t, m) \in {Silent(u), Silent(t)}
  BY <1>1 DEF OnLastAck, TCB
<1> HIDE DEF u
<1> QED
  BY <1>3, <1>4, SilentType

LEMMA CloseTcbType ==
    ASSUME NEW E, NEW e \in E, NEW t \in Block(E, e)
    PROVE  Typed(E, e, CloseTcb(t))
<1>1. \A s \in States : [t EXCEPT !.state = s] \in Block(E, e)
  BY SettingType
<1>2. CloseTcb(t) \in {Silent([t EXCEPT !.state = "CLOSE"]), Silent(t),
                      SendCtrl([t EXCEPT !.state = "FIN_WAIT1"], "fin"),
                      SendCtrl([t EXCEPT !.state = "LAST_ACK"], "fin")}
  BY DEF CloseTcb
<1> QED
  BY <1>1, <1>2, SilentType, SendCtrlType DEF States

LEMMA RetransmitType ==
    ASSUME NEW E, NEW e \in E, NEW t \in Block(E, e)
    PROVE  Typed(E, e, Retransmit(t))
<1> DEFINE s == [t.lastSeg EXCEPT !.ackSeq = t.recvNext]
           n == t.retransCount + 1
           u == [t EXCEPT !.lastSeg = s, !.retransCount = n]
<1>1. t \in TCB(E) /\ t.local = e /\ Fits(t) /\ t.retransCount \in Nat
  BY DEF Block, TCB
<1>2. s \in Segment(E)
  BY <1>1 DEF TCB, Segment
<1>3. CASE t.retransCount >= MaxRetrans
  BY <1>3, SettingType, SilentType DEF Retransmit, States
<1>4. CASE ~(t.retransCount >= MaxRetrans)
  <2>1. n \in Nat /\ n <= MaxRetrans
    BY <1>1, <1>4, TcbAssumption
  <2>2. Retransmit(t) = Result(u, {s})
    BY <1>1, <1>4 DEF Retransmit, TCB
  <2> HIDE DEF s, n
  <2>3. u \in Block(E, e)
    BY <1>1, <1>2, <2>1 DEF TCB, Block, Fits
  <2> HIDE DEF u
  <2> QED
    BY <1>2, <2>2, <2>3 DEF Typed, Result
<1> QED
  BY <1>3, <1>4

-----------------------------------------------------------------------------
(* Types.                                                                  *)

\* TypeOK in terms of the blocks above.
LEMMA TypeOKBlocks ==
    TypeOK <=>
        /\ tcb = [e \in Endpoints |-> tcb[e]]
        /\ \A e \in Endpoints : tcb[e] \in Block(Endpoints, e)
        /\ registry \in [Endpoints -> {"none", "active", "orphaned", "lost"}]
        /\ net \subseteq Segment(Endpoints)
        /\ losses \in Nat
        /\ latest \in Endpoints
        /\ written \in [Endpoints -> Nat]
        /\ delivered \in [Endpoints -> Seq(Nat)]
  BY DEF TypeOK, Block, Fits

LEMMA EndpointsDef ==
    /\ Client \in Endpoints /\ Server \in Endpoints /\ Client # Server
    /\ \A e \in Endpoints : Peer(e) \in Endpoints /\ Peer(e) # e /\ Peer(Peer(e)) = e
    /\ \A e, d \in Endpoints : d = e \/ d = Peer(e)
  BY TcpAssumption DEF Endpoints, Peer

\* A block and segments that keep their types leave the rest as it was.
LEMMA EffectTyped ==
    ASSUME TypeOK, NEW e \in Endpoints, NEW r, Typed(Endpoints, e, r),
           NEW underWay \in SUBSET Segment(Endpoints),
           Effect(e, r, underWay)
    PROVE  /\ tcb' = [d \in Endpoints |-> tcb'[d]]
           /\ \A d \in Endpoints : tcb'[d] \in Block(Endpoints, d)
           /\ net' \subseteq Segment(Endpoints)
           /\ latest' \in Endpoints
<1>1. tcb' = [tcb EXCEPT ![e] = r.tcb] /\ r.tcb \in Block(Endpoints, e)
  BY DEF Effect, Typed
<1>2. tcb = [d \in Endpoints |-> tcb[d]]
      /\ \A d \in Endpoints : tcb[d] \in Block(Endpoints, d)
  BY TypeOKBlocks
<1>3. /\ tcb' = [d \in Endpoints |-> tcb'[d]]
      /\ \A d \in Endpoints : tcb'[d] = IF d = e THEN r.tcb ELSE tcb[d]
  BY <1>1, <1>2
<1>4. net' \subseteq Segment(Endpoints)
  BY DEF Effect, Typed
<1>5. latest' \in Endpoints
  BY DEF Effect, TypeOK
<1> QED
  BY <1>1, <1>2, <1>3, <1>4, <1>5

\* The two sets of segments an arrival can leave under way.
LEMMA AfterTyped ==
    ASSUME TypeOK, NEW m
    PROVE  After(m) \in SUBSET Segment(Endpoints)
  BY DEF TypeOK, After

LEMMA InitTyped == Init => TypeOK
<1> SUFFICES ASSUME Init
             PROVE  TypeOK
  OBVIOUS
<1>1. \A e \in Endpoints : NoTcb(e) \in Block(Endpoints, e)
  BY NoTcbType
<1>2. <<>> \in Seq(Nat)
  OBVIOUS
<1> QED
  BY <1>1, <1>2, EndpointsDef, TypeOKBlocks DEF Init

\* An action that handles a segment in order, or out of order.
LEMMA HandledTyped ==
    ASSUME TypeOK, NEW e \in Endpoints, NEW m, NEW r, Typed(Endpoints, e, r),
           Effect(e, r, After(m)),
           UNCHANGED <<registry, losses, written, delivered>>
    PROVE  TypeOK'
<1>1. /\ tcb' = [d \in Endpoints |-> tcb'[d]]
      /\ \A d \in Endpoints : tcb'[d] \in Block(Endpoints, d)
      /\ net' \subseteq Segment(Endpoints)
      /\ latest' \in Endpoints
  BY AfterTyped, EffectTyped
<1> QED
  BY <1>1, TypeOKBlocks DEF TypeOK, Block, Fits

LEMMA ReceiveTyped ==
    ASSUME TypeOK, NEW e \in Endpoints, Receive(e)
    PROVE  TypeOK'
<1>1. /\ tcb[e] \in Block(Endpoints, e)
      /\ \A m \in Arriving(e) : m \in Segment(Endpoints)
  BY TypeOKBlocks DEF Arriving
<1>2. CASE ReceiveSyn(e)
  <2>1. PICK m \in Arriving(e), init \in InitSeqs[e] :
            Effect(e, SendCtrl(PassiveTcb(e, init, m), "syn"), After(m))
    BY <1>2 DEF ReceiveSyn
  <2>2. init \in Nat
    BY TcpAssumption DEF Endpoints
  <2>3. Typed(Endpoints, e, SendCtrl(PassiveTcb(e, init, m), "syn"))
    BY <1>1, <2>2, OpeningType, SendCtrlType
  <2>4. registry' \in [Endpoints -> {"none", "active", "orphaned", "lost"}]
    BY <1>2 DEF ReceiveSyn, TypeOK
  <2>5. /\ tcb' = [d \in Endpoints |-> tcb'[d]]
        /\ \A d \in Endpoints : tcb'[d] \in Block(Endpoints, d)
        /\ net' \subseteq Segment(Endpoints)
        /\ latest' \in Endpoints
    BY <2>1, <2>3, AfterTyped, EffectTyped
  <2> QED
    BY <1>2, <2>4, <2>5 DEF ReceiveSyn, TypeOK, Block, Fits
<1>3. CASE Discard(e)
  BY <1>3, AfterTyped DEF Discard, TypeOK
<1>4. CASE ReceiveOutOfOrder(e)
  BY <1>1, <1>4, OnOutOfOrderType, HandledTyped DEF ReceiveOutOfOrder
<1>5. CASE ReceiveSynRecv(e)
  BY <1>1, <1>5, OnSynRecvType, HandledTyped DEF ReceiveSynRecv, HandledAs
<1>6. CASE ReceiveSynSent(e)
  BY <1>1, <1>6, OnSynSentType, HandledTyped DEF ReceiveSynSent, HandledAs
<1>7. CASE ReceiveEstablished(e)
  BY <1>1, <1>7, OnEstablishedType, HandledTyped DEF ReceiveEstablished, HandledAs
<1>8. CASE ReceiveFinWait1(e)
  BY <1>1, <1>8, OnFinWait1Type, HandledTyped DEF ReceiveFinWait1, HandledAs
<1>9. CASE ReceiveFinWait2(e)
  BY <1>1, <1>9, OnFinWait2Type, HandledTyped DEF ReceiveFinWait2, HandledAs
<1>10. CASE ReceiveCloseWait(e)
  BY <1>1, <1>10, SilentType, HandledTyped
     DEF ReceiveCloseWait, HandledAs, OnCloseWait
<1>11. CASE ReceiveClosing(e)
  BY <1>1, <1>11, OnClosingType, HandledTyped DEF ReceiveClosing, HandledAs
<1>12. CASE ReceiveLastAck(e)
  BY <1>1, <1>12, OnLastAckType, HandledTyped DEF ReceiveLastAck, HandledAs
<1>13. CASE ReceiveTimeWait(e)
  BY <1>1, <1>13, SilentType, HandledTyped
     DEF ReceiveTimeWait, HandledAs, OnTimeWait
<1> QED
  BY <1>2, <1>3, <1>4, <1>5, <1>6, <1>7, <1>8, <1>9, <1>10, <1>11, <1>12,
     <1>13 DEF Receive

\* Write pushes only what fits.
LEMMA WriteTyped ==
    ASSUME TypeOK, NEW e \in Endpoints, NEW n \in 1..MaxBytes[e], Write(e, n)
    PROVE  TypeOK'
<1> DEFINE room == SendCapacity - Len(tcb[e].sendBuf)
           accepted == Min({n, room})
           items == [i \in 1..accepted |-> ByteItem(written[e] + i)]
<1>1. tcb[e] \in Block(Endpoints, e) /\ written[e] \in Nat
  BY TypeOKBlocks
<1>2. tcb[e].sendBuf \in Seq(Item)
  BY <1>1 DEF Block, TCB
<1>3. Len(tcb[e].sendBuf) \in Nat /\ Len(tcb[e].sendBuf) <= SendCapacity
  BY <1>1, <1>2 DEF Block, Fits
<1>4. room \in Nat /\ n \in Nat
  <2>1. MaxBytes[e] \in Nat
    BY TcpAssumption DEF Endpoints
  <2> QED
    BY <1>3, <2>1, TcbAssumption
<1> HIDE DEF room
<1>5. accepted \in {n, room} /\ accepted <= room
  BY <1>4, MinOfNat
<1>6. accepted \in Nat
  BY <1>4, <1>5
<1> HIDE DEF accepted
<1>7. items \in Seq(Item) /\ Len(items) = accepted
  <2>1. \A i \in 1..accepted : ByteItem(written[e] + i) \in Item
    BY <1>1, <1>6 DEF ByteItem, Item
  <2> QED
    BY <1>6, <2>1
<1>8. Len(tcb[e].sendBuf) + Len(items) <= SendCapacity
  <2> DEFINE held == Len(tcb[e].sendBuf)
  <2>1. held \in Nat /\ accepted <= SendCapacity - held
    BY <1>3, <1>5 DEF room
  <2> HIDE DEF held, items
  <2>2. held + accepted <= SendCapacity
    BY <1>6, <2>1, TcbAssumption
  <2> QED
    BY <1>7, <2>2 DEF held
<1>9. /\ Effect(e, PushAndSend(tcb[e], items), net)
      /\ written' = [written EXCEPT ![e] = @ + accepted]
      /\ UNCHANGED <<registry, losses, delivered>>
  BY DEF Write, Step, accepted, room
<1> HIDE DEF items
<1>10. Typed(Endpoints, e, PushAndSend(tcb[e], items))
  BY <1>1, <1>7, <1>8, PushAndSendType
<1>11. /\ tcb' = [d \in Endpoints |-> tcb'[d]]
       /\ \A d \in Endpoints : tcb'[d] \in Block(Endpoints, d)
       /\ net' \subseteq Segment(Endpoints)
       /\ latest' \in Endpoints
  BY <1>9, <1>10, EffectTyped DEF TypeOK
<1>12. written' \in [Endpoints -> Nat]
  BY <1>1, <1>6, <1>9 DEF TypeOK
<1> QED
  BY <1>9, <1>11, <1>12 DEF TypeOK, Block, Fits

\* Read moves bytes from the front of the receive buffer.
LEMMA ReadTyped ==
    ASSUME TypeOK, NEW e \in Endpoints, NEW n \in 1..RecvCapacity, Read(e, n)
    PROVE  TypeOK'
<1> DEFINE buf == tcb[e].recvBuf
           taken == Min({n, Len(buf)})
           rest == SubSeq(buf, taken + 1, Len(buf))
           u == [tcb[e] EXCEPT !.recvBuf = rest]
<1>1. tcb[e] \in TCB(Endpoints) /\ tcb[e].local = e /\ Fits(tcb[e])
  BY TypeOKBlocks DEF Block
<1>2. buf \in Seq(Nat) /\ Len(buf) \in Nat
  BY <1>1 DEF TCB
<1>3. n \in Nat
  BY TcbAssumption
<1>4. taken \in Nat /\ taken <= Len(buf)
  BY <1>2, <1>3, MinOfNat
<1>5. rest \in Seq(Nat) /\ Len(rest) <= Len(buf)
  <2> HIDE DEF taken, buf
  <2> QED
    BY <1>2, <1>4, SubSeqProperties
<1>6. SubSeq(buf, 1, taken) \in Seq(Nat)
  <2> HIDE DEF taken, buf
  <2> QED
    BY <1>2, <1>4, SubSeqProperties
<1>7. tcb' = [tcb EXCEPT ![e] = u]
  BY <1>1 DEF Read, TypeOK
<1>8. /\ delivered' = [delivered EXCEPT ![e] = @ \o SubSeq(buf, 1, taken)]
      /\ UNCHANGED <<registry, net, losses, latest, written>>
  BY DEF Read
<1> HIDE DEF taken, rest
<1>9. u \in TCB(Endpoints)
  BY <1>1, <1>5 DEF TCB
<1>10. /\ u.local = e /\ u.recvBuf = rest /\ u.sendBuf = tcb[e].sendBuf
       /\ u.retransCount = tcb[e].retransCount
  BY <1>1 DEF TCB
<1>11. Len(rest) <= RecvCapacity
  <2> DEFINE x == Len(rest)
             y == Len(buf)
  <2>1. x \in Nat /\ y \in Nat /\ x <= y /\ y <= RecvCapacity
    BY <1>1, <1>2, <1>5 DEF Fits
  <2> HIDE DEF x, y
  <2>2. x <= RecvCapacity
    BY <2>1, TcbAssumption
  <2> QED
    BY <2>2 DEF x
<1> HIDE DEF u
<1>12. u \in Block(Endpoints, e)
  BY <1>1, <1>9, <1>10, <1>11 DEF Block, Fits
<1>13. /\ tcb' = [d \in Endpoints |-> tcb'[d]]
       /\ \A d \in Endpoints : tcb'[d] \in Block(Endpoints, d)
  BY <1>7, <1>12, TypeOKBlocks
<1>14. delivered' \in [Endpoints -> Seq(Nat)]
  BY <1>6, <1>8, ConcatProperties DEF TypeOK
<1> QED
  BY <1>8, <1>13, <1>14 DEF TypeOK, Block, Fits

LEMMA UserTyped ==
    ASSUME TypeOK, NEW e \in Endpoints, User(e)
    PROVE  TypeOK'
<1>1. tcb[e] \in Block(Endpoints, e) /\ net \in SUBSET Segment(Endpoints)
  BY TypeOKBlocks
<1>2. CASE Connect(e)
  <2>1. PICK init \in InitSeqs[e] :
            Effect(e, SendCtrl(ActiveTcb(e, init), "syn"), net)
    BY <1>2 DEF Connect, Step
  <2>2. init \in Nat
    BY TcpAssumption DEF Endpoints
  <2>3. ActiveTcb(e, init) \in Block(Endpoints, e)
    <3>1. NoSegment(e) \in Segment(Endpoints)
      BY DEF NoSegment, Segment
    <3> QED
      BY <2>2, <3>1, OpeningType
  <2>4. Typed(Endpoints, e, SendCtrl(ActiveTcb(e, init), "syn"))
    BY <2>3, SendCtrlType
  <2>5. /\ tcb' = [d \in Endpoints |-> tcb'[d]]
        /\ \A d \in Endpoints : tcb'[d] \in Block(Endpoints, d)
        /\ net' \subseteq Segment(Endpoints)
        /\ latest' \in Endpoints
    BY <1>1, <2>1, <2>4, EffectTyped
  <2> QED
    BY <1>2, <2>5 DEF Connect, TypeOK, Block, Fits
<1>3. CASE \E n \in 1..MaxBytes[e] : Write(e, n)
  BY <1>3, WriteTyped
<1>4. CASE \E n \in 1..RecvCapacity : Read(e, n)
  BY <1>4, ReadTyped
<1>5. CASE Close(e)
  <2>1. /\ tcb' = [d \in Endpoints |-> tcb'[d]]
        /\ \A d \in Endpoints : tcb'[d] \in Block(Endpoints, d)
        /\ net' \subseteq Segment(Endpoints)
        /\ latest' \in Endpoints
    BY <1>1, <1>5, CloseTcbType, EffectTyped DEF Close, Step
  <2>2. registry' \in [Endpoints -> {"none", "active", "orphaned", "lost"}]
    BY <1>5 DEF Close, TypeOK
  <2> QED
    BY <1>5, <2>1, <2>2 DEF Close, TypeOK, Block, Fits
<1> QED
  BY <1>2, <1>3, <1>4, <1>5 DEF User

LEMMA TimerTyped ==
    ASSUME TypeOK, NEW e \in Endpoints, Timer(e)
    PROVE  TypeOK'
<1>1. tcb[e] \in Block(Endpoints, e) /\ net \in SUBSET Segment(Endpoints)
  BY TypeOKBlocks
<1>2. CASE Timeout(e)
  <2>1. /\ tcb' = [d \in Endpoints |-> tcb'[d]]
        /\ \A d \in Endpoints : tcb'[d] \in Block(Endpoints, d)
        /\ net' \subseteq Segment(Endpoints)
        /\ latest' \in Endpoints
    BY <1>1, <1>2, RetransmitType, EffectTyped DEF Timeout, Step
  <2> QED
    BY <1>2, <2>1 DEF Timeout, TypeOK, Block, Fits
<1>3. CASE TimeWaitExpire(e)
  <2>1. tcb' = [tcb EXCEPT ![e] = [tcb[e] EXCEPT !.state = "CLOSE"]]
    BY <1>3 DEF TimeWaitExpire, TypeOK
  <2>2. [tcb[e] EXCEPT !.state = "CLOSE"] \in Block(Endpoints, e)
    BY <1>1, SettingType DEF States
  <2>3. /\ tcb' = [d \in Endpoints |-> tcb'[d]]
        /\ \A d \in Endpoints : tcb'[d] \in Block(Endpoints, d)
    BY <2>1, <2>2, TypeOKBlocks
  <2> QED
    BY <1>3, <2>3 DEF TimeWaitExpire, TypeOK, Block, Fits
<1> QED
  BY <1>2, <1>3 DEF Timer

LEMMA NextTyped == TypeOK /\ [Next]_vars => TypeOK'
<1> SUFFICES ASSUME TypeOK, [Next]_vars
             PROVE  TypeOK'
  OBVIOUS
<1>1. ASSUME NEW e \in Endpoints, Receive(e) \/ User(e) \/ Timer(e)
      PROVE  TypeOK'
  BY <1>1, ReceiveTyped, UserTyped, TimerTyped
<1>2. CASE Lose
  BY <1>2 DEF Lose, TypeOK
<1>3. CASE UNCHANGED vars
  BY <1>3 DEF vars, TypeOK
<1> QED
  BY <1>1, <1>2, <1>3 DEF Next

\* Every block is well formed and within its buffers' capacities in every
\* reachable state: tcp_send, push_all and the handlers never overfill a ring
\* buffer, and the timer never counts beyond kTcpMaxRetrans.
THEOREM TypesHold == Spec => []TypeOK
<1>1. Init => TypeOK
  BY InitTyped
<1>2. TypeOK /\ [Next]_vars => TypeOK'
  BY NextTyped
<1> QED
  BY <1>1, <1>2, PTL DEF Spec

=============================================================================
