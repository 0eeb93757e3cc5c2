-------------------------- MODULE TcpSafetyProofs --------------------------
(***************************************************************************)
(* The safety of a connection for every value of the constants, as long as *)
(* the sequence numbers do not wrap: the invariant of module TcpInvariant  *)
(* is inductive, and the properties of module TcpProperties follow.        *)
(***************************************************************************)
EXTENDS TcpInvariant, TcpProofs

-----------------------------------------------------------------------------
(* What the send buffer holds when its user adds to it and the sender takes *)
(* from it.                                                                *)

LEMMA QueueBytes ==
    ASSUME NEW buf \in Seq(Item), NEW init \in Nat, NEW next \in Nat, NEW w \in Nat,
           NEW k \in Nat, NEW items \in Seq(Item), Len(items) = k,
           \A i \in 1..k : items[i] = ByteItem(w + i),
           Queue(buf, init, next, w, FALSE)
    PROVE  Queue(buf \o items, init, next, w + k, FALSE)
<1> DEFINE n == Len(buf)
           all == buf \o items
<1>1. n \in Nat /\ next + n = init + w + 1
  BY DEF Queue
<1>2. Len(all) = n + k
  OBVIOUS
<1>3. \A i \in 1..n : all[i] = buf[i] /\ buf[i] = ByteItem(next + i - (init + 1))
  BY <1>1 DEF Queue
<1>4. \A i \in (n + 1)..(n + k) : all[i] = ByteItem(w + (i - n))
  BY <1>1
<1> HIDE DEF n, all
<1>5. next + (n + k) = init + (w + k) + 1
  BY <1>1
<1>6. \A i \in (n + 1)..(n + k) : w + (i - n) = next + i - (init + 1)
  BY <1>1
<1>7. \A i \in 1..(n + k) : /\ next + i <= init + (w + k) + 1
                            /\ i \in 1..n \/ i \in (n + 1)..(n + k)
  BY <1>1
<1>8. \A i \in 1..(n + k) : all[i] = ByteItem(next + i - (init + 1))
  BY <1>3, <1>4, <1>6, <1>7
<1> QED
  BY <1>2, <1>5, <1>7, <1>8 DEF Queue, all

LEMMA QueueFin ==
    ASSUME NEW buf \in Seq(Item), NEW init \in Nat, NEW next \in Nat, NEW w \in Nat,
           Queue(buf, init, next, w, FALSE)
    PROVE  Queue(buf \o <<CtrlItem("fin")>>, init, next, w, TRUE)
<1> DEFINE n == Len(buf)
           c == CtrlItem("fin")
           all == buf \o <<c>>
<1>1. n \in Nat /\ next + n = init + w + 1
  BY DEF Queue
<1>2. Len(all) = n + 1
  OBVIOUS
<1>3. \A i \in 1..n : all[i] = buf[i] /\ buf[i] = ByteItem(next + i - (init + 1))
  BY <1>1 DEF Queue
<1>4. all[n + 1] = c
  BY <1>1
<1> HIDE DEF n, all
<1>5. next + (n + 1) = init + w + 2
  BY <1>1
<1>6. \A i \in 1..(n + 1) : IF next + i <= init + w + 1 THEN i \in 1..n ELSE i = n + 1
  BY <1>1
<1> HIDE DEF c
<1>7. \A i \in 1..(n + 1) : all[i] = IF next + i <= init + w + 1
                                     THEN ByteItem(next + i - (init + 1)) ELSE c
  BY <1>3, <1>4, <1>6
<1> QED
  BY <1>2, <1>5, <1>7 DEF Queue, all, c

\* k items leave a queue from its head.
LEMMA QueueTake ==
    ASSUME NEW buf \in Seq(Item), NEW init \in Nat, NEW next \in Nat, NEW w \in Nat,
           NEW ended \in BOOLEAN, NEW k \in 0..Len(buf),
           Queue(buf, init, next, w, ended)
    PROVE  Queue(SubSeq(buf, k + 1, Len(buf)), init, next + k, w, ended)
<1> DEFINE n == Len(buf)
           rest == SubSeq(buf, k + 1, n)
<1>1. n \in Nat /\ k \in Nat /\ k <= n
  OBVIOUS
<1>2. /\ Len(rest) = n - k
      /\ \A i \in 1..(n - k) : rest[i] = buf[i + k]
  BY <1>1, SubSeqProperties
<1>3. /\ \/ next + n = init + w + 1
         \/ next + n = init + w + 2 /\ ended
      /\ \A i \in 1..n : buf[i] = IF next + i <= init + w + 1
                                  THEN ByteItem(next + i - (init + 1))
                                  ELSE CtrlItem("fin")
  BY DEF Queue
<1> HIDE DEF n, rest
<1>4. \/ (next + k) + (n - k) = init + w + 1
      \/ (next + k) + (n - k) = init + w + 2 /\ ended
  BY <1>1, <1>3
<1>5. ASSUME NEW i \in 1..(n - k)
      PROVE  rest[i] = IF (next + k) + i <= init + w + 1
                       THEN ByteItem((next + k) + i - (init + 1))
                       ELSE CtrlItem("fin")
  <2>1. i + k \in 1..n /\ next + (i + k) = (next + k) + i
    BY <1>1
  <2> QED
    BY <1>2, <1>3, <2>1
<1> QED
  BY <1>2, <1>4, <1>5 DEF Queue, n, rest

LEMMA QueueEnded ==
    ASSUME NEW buf, NEW init, NEW next, NEW w, NEW ended, NEW ended2,
           ended => ended2, Queue(buf, init, next, w, ended)
    PROVE  Queue(buf, init, next, w, ended2)
  BY DEF Queue

-----------------------------------------------------------------------------
(* The sending half of a block.                                            *)

\* A block t with w bytes written that has become u with v.
Grows(t, w, u, v) ==
    /\ NotOpened(u) => NotOpened(t)
    /\ ~NotOpened(t) => u.sendInit = t.sendInit
    /\ t.sendNext <= u.sendNext
    /\ t.recvNext <= u.recvNext
    /\ w <= v
    /\ t.state \notin WriteStates => u.state \notin WriteStates /\ v = w

\* Everything the sending half of an open block promises.
SenderSide(e, t, w) ==
    /\ t \in Block(Endpoints, e)
    /\ w \in Nat
    /\ ~NotOpened(t)
    /\ SenderOK(e, t, w)
    /\ t.lastSeg.src = e
    /\ SegmentOK(t, w, t.lastSeg)

\* A result whose block and segments keep these promises.
Sends(e, w, r) ==
    /\ SenderSide(e, r.tcb, w)
    /\ \A m \in r.out : /\ m \in Segment(Endpoints)
                        /\ m.src = e
                        /\ SegmentOK(r.tcb, w, m)

\* Sending changes neither the state nor the receiving half.
SameButSent(t, u) ==
    /\ u.state = t.state
    /\ u.sendInit = t.sendInit /\ u.sendUnack = t.sendUnack
    /\ u.recvInit = t.recvInit /\ u.recvNext = t.recvNext
    /\ u.recvBuf = t.recvBuf
    /\ t.sendNext <= u.sendNext

LEMMA BlockFields ==
    ASSUME NEW e \in Endpoints, NEW t \in Block(Endpoints, e)
    PROVE  /\ t \in TCB(Endpoints) /\ t.local = e
           /\ t.state \in States
           /\ t.sendInit \in Nat /\ t.sendNext \in Nat /\ t.sendUnack \in Nat
           /\ t.recvInit \in Nat /\ t.recvNext \in Nat
           /\ t.sendBuf \in Seq(Item) /\ t.recvBuf \in Seq(Nat)
           /\ t.lastSeg \in Segment(Endpoints)
           /\ t.retransCount \in Nat
  BY DEF Block, TCB

LEMMA SegmentFields ==
    ASSUME NEW m \in Segment(Endpoints)
    PROVE  /\ m.src \in Endpoints
           /\ m.syn \in BOOLEAN /\ m.ack \in BOOLEAN /\ m.fin \in BOOLEAN
           /\ m.seq \in Nat /\ m.ackSeq \in Nat /\ m.data \in Seq(Nat)
           /\ Len(m.data) \in Nat /\ SegLen(m) \in Nat
  BY SegLenType DEF Segment

\* What a segment says stays true while its sender goes on.
LEMMA SegmentStays ==
    ASSUME NEW e \in Endpoints, NEW t \in Block(Endpoints, e), NEW w \in Nat,
           NEW u \in Block(Endpoints, e), NEW v \in Nat, Grows(t, w, u, v),
           NEW m \in Segment(Endpoints), SegmentOK(t, w, m)
    PROVE  SegmentOK(u, v, m)
<1> DEFINE l == SegLen(m)
           k == Len(m.data)
<1>1. /\ m.seq \in Nat /\ m.ackSeq \in Nat /\ l \in Nat /\ k \in Nat
      /\ t.sendInit \in Nat /\ t.sendNext \in Nat /\ t.recvNext \in Nat
      /\ u.sendInit \in Nat /\ u.sendNext \in Nat /\ u.recvNext \in Nat
  BY BlockFields, SegmentFields
<1>2. /\ ~NotOpened(t) /\ ~NotOpened(u) /\ u.sendInit = t.sendInit
      /\ t.sendNext <= u.sendNext /\ t.recvNext <= u.recvNext /\ w <= v
      /\ t.state \notin WriteStates => u.state \notin WriteStates /\ v = w
  BY DEF Grows, SegmentOK
<1>3. /\ m.ackSeq <= t.recvNext /\ m.seq + l <= t.sendNext
      /\ HavePayload(m) => m.seq + k <= t.sendInit + w + 1
  BY DEF SegmentOK
<1> HIDE DEF l, k
<1>4. /\ m.ackSeq <= u.recvNext /\ m.seq + l <= u.sendNext
      /\ HavePayload(m) => m.seq + k <= u.sendInit + v + 1
  BY <1>1, <1>2, <1>3
<1> QED
  BY <1>2, <1>4 DEF SegmentOK, l, k

\* Fields that sending does not look at may change freely.
LEMMA SenderFrame ==
    ASSUME NEW e \in Endpoints, NEW t, NEW w, SenderSide(e, t, w),
           NEW u \in Block(Endpoints, e),
           u.state # "NONE",
           t.state \notin WriteStates => u.state \notin WriteStates,
           u.sendInit = t.sendInit, u.sendNext = t.sendNext,
           u.sendBuf = t.sendBuf, u.lastSeg = t.lastSeg,
           t.recvNext <= u.recvNext
    PROVE  SenderSide(e, u, w) /\ Grows(t, w, u, w)
<1>1. /\ t \in Block(Endpoints, e) /\ w \in Nat /\ ~NotOpened(t)
      /\ SenderOK(e, t, w)
      /\ t.lastSeg.src = e /\ SegmentOK(t, w, t.lastSeg)
  BY DEF SenderSide
<1>2. Grows(t, w, u, w)
  BY <1>1, BlockFields DEF Grows, NotOpened
<1>3. SegmentOK(u, w, u.lastSeg)
  BY <1>1, <1>2, BlockFields, SegmentStays
<1>4. SenderOK(e, u, w)
  BY <1>1 DEF SenderOK, NotOpened, Queue
<1> QED
  BY <1>1, <1>2, <1>3, <1>4 DEF SenderSide, NotOpened

\* No number of a sender reaches SeqSpace.
LEMMA SenderFits ==
    ASSUME NoWrap, NEW e \in Endpoints, NEW t, NEW w, SenderSide(e, t, w)
    PROVE  /\ t.sendInit + w + 3 < SeqSpace
           /\ t.sendNext + Len(t.sendBuf) <= t.sendInit + w + 2
<1> DEFINE n == Len(t.sendBuf)
<1>1. /\ t \in Block(Endpoints, e) /\ w \in Nat
      /\ t.sendInit \in InitSeqs[e] /\ w <= MaxBytes[e]
      /\ \/ t.sendNext + n = t.sendInit + w + 1
         \/ t.sendNext + n = t.sendInit + w + 2
  BY DEF SenderSide, SenderOK, Queue
<1>2. /\ MaxBytes[e] \in Nat /\ SeqSpace \in Nat
      /\ t.sendInit + MaxBytes[e] + 3 < SeqSpace
  BY <1>1, TcpAssumption, TcbAssumption DEF NoWrap, Endpoints
<1>3. t.sendInit \in Nat /\ t.sendNext \in Nat /\ n \in Nat
  BY <1>1, BlockFields
<1> HIDE DEF n
<1>4. t.sendInit + w + 3 < SeqSpace
  BY <1>1, <1>2, <1>3
<1>5. t.sendNext + n <= t.sendInit + w + 2
  BY <1>1, <1>3
<1> QED
  BY <1>4, <1>5 DEF n

\* The segment that leaves next carries what its number says.
LEMMA NextSegmentCarries ==
    ASSUME NEW e \in Endpoints, NEW t, NEW w, SenderSide(e, t, w),
           t.sendBuf # <<>>
    PROVE  LET m == NextSegment(t)
           IN  /\ m.src = e /\ ~m.syn
               /\ m.seq = t.sendNext /\ m.ackSeq = t.recvNext
               /\ m.fin => /\ m.seq = t.sendInit + w + 1
                           /\ m.data = <<>>
                           /\ t.state \notin WriteStates
               /\ m.seq + Len(m.data) <= t.sendInit + w + 1 \/ ~HavePayload(m)
               /\ \A i \in 1..Len(m.data) :
                     m.data[i] = m.seq + i - (t.sendInit + 1)
<1> DEFINE m == NextSegment(t)
           buf == t.sendBuf
           n == Len(buf)
           k == PayloadLen(buf)
<1>1. /\ t \in Block(Endpoints, e) /\ w \in Nat
      /\ Queue(buf, t.sendInit, t.sendNext, w, t.state \notin WriteStates)
  BY DEF SenderSide, SenderOK
<1>2. /\ buf \in Seq(Item) /\ n \in Nat /\ n >= 1
      /\ t.sendInit \in Nat /\ t.sendNext \in Nat /\ t.local = e
  BY <1>1, BlockFields
<1>3. /\ k \in Nat /\ k <= n
      /\ \A i \in 1..k : buf[i].ctrl = "none"
      /\ k = 0 <=> Head(buf).ctrl # "none"
  BY <1>2, PayloadLenRun
<1>4. Head(buf) = buf[1]
  OBVIOUS
<1>5. /\ m.src = e /\ m.seq = t.sendNext /\ m.ackSeq = t.recvNext
      /\ m.syn <=> buf[1].ctrl = "syn"
      /\ m.fin <=> buf[1].ctrl = "fin"
      /\ m.data = [i \in 1..k |-> buf[i].byte]
  BY <1>2, <1>4 DEF NextSegment
<1>6. \A i \in 1..n : buf[i] = IF t.sendNext + i <= t.sendInit + w + 1
                               THEN ByteItem(t.sendNext + i - (t.sendInit + 1))
                               ELSE CtrlItem("fin")
  BY <1>1 DEF Queue
<1>7. /\ \A x : ByteItem(x).ctrl = "none" /\ ByteItem(x).byte = x
      /\ CtrlItem("fin").ctrl = "fin"
  BY DEF ByteItem, CtrlItem
<1>8. \/ t.sendNext + n = t.sendInit + w + 1
      \/ t.sendNext + n = t.sendInit + w + 2 /\ t.state \notin WriteStates
  BY <1>1 DEF Queue
<1>9. Len(m.data) = k /\ (HavePayload(m) => k >= 1)
  <2> HIDE DEF m, k, buf
  <2>1. Len(m.data) = k
    BY <1>3, <1>5
  <2>2. m.data # <<>> => k # 0
    BY <1>5
  <2> QED
    BY <1>3, <2>1, <2>2 DEF HavePayload
<1> HIDE DEF m, buf, n, k
<1>10. ~m.syn
  <2>1. 1 \in 1..n
    BY <1>2
  <2>2. buf[1].ctrl # "syn"
    BY <1>6, <1>7, <2>1
  <2> QED
    BY <1>5, <2>2
<1>11. k >= 1 => t.sendNext + k <= t.sendInit + w + 1
  <2> SUFFICES ASSUME k >= 1
               PROVE  t.sendNext + k <= t.sendInit + w + 1
    OBVIOUS
  <2>1. k \in 1..n /\ k \in 1..k
    BY <1>2, <1>3
  <2>2. buf[k].ctrl = "none"
    BY <1>3, <2>1
  <2>3. buf[k] # CtrlItem("fin")
    BY <1>7, <2>2
  <2> QED
    BY <1>6, <2>1, <2>3
<1>12. \A i \in 1..k : m.data[i] = t.sendNext + i - (t.sendInit + 1)
  <2> SUFFICES ASSUME NEW i \in 1..k
               PROVE  m.data[i] = t.sendNext + i - (t.sendInit + 1)
    OBVIOUS
  <2>1. i \in 1..n /\ t.sendNext + i <= t.sendInit + w + 1
    <3>1. i \in Nat /\ k \in Nat /\ i <= k /\ k >= 1 /\ i \in 1..n
      BY ONLY <1>2, <1>3, i \in 1..k
    <3>2. t.sendNext + k <= t.sendInit + w + 1
      BY <1>11, <3>1
    <3>3. t.sendNext \in Nat /\ t.sendInit \in Nat /\ w \in Nat
      BY <1>1, <1>2
    <3> QED
      BY ONLY <3>1, <3>2, <3>3
  <2>2. buf[i] = ByteItem(t.sendNext + i - (t.sendInit + 1))
    BY <1>6, <2>1
  <2> QED
    BY <1>5, <1>7, <2>2
<1>13. ASSUME m.fin
       PROVE  /\ t.sendNext = t.sendInit + w + 1
              /\ m.data = <<>>
              /\ t.state \notin WriteStates
  <2>1. 1 \in 1..n /\ buf[1].ctrl = "fin"
    <3>1. 1 \in 1..n
      BY <1>2
    <3> QED
      BY <1>5, <1>13, <3>1, Zenon
  <2>2. ~(t.sendNext + 1 <= t.sendInit + w + 1)
    BY <1>6, <1>7, <2>1
  <2>3. t.sendNext = t.sendInit + w + 1 /\ t.state \notin WriteStates
    BY <1>1, <1>2, <1>8, <2>2
  <2>4. k = 0
    BY <1>3, <1>4, <2>1 DEF buf
  <2>5. m.data = <<>>
    BY <1>5, <2>4
  <2> QED
    BY <2>3, <2>5
<1> QED
  BY <1>5, <1>9, <1>10, <1>11, <1>12, <1>13 DEF m

\* Whatever leaves keeps the promises, and changes nothing else.
LEMMA SendSegmentSafe ==
    ASSUME NoWrap, NEW e \in Endpoints, NEW t, NEW w, SenderSide(e, t, w)
    PROVE  LET r == SendSegment(t)
           IN  Sends(e, w, r) /\ SameButSent(t, r.tcb) /\ Grows(t, w, r.tcb, w)
<1>1. /\ t \in Block(Endpoints, e) /\ w \in Nat /\ ~NotOpened(t)
      /\ SenderOK(e, t, w)
      /\ t.lastSeg.src = e /\ SegmentOK(t, w, t.lastSeg)
  BY DEF SenderSide
<1>2. /\ t \in TCB(Endpoints) /\ t.local = e
      /\ t.sendBuf \in Seq(Item) /\ Len(t.sendBuf) \in Nat
      /\ t.sendInit \in Nat /\ t.sendNext \in Nat /\ t.recvNext \in Nat
  BY <1>1, BlockFields
<1>3. t.sendInit < t.sendNext
  BY <1>1 DEF SenderOK
<1>4. CASE WaitingForAck(t) \/ t.sendBuf = <<>>
  <2> DEFINE m == PureAck(t)
  <2>1. SendSegment(t) = Result(t, {m})
    BY <1>4 DEF SendSegment
  <2>2. m \in Segment(Endpoints)
    BY <1>2, PureAckType
  <2>3. /\ m.src = e /\ ~m.syn /\ ~m.fin /\ m.data = <<>>
        /\ m.seq = t.sendNext /\ m.ackSeq = t.recvNext
    BY <1>2 DEF PureAck
  <2>4. SegLen(m) = 0
    BY <2>3 DEF SegLen, Flag
  <2> HIDE DEF m
  <2>5. SegmentOK(t, w, m)
    BY <1>1, <1>2, <1>3, <2>3, <2>4 DEF SegmentOK, HavePayload
  <2>6. SameButSent(t, t) /\ Grows(t, w, t, w)
    BY <1>1, <1>2 DEF SameButSent, Grows
  <2> QED
    BY <2>1, <2>2, <2>3, <2>5, <2>6 DEF Result, Sends
<1>5. CASE ~(WaitingForAck(t) \/ t.sendBuf = <<>>)
  <2> DEFINE m == NextSegment(t)
             l == SegLen(m)
             n == Len(t.sendBuf)
             next == Plus(t.sendNext, l)
             rest == SubSeq(t.sendBuf, l + 1, n)
             u == [t EXCEPT !.sendNext = next, !.sendBuf = rest,
                            !.lastSeg = m, !.retransCount = 0]
  <2>1. m \in Segment(Endpoints) /\ l \in 1..n
    BY <1>2, <1>5, NextSegmentType
  <2>2. /\ m.src = e /\ ~m.syn
        /\ m.seq = t.sendNext /\ m.ackSeq = t.recvNext
        /\ m.fin => /\ m.seq = t.sendInit + w + 1
                    /\ m.data = <<>>
                    /\ t.state \notin WriteStates
        /\ m.seq + Len(m.data) <= t.sendInit + w + 1 \/ ~HavePayload(m)
        /\ \A i \in 1..Len(m.data) : m.data[i] = m.seq + i - (t.sendInit + 1)
    BY <1>5, NextSegmentCarries
  <2>3. SendSegment(t) = Result(u, {m})
    BY <1>5 DEF SendSegment
  <2>4. u \in Block(Endpoints, e)
    BY <1>1, <2>3, SendSegmentType DEF Typed, Result
  <2> HIDE DEF m, rest, next
  <2>5. /\ u.state = t.state
        /\ u.sendInit = t.sendInit /\ u.sendUnack = t.sendUnack
        /\ u.recvInit = t.recvInit /\ u.recvNext = t.recvNext
        /\ u.recvBuf = t.recvBuf
        /\ u.sendNext = next /\ u.sendBuf = rest /\ u.lastSeg = m
    BY <1>2 DEF TCB
  <2> HIDE DEF u
  <2>6. next = t.sendNext + l
    <3>1. l \in Nat /\ l <= n /\ n \in Nat
      BY <1>2, <2>1
    <3>2. t.sendNext + n <= t.sendInit + w + 2 /\ t.sendInit + w + 3 < SeqSpace
      BY SenderFits
    <3> HIDE DEF l, n
    <3>3. t.sendNext + l < SeqSpace
      <4>1. t.sendNext \in Nat /\ t.sendInit \in Nat /\ w \in Nat
        BY <1>1, <1>2
      <4> QED
        BY <3>1, <3>2, <4>1, TcbAssumption, SMTT(30)
    <3> QED
      BY <3>3 DEF Plus, next
  <2>7. l \in Nat /\ l >= 1 /\ l \in 0..n
    BY <1>2, <2>1
  <2>8. Queue(rest, t.sendInit, next, w, t.state \notin WriteStates)
    <3>1. Queue(t.sendBuf, t.sendInit, t.sendNext, w, t.state \notin WriteStates)
      BY <1>1 DEF SenderOK
    <3> HIDE DEF l
    <3> QED
      BY <1>1, <1>2, <2>6, <2>7, <3>1, QueueTake DEF rest
  <2>9. t.sendNext <= next
    <3> HIDE DEF l
    <3> QED
      BY <1>2, <2>6, <2>7
  <2>10. SameButSent(t, u)
    BY <1>2, <2>5, <2>9 DEF SameButSent
  <2>11. Grows(t, w, u, w)
    BY <1>1, <1>2, <2>5, <2>9 DEF Grows, NotOpened
  <2>12. SenderOK(e, u, w)
    <3>1. u.sendInit < u.sendNext
      <4> HIDE DEF l
      <4> QED
        BY <1>2, <1>3, <2>5, <2>6, <2>7
    <3> QED
      BY <1>1, <2>5, <2>8, <3>1 DEF SenderOK, NotOpened
  <2>13. SegmentOK(u, w, m)
    <3>1. m.seq + l <= u.sendNext /\ m.ackSeq <= u.recvNext /\ m.seq > u.sendInit
      <4> HIDE DEF l
      <4> QED
        BY <1>2, <1>3, <2>2, <2>5, <2>6, <2>7
    <3> QED
      BY <1>1, <2>2, <2>5, <3>1 DEF SegmentOK, NotOpened
  <2> QED
    BY <1>1, <2>1, <2>2, <2>3, <2>4, <2>5, <2>10, <2>11, <2>12, <2>13
       DEF Result, Sends, SenderSide, NotOpened
<1> QED
  BY <1>4, <1>5

LEMMA SendbackSafe ==
    ASSUME NoWrap, NEW e \in Endpoints, NEW t, NEW w, SenderSide(e, t, w)
    PROVE  LET r == MakeSureSendback(t)
           IN  Sends(e, w, r) /\ SameButSent(t, r.tcb) /\ Grows(t, w, r.tcb, w)
<1>1. Sends(e, w, Silent(t))
  BY DEF Sends, Silent, Result
<1>2. Silent(t).tcb = t /\ SameButSent(t, t) /\ Grows(t, w, t, w)
  BY BlockFields DEF SenderSide, Silent, Result, SameButSent, Grows
<1> QED
  BY <1>1, <1>2, SendSegmentSafe DEF MakeSureSendback

LEMMA GrowsOn ==
    ASSUME NEW e \in Endpoints, NEW t \in Block(Endpoints, e),
           NEW u \in Block(Endpoints, e), NEW v \in Block(Endpoints, e),
           NEW w \in Nat, Grows(t, w, u, w), Grows(u, w, v, w)
    PROVE  Grows(t, w, v, w)
  BY BlockFields DEF Grows

-----------------------------------------------------------------------------
(* The receiving half of a block.                                          *)

\* Block t of e and block q of its peer fit together.
Sound(e, t, w, q, wq, d) ==
    /\ SenderSide(e, t, w)
    /\ q \in Block(Endpoints, Peer(e))
    /\ wq \in Nat
    /\ d \in Seq(Nat)
    /\ ~NotOpened(q) => SenderSide(Peer(e), q, wq)
    /\ q.recvNext <= t.sendNext
    /\ ReceiverOK(t, q, wq, d)
    /\ AckedOK(t, q)

\* A result that fits the peer and comes after t.
Safe(e, t, w, q, wq, d, r) ==
    /\ Sends(e, w, r)
    /\ Grows(t, w, r.tcb, w)
    /\ ReceiverOK(r.tcb, q, wq, d)
    /\ AckedOK(r.tcb, q)

\* The state may change where it says nothing about the peer's FIN.
LEMMA ReceiverFrame ==
    ASSUME NEW t, NEW q, NEW wq, NEW d, NEW u,
           ReceiverOK(t, q, wq, d),
           u.recvInit = t.recvInit, u.recvNext = t.recvNext,
           u.recvBuf = t.recvBuf,
           \/ u.state = t.state
           \/ u.state = "CLOSE"
           \/ /\ {t.state, u.state} \cap {"NONE", "SYN_SENT", "CLOSE"} = {}
              /\ t.state \in FinStates <=> u.state \in FinStates
    PROVE  ReceiverOK(u, q, wq, d)
<1>1. /\ t.recvNext = 0 => u.state \in {"NONE", "SYN_SENT", "CLOSE"}
      /\ t.recvNext # 0 => u.state \notin {"NONE", "SYN_SENT"}
      /\ t.recvNext # 0 /\ t.state \notin FinStates => u.state \notin FinStates
      /\ t.recvNext # 0 /\ t.state \in FinStates \cup {"CLOSE"} =>
            u.state \in FinStates \cup {"CLOSE"}
  BY DEF ReceiverOK, FinStates
<1> QED
  BY <1>1 DEF ReceiverOK

LEMMA AckedFrame ==
    ASSUME NEW e \in Endpoints, NEW t \in Block(Endpoints, e), NEW q,
           NEW u \in Block(Endpoints, e), AckedOK(t, q),
           u.sendInit = t.sendInit, u.sendUnack = t.sendUnack,
           t.sendNext <= u.sendNext,
           u.state = "CLOSE" \/ t.state \notin {"NONE", "CLOSE"}
    PROVE  AckedOK(u, q)
  BY BlockFields DEF AckedOK

\* The acknowledgement update only believes what the peer has said.
LEMMA AckSafe ==
    ASSUME NEW e \in Endpoints, NEW t, NEW w, NEW q, NEW wq, NEW d,
           Sound(e, t, w, q, wq, d), t.state # "CLOSE",
           NEW m \in Segment(Endpoints), m.ackSeq <= q.recvNext
    PROVE  LET a == Ack(t, m)
           IN  /\ Sound(e, a, w, q, wq, d)
               /\ Grows(t, w, a, w)
               /\ a.state = t.state
               /\ a.sendInit = t.sendInit /\ a.sendNext = t.sendNext
               /\ a.sendBuf = t.sendBuf /\ a.lastSeg = t.lastSeg
               /\ a.recvInit = t.recvInit /\ a.recvNext = t.recvNext
               /\ a.recvBuf = t.recvBuf
<1> DEFINE a == Ack(t, m)
<1>1. /\ t \in Block(Endpoints, e) /\ q \in Block(Endpoints, Peer(e))
      /\ SenderSide(e, t, w) /\ w \in Nat /\ t.state # "NONE"
  BY DEF Sound, SenderSide, NotOpened
<1>2. a \in Block(Endpoints, e)
  BY <1>1, AckType
<1>3. /\ a.state = t.state
      /\ a.sendInit = t.sendInit /\ a.sendNext = t.sendNext
      /\ a.sendBuf = t.sendBuf /\ a.lastSeg = t.lastSeg
      /\ a.recvInit = t.recvInit /\ a.recvNext = t.recvNext
      /\ a.recvBuf = t.recvBuf
      /\ a.sendUnack = IF m.ackSeq > t.sendUnack THEN m.ackSeq ELSE t.sendUnack
  BY <1>1, BlockFields DEF Ack, TCB
<1> HIDE DEF a
<1>4. SenderSide(e, a, w) /\ Grows(t, w, a, w)
  BY <1>1, <1>2, <1>3, BlockFields, SenderFrame
<1>5. ReceiverOK(a, q, wq, d)
  BY <1>3, ReceiverFrame DEF Sound
<1>6. AckedOK(a, q)
  <2>1. /\ t.sendInit \in Nat /\ t.sendUnack \in Nat /\ t.sendNext \in Nat
        /\ q.recvNext \in Nat /\ m.ackSeq \in Nat
    BY <1>1, EndpointsDef, BlockFields, SegmentFields
  <2>2. /\ t.sendInit <= t.sendUnack
        /\ t.sendUnack <= t.sendNext
        /\ t.sendUnack > t.sendInit => t.sendUnack <= q.recvNext
        /\ q.recvNext <= t.sendNext
    BY <1>1 DEF Sound, AckedOK
  <2> QED
    BY <1>3, <2>1, <2>2 DEF AckedOK
<1> QED
  BY <1>3, <1>4, <1>5, <1>6 DEF Sound, a

LEMMA SilentSafe ==
    ASSUME NEW e \in Endpoints, NEW t, NEW w, NEW q, NEW wq, NEW d,
           Sound(e, t, w, q, wq, d)
    PROVE  Safe(e, t, w, q, wq, d, Silent(t))
<1>1. Sends(e, w, Silent(t)) /\ Silent(t).tcb = t
  BY DEF Sends, Silent, Result, Sound
<1>2. Grows(t, w, t, w)
  BY BlockFields DEF Sound, SenderSide, Grows
<1> QED
  BY <1>1, <1>2 DEF Safe, Sound

LEMMA AnswerSafe ==
    ASSUME NoWrap, NEW e \in Endpoints, NEW t, NEW w, NEW q, NEW wq, NEW d,
           Sound(e, t, w, q, wq, d), t.state # "CLOSE"
    PROVE  Safe(e, t, w, q, wq, d, MakeSureSendback(t))
<1> DEFINE r == MakeSureSendback(t)
<1>1. Sends(e, w, r) /\ SameButSent(t, r.tcb) /\ Grows(t, w, r.tcb, w)
  BY SendbackSafe DEF Sound
<1>2. /\ t \in Block(Endpoints, e) /\ r.tcb \in Block(Endpoints, e)
      /\ t.state # "NONE"
  BY <1>1 DEF Sound, Sends, SenderSide, NotOpened
<1>3. ReceiverOK(t, q, wq, d) /\ AckedOK(t, q)
  BY DEF Sound
<1> HIDE DEF r
<1>4. ReceiverOK(r.tcb, q, wq, d)
  BY <1>1, <1>3, ReceiverFrame DEF SameButSent
<1>5. AckedOK(r.tcb, q)
  BY <1>1, <1>2, <1>3, AckedFrame DEF SameButSent
<1> QED
  BY <1>1, <1>4, <1>5 DEF Safe, r

\* A result that is safe for what t grew into is safe for t.
LEMMA SafeOn ==
    ASSUME NEW e \in Endpoints, NEW t \in Block(Endpoints, e), NEW w, NEW q,
           NEW wq, NEW d, NEW u, SenderSide(e, u, w), Grows(t, w, u, w),
           NEW r, Safe(e, u, w, q, wq, d, r)
    PROVE  Safe(e, t, w, q, wq, d, r)
<1>1. u \in Block(Endpoints, e) /\ w \in Nat /\ r.tcb \in Block(Endpoints, e)
  BY DEF SenderSide, Safe, Sends
<1> QED
  BY <1>1, GrowsOn DEF Safe

-----------------------------------------------------------------------------
(* What the handlers do with a segment m of the peer.                      *)

\* m is something that block q of e's peer has said.
Heard(m, q, wq) == m \in Segment(Endpoints) /\ SegmentOK(q, wq, m)

\* A change of state alone, which may not reopen the stream we write and says
\* nothing about the peer's FIN.
LEMMA StateSound ==
    ASSUME NEW e \in Endpoints, NEW t, NEW w, NEW q, NEW wq, NEW d,
           Sound(e, t, w, q, wq, d), NEW s \in States,
           s # "NONE",
           t.state \notin WriteStates => s \notin WriteStates,
           \/ s = "CLOSE"
           \/ /\ {t.state, s} \cap {"NONE", "SYN_SENT", "CLOSE"} = {}
              /\ t.state \in FinStates <=> s \in FinStates
    PROVE  LET u == [t EXCEPT !.state = s]
           IN  Sound(e, u, w, q, wq, d) /\ Grows(t, w, u, w)
<1> DEFINE u == [t EXCEPT !.state = s]
<1>1. t \in Block(Endpoints, e) /\ SenderSide(e, t, w)
  BY DEF Sound, SenderSide
<1>2. u \in Block(Endpoints, e)
  BY <1>1, SettingType
<1>3. /\ u.state = s
      /\ u.sendInit = t.sendInit /\ u.sendNext = t.sendNext
      /\ u.sendUnack = t.sendUnack
      /\ u.sendBuf = t.sendBuf /\ u.lastSeg = t.lastSeg
      /\ u.recvInit = t.recvInit /\ u.recvNext = t.recvNext
      /\ u.recvBuf = t.recvBuf
  BY <1>1, BlockFields DEF TCB
<1> HIDE DEF u
<1>4. SenderSide(e, u, w) /\ Grows(t, w, u, w)
  BY <1>1, <1>2, <1>3, BlockFields, SenderFrame
<1>5. ReceiverOK(u, q, wq, d)
  BY <1>3, ReceiverFrame DEF Sound
<1>6. AckedOK(u, q)
  <2>1. AckedOK(t, q)
    BY DEF Sound
  <2>2. t.sendNext <= u.sendNext
    BY <1>1, <1>3, BlockFields
  <2>3. u.state = "CLOSE" \/ t.state \notin {"NONE", "CLOSE"}
    BY <1>3
  <2> QED
    BY <1>1, <1>2, <1>3, <2>1, <2>2, <2>3, AckedFrame
<1> QED
  BY <1>3, <1>4, <1>5, <1>6 DEF Sound, u

LEMMA OnOutOfOrderSafe ==
    ASSUME NoWrap, NEW e \in Endpoints, NEW t, NEW w, NEW q, NEW wq, NEW d,
           Sound(e, t, w, q, wq, d), t.state # "CLOSE",
           NEW m, Heard(m, q, wq)
    PROVE  Safe(e, t, w, q, wq, d, OnOutOfOrder(t, m))
<1> DEFINE a == Ack(t, m)
<1>1. m \in Segment(Endpoints) /\ m.ackSeq <= q.recvNext
  BY DEF Heard, SegmentOK
<1>2. Sound(e, a, w, q, wq, d) /\ Grows(t, w, a, w) /\ a.state # "CLOSE"
  BY <1>1, AckSafe
<1> HIDE DEF a
<1>3. Safe(e, a, w, q, wq, d, MakeSureSendback(a))
  BY <1>2, AnswerSafe
<1> QED
  BY <1>2, <1>3, SafeOn DEF Sound, SenderSide, OnOutOfOrder, a

LEMMA OnSynRecvSafe ==
    ASSUME NEW e \in Endpoints, NEW t, NEW w, NEW q, NEW wq, NEW d,
           Sound(e, t, w, q, wq, d), t.state = "SYN_RECV",
           NEW m, Heard(m, q, wq)
    PROVE  Safe(e, t, w, q, wq, d, OnSynRecv(t, m))
<1> DEFINE a == Ack(t, m)
           u == [a EXCEPT !.state = "ESTABLISHED"]
<1>1. m \in Segment(Endpoints) /\ m.ackSeq <= q.recvNext
  BY DEF Heard, SegmentOK
<1>2. Sound(e, a, w, q, wq, d) /\ Grows(t, w, a, w) /\ a.state = "SYN_RECV"
  BY <1>1, AckSafe
<1>3. OnSynRecv(t, m) \in {Silent(u), Silent(t)}
  BY DEF OnSynRecv
<1> HIDE DEF a
<1>4. Sound(e, u, w, q, wq, d) /\ Grows(a, w, u, w)
  BY <1>2, StateSound DEF States, WriteStates, FinStates
<1> HIDE DEF u
<1>5. Safe(e, u, w, q, wq, d, Silent(u)) /\ Safe(e, t, w, q, wq, d, Silent(t))
  BY <1>4, SilentSafe
<1>6. Safe(e, a, w, q, wq, d, Silent(u))
  BY <1>2, <1>4, <1>5, SafeOn DEF Sound, SenderSide
<1>7. Safe(e, t, w, q, wq, d, Silent(u))
  BY <1>2, <1>6, SafeOn DEF Sound, SenderSide
<1> QED
  BY <1>3, <1>5, <1>7

\* The peer's SYN tells where its direction starts.
LEMMA SynHeard ==
    ASSUME NoWrap, NEW e \in Endpoints, NEW t, NEW w, NEW q, NEW wq, NEW d,
           Sound(e, t, w, q, wq, d),
           NEW m, Heard(m, q, wq), m.syn
    PROVE  /\ m.seq = q.sendInit
           /\ Plus(m.seq, 1) = q.sendInit + 1
           /\ q.sendInit + 1 <= q.sendNext
<1>1. m.seq = q.sendInit /\ SenderSide(Peer(e), q, wq) /\ Peer(e) \in Endpoints
  BY EndpointsDef DEF Heard, SegmentOK, Sound
<1>2. /\ q \in Block(Endpoints, Peer(e)) /\ wq \in Nat
      /\ q.sendInit < q.sendNext
  BY <1>1 DEF SenderSide, SenderOK
<1>3. q.sendInit \in Nat /\ q.sendNext \in Nat
  BY <1>1, <1>2, BlockFields
<1>4. q.sendInit + wq + 3 < SeqSpace
  BY <1>1, SenderFits
<1>5. q.sendInit + 1 < SeqSpace
  BY <1>2, <1>3, <1>4, TcbAssumption
<1> QED
  BY <1>1, <1>2, <1>3, <1>5 DEF Plus

LEMMA OnSynSentSafe ==
    ASSUME NoWrap, NEW e \in Endpoints, NEW t, NEW w, NEW q, NEW wq, NEW d,
           Sound(e, t, w, q, wq, d), t.state = "SYN_SENT",
           NEW m, Heard(m, q, wq)
    PROVE  Safe(e, t, w, q, wq, d, OnSynSent(t, m))
<1> DEFINE a == Ack(t, m)
           next == Plus(m.seq, 1)
           u == [a EXCEPT !.recvInit = m.seq, !.recvNext = next,
                          !.state = "ESTABLISHED"]
<1>1. m \in Segment(Endpoints) /\ m.ackSeq <= q.recvNext
  BY DEF Heard, SegmentOK
<1>2. /\ Sound(e, a, w, q, wq, d) /\ Grows(t, w, a, w) /\ a.state = "SYN_SENT"
  BY <1>1, AckSafe
<1>3. CASE ~m.syn
  <2>1. OnSynSent(t, m) = Silent(t)
    BY <1>3 DEF OnSynSent
  <2> QED
    BY <2>1, SilentSafe
<1>4. CASE m.syn
  <2>1. OnSynSent(t, m) \in {MakeSureSendback(u), Silent(t)}
    BY DEF OnSynSent
  <2>2. /\ m.seq = q.sendInit /\ next = q.sendInit + 1
        /\ q.sendInit + 1 <= q.sendNext
    BY <1>4, SynHeard
  <2> HIDE DEF a, next
  <2>3. /\ a \in Block(Endpoints, e) /\ q \in Block(Endpoints, Peer(e))
        /\ wq \in Nat /\ Peer(e) \in Endpoints /\ SenderSide(e, a, w)
        /\ t \in Block(Endpoints, e)
    BY <1>2, EndpointsDef DEF Sound, SenderSide
  <2>4. q.sendInit \in Nat /\ next \in Nat /\ m.seq \in Nat
    BY <2>2, <2>3, BlockFields
  <2>5. a \in TCB(Endpoints) /\ a.local = e /\ Fits(a)
    BY <2>3 DEF Block
  <2>6. u \in Block(Endpoints, e)
    BY <2>4, <2>5 DEF TCB, Block, Fits, States
  <2>7. /\ u.state = "ESTABLISHED"
        /\ u.sendInit = a.sendInit /\ u.sendNext = a.sendNext
        /\ u.sendUnack = a.sendUnack
        /\ u.sendBuf = a.sendBuf /\ u.lastSeg = a.lastSeg
        /\ u.recvInit = m.seq /\ u.recvNext = next /\ u.recvBuf = a.recvBuf
    BY <2>5 DEF TCB
  <2> HIDE DEF u
  <2>8. a.recvNext = 0 /\ d = <<>> /\ a.recvBuf = <<>>
    BY <1>2 DEF Sound, ReceiverOK
  <2>9. SenderSide(e, u, w) /\ Grows(a, w, u, w)
    BY <1>2, <2>3, <2>4, <2>6, <2>7, <2>8, SenderFrame DEF WriteStates
  <2>10. ReceiverOK(u, q, wq, d)
    <3>1. Len(d) = 0 /\ Len(u.recvBuf) = 0
      BY <2>7, <2>8
    <3>2. /\ u.recvNext # 0 /\ u.recvNext <= q.sendNext
          /\ u.recvNext = q.sendInit + 1 + 0 + 0
          /\ 0 + 0 <= wq
      BY <2>2, <2>3, <2>4, <2>7
    <3>3. ~NotOpened(q)
      BY DEF Heard, SegmentOK
    <3>4. \A i \in 1..0 : d[i] = i /\ u.recvBuf[i] = 0 + i
      OBVIOUS
    <3> QED
      BY <2>2, <2>7, <3>1, <3>2, <3>3, <3>4 DEF ReceiverOK, FinStates
  <2>11. AckedOK(u, q)
    <3>1. AckedOK(a, q)
      BY <1>2 DEF Sound
    <3>2. a.sendNext <= u.sendNext
      BY <2>3, <2>7, BlockFields
    <3> QED
      BY <1>2, <2>3, <2>6, <2>7, <3>1, <3>2, AckedFrame
  <2>12. Sound(e, u, w, q, wq, d)
    BY <1>2, <2>7, <2>9, <2>10, <2>11 DEF Sound
  <2>13. Safe(e, u, w, q, wq, d, MakeSureSendback(u))
    BY <2>7, <2>12, AnswerSafe
  <2>14. Safe(e, t, w, q, wq, d, MakeSureSendback(u))
    BY <1>2, <2>3, <2>9, <2>13, SafeOn
  <2> QED
    BY <2>1, <2>14, SilentSafe
<1> QED
  BY <1>3, <1>4

\* What a segment in order says about the bytes taken so far: it goes on where
\* they end, and its FIN comes after all that the peer wrote.
LEMMA InOrderSays ==
    ASSUME NoWrap, NEW e \in Endpoints, NEW t, NEW w, NEW q, NEW wq, NEW d,
           Sound(e, t, w, q, wq, d),
           t.state \notin {"NONE", "SYN_SENT", "CLOSE"} \cup FinStates,
           NEW m, Heard(m, q, wq), m.seq = t.recvNext
    PROVE  LET n == Len(d) + Len(t.recvBuf)
               k == Len(m.data)
           IN  /\ ~m.syn /\ ~NotOpened(q)
               /\ n \in Nat /\ k \in Nat
               /\ t.recvInit = q.sendInit
               /\ t.recvNext = q.sendInit + 1 + n
               /\ n + k <= wq
               /\ \A i \in 1..k : m.data[i] = n + i
               /\ ~m.fin => /\ Plus(t.recvNext, k) = q.sendInit + 1 + n + k
                            /\ q.sendInit + 1 + n + k <= q.sendNext
               /\ m.fin => /\ m.data = <<>> /\ n = wq
                           /\ Plus(t.recvNext, 1) = q.sendInit + wq + 2
                           /\ q.sendInit + wq + 2 <= q.sendNext
                           /\ q.state \notin WriteStates
<1> DEFINE x == Len(d)
           y == Len(t.recvBuf)
           n == x + y
           k == Len(m.data)
           l == SegLen(m)
<1>1. /\ t \in Block(Endpoints, e) /\ q \in Block(Endpoints, Peer(e))
      /\ m \in Segment(Endpoints) /\ SegmentOK(q, wq, m)
      /\ wq \in Nat /\ d \in Seq(Nat) /\ Peer(e) \in Endpoints
      /\ ~NotOpened(q) /\ SenderSide(Peer(e), q, wq)
  BY EndpointsDef DEF Sound, SenderSide, Heard, SegmentOK
<1>2. /\ x \in Nat /\ y \in Nat /\ k \in Nat /\ l \in Nat
      /\ m.seq \in Nat /\ q.sendInit \in Nat /\ q.sendNext \in Nat
      /\ SeqSpace \in Nat
  <2>1. t.recvBuf \in Seq(Nat)
    BY <1>1, BlockFields
  <2> QED
    BY <1>1, <2>1, BlockFields, SegmentFields, TcbAssumption
<1>3. /\ t.recvNext # 0 /\ t.recvInit = q.sendInit
      /\ x + y <= wq /\ t.recvNext = q.sendInit + 1 + x + y
  BY DEF Sound, ReceiverOK
<1>4. q.sendInit + wq + 3 < SeqSpace
  BY <1>1, SenderFits
<1>5. /\ m.seq + l <= q.sendNext
      /\ m.syn => m.seq = q.sendInit
      /\ m.fin => /\ m.seq = q.sendInit + wq + 1
                  /\ m.data = <<>> /\ q.state \notin WriteStates
      /\ HavePayload(m) =>
            /\ m.seq + k <= q.sendInit + wq + 1
            /\ \A i \in 1..k : m.data[i] = m.seq + i - (q.sendInit + 1)
  BY <1>1 DEF SegmentOK
<1>6. m.syn \in BOOLEAN /\ m.fin \in BOOLEAN
  BY <1>1, SegmentFields
<1>7. ~HavePayload(m) => k = 0
  BY DEF HavePayload
<1>8. ~m.syn
  <2>1. m.seq # q.sendInit
    <3> HIDE DEF x, y
    <3> QED
      BY <1>2, <1>3
  <2> QED
    BY <1>5, <2>1
<1>9. (~m.fin => l = k) /\ (m.fin => l = k + 1)
  <2>1. /\ Flag(m.syn) = 0
        /\ ~m.fin => Flag(m.fin) = 0
        /\ m.fin => Flag(m.fin) = 1
    BY <1>8 DEF Flag
  <2>2. l = k + Flag(m.syn) + Flag(m.fin)
    BY DEF SegLen
  <2> HIDE DEF k, l
  <2> QED
    BY <1>2, <2>1, <2>2
<1> HIDE DEF x, y, k, l
<1>10. n \in Nat /\ n + k <= wq
  <2>1. wq \in Nat
    BY <1>1
  <2>2. k = 0 \/ m.seq + k <= q.sendInit + wq + 1
    BY <1>5, <1>7
  <2> QED
    BY <1>2, <1>3, <2>1, <2>2
<1>11. \A i \in 1..k : m.data[i] = n + i
  <2> SUFFICES ASSUME NEW i \in 1..k
               PROVE  m.data[i] = n + i
    OBVIOUS
  <2>1. HavePayload(m)
    BY <1>2, <1>7
  <2>2. m.data[i] = m.seq + i - (q.sendInit + 1)
    BY <1>5, <2>1
  <2> QED
    BY <1>2, <1>3, <2>2
<1>12. ASSUME ~m.fin
       PROVE  /\ Plus(t.recvNext, k) = q.sendInit + 1 + n + k
              /\ q.sendInit + 1 + n + k <= q.sendNext
  <2>1. /\ t.recvNext + k = q.sendInit + 1 + n + k
        /\ t.recvNext + k < SeqSpace
    <3>1. wq \in Nat
      BY <1>1
    <3> QED
      BY <1>2, <1>3, <1>4, <1>10, <3>1
  <2>2. q.sendInit + 1 + n + k <= q.sendNext
    BY <1>2, <1>3, <1>5, <1>9, <1>12
  <2> QED
    BY <2>1, <2>2 DEF Plus
<1>13. ASSUME m.fin
       PROVE  /\ m.data = <<>> /\ n = wq
              /\ Plus(t.recvNext, 1) = q.sendInit + wq + 2
              /\ q.sendInit + wq + 2 <= q.sendNext
              /\ q.state \notin WriteStates
  <2>1. /\ m.seq = q.sendInit + wq + 1
        /\ m.data = <<>> /\ q.state \notin WriteStates
    BY <1>5, <1>13
  <2>2. /\ n = wq /\ t.recvNext + 1 = q.sendInit + wq + 2
        /\ t.recvNext + 1 < SeqSpace
    BY <1>1, <1>2, <1>3, <1>4, <2>1, SMTT(30)
  <2>3. q.sendInit + wq + 2 <= q.sendNext
    BY <1>1, <1>2, <1>5, <1>9, <1>13, <2>1, SMTT(30)
  <2> QED
    BY <2>1, <2>2, <2>3 DEF Plus
<1>14. n = Len(d) + Len(t.recvBuf) /\ k = Len(m.data)
  BY DEF x, y, k
<1>15. t.recvNext = q.sendInit + 1 + n
  BY <1>2, <1>3
<1>16. t.recvInit = q.sendInit /\ ~NotOpened(q) /\ k \in Nat
  BY <1>1, <1>2, <1>3
<1> HIDE DEF n
<1> QED
  BY <1>8, <1>10, <1>11, <1>12, <1>13, <1>14, <1>15, <1>16

LEMMA Concatenation ==
    ASSUME NEW a \in Seq(Nat), NEW b \in Seq(Nat)
    PROVE  /\ a \o b \in Seq(Nat)
           /\ Len(a \o b) = Len(a) + Len(b)
           /\ \A i \in 1..Len(a) : (a \o b)[i] = a[i]
           /\ \A i \in 1..Len(b) : (a \o b)[Len(a) + i] = b[i]
  OBVIOUS

\* Bytes and FIN of a segment in order are taken to be what they are.
LEMMA TakeSound ==
    ASSUME NoWrap, NEW e \in Endpoints, NEW t, NEW w, NEW q, NEW wq, NEW d,
           Sound(e, t, w, q, wq, d), t.state = "ESTABLISHED",
           NEW m, Heard(m, q, wq), m.seq = t.recvNext,
           Len(m.data) <= RecvRoom(t)
    PROVE  LET u == Take(t, m)
           IN  /\ Sound(e, u, w, q, wq, d) /\ Grows(t, w, u, w)
               /\ u.state # "CLOSE"
<1> DEFINE n == Len(d) + Len(t.recvBuf)
           k == Len(m.data)
           next == Plus(t.recvNext, k + Flag(m.fin))
           s == IF m.fin THEN "CLOSE_WAIT" ELSE t.state
           buf == t.recvBuf \o m.data
           u == Take(t, m)
<1>1. /\ t \in Block(Endpoints, e) /\ q \in Block(Endpoints, Peer(e))
      /\ m \in Segment(Endpoints) /\ wq \in Nat /\ d \in Seq(Nat)
      /\ Peer(e) \in Endpoints /\ SenderSide(e, t, w)
  BY EndpointsDef DEF Sound, SenderSide, Heard
<1>2. /\ ~m.syn /\ ~NotOpened(q)
      /\ n \in Nat /\ k \in Nat
      /\ t.recvInit = q.sendInit
      /\ t.recvNext = q.sendInit + 1 + n
      /\ n + k <= wq
      /\ \A i \in 1..k : m.data[i] = n + i
      /\ ~m.fin => /\ Plus(t.recvNext, k) = q.sendInit + 1 + n + k
                   /\ q.sendInit + 1 + n + k <= q.sendNext
      /\ m.fin => /\ m.data = <<>> /\ n = wq
                  /\ Plus(t.recvNext, 1) = q.sendInit + wq + 2
                  /\ q.sendInit + wq + 2 <= q.sendNext
                  /\ q.state \notin WriteStates
  BY InOrderSays DEF FinStates
<1>3. t \in TCB(Endpoints) /\ t.recvBuf \in Seq(Nat) /\ m.data \in Seq(Nat)
      /\ q.sendInit \in Nat /\ q.sendNext \in Nat
  BY <1>1, BlockFields, SegmentFields
<1>4. u \in Block(Endpoints, e)
  BY <1>1, TakeType
<1>5. /\ u.state = s
      /\ u.sendInit = t.sendInit /\ u.sendNext = t.sendNext
      /\ u.sendUnack = t.sendUnack
      /\ u.sendBuf = t.sendBuf /\ u.lastSeg = t.lastSeg
      /\ u.recvInit = t.recvInit /\ u.recvNext = next /\ u.recvBuf = buf
  BY <1>3 DEF Take, TCB
<1> HIDE DEF u
<1>6. /\ Len(buf) = Len(t.recvBuf) + k
      /\ \A i \in 1..Len(t.recvBuf) : buf[i] = t.recvBuf[i]
      /\ \A i \in 1..k : buf[Len(t.recvBuf) + i] = m.data[i]
  BY <1>3, Concatenation, Zenon
<1>7. s \in {"ESTABLISHED", "CLOSE_WAIT"}
  OBVIOUS
<1>8. /\ ~m.fin => next = q.sendInit + 1 + n + k
      /\ m.fin => k = 0 /\ next = q.sendInit + wq + 2
  <2>1. /\ m.fin => k = 0 /\ Flag(m.fin) = 1
        /\ ~m.fin => Flag(m.fin) = 0
    BY <1>2 DEF Flag
  <2>2. 0 + 1 = 1 /\ k + 0 = k
    BY <1>2
  <2>3. m.fin => next = Plus(t.recvNext, 1)
    BY <2>1, <2>2
  <2>4. ~m.fin => next = Plus(t.recvNext, k)
    BY <2>1, <2>2
  <2> HIDE DEF n, k, next
  <2> QED
    BY <1>2, <2>1, <2>3, <2>4
<1>9. next \in Nat /\ t.recvNext <= next /\ next # 0 /\ next <= q.sendNext
  <2> HIDE DEF n, k, next
  <2>1. CASE m.fin
    BY <1>1, <1>2, <1>3, <1>8, <2>1
  <2>2. CASE ~m.fin
    BY <1>1, <1>2, <1>3, <1>8, <2>2, SMTT(30)
  <2> QED
    BY <2>1, <2>2
<1>10. SenderSide(e, u, w) /\ Grows(t, w, u, w)
  <2>1. t.recvNext <= u.recvNext /\ u.state # "NONE" /\ u.state \in WriteStates
    BY <1>5, <1>7, <1>9 DEF WriteStates
  <2> HIDE DEF n, k, next, s, buf
  <2>2. t.state \in WriteStates
    BY DEF WriteStates
  <2> QED
    BY <1>1, <1>4, <1>5, <2>1, <2>2, SenderFrame
<1>11. AckedOK(u, q)
  <2>1. AckedOK(t, q) /\ t.sendNext <= u.sendNext
    BY <1>1, <1>5, BlockFields DEF Sound
  <2> HIDE DEF n, k, next, s, buf
  <2> QED
    BY <1>1, <1>4, <1>5, <2>1, AckedFrame
<1>12. ReceiverOK(u, q, wq, d)
  <2> DEFINE x == Len(d)
             y == Len(t.recvBuf)
  <2>1. /\ x \in Nat /\ y \in Nat /\ n = x + y
        /\ Len(buf) = y + k
    BY <1>1, <1>3, <1>6
  <2>2. /\ \A i \in 1..x : d[i] = i
        /\ \A i \in 1..y : t.recvBuf[i] = x + i
    BY <1>1 DEF Sound, ReceiverOK
  <2>3. \A i \in 1..y : buf[i] = t.recvBuf[i]
    BY <1>6
  <2>4. \A i \in 1..k : buf[y + i] = m.data[i]
    BY <1>6
  <2> HIDE DEF x, y, n, k, buf, next, s
  <2>5. \A i \in 1..(y + k) : buf[i] = x + i
    <3> SUFFICES ASSUME NEW i \in 1..(y + k)
                 PROVE  buf[i] = x + i
      OBVIOUS
    <3>1. CASE i <= y
      BY <1>2, <2>1, <2>2, <2>3, <3>1
    <3>2. CASE i > y
      <4> DEFINE j == i - y
      <4>1. j \in 1..k /\ i = y + j /\ n + j = x + i
        BY <1>2, <2>1, <3>2
      <4> HIDE DEF j
      <4> QED
        BY <1>2, <2>4, <4>1
    <3> QED
      BY <2>1, <3>1, <3>2
  <2>6. x + (y + k) = n + k /\ x + (y + k) <= wq
    BY <1>1, <1>2, <2>1
  <2>7. CASE m.fin
    <3>1. /\ u.recvNext = q.sendInit + 2 + wq
          /\ x + (y + k) = wq
          /\ q.state \notin WriteStates
          /\ u.state \in FinStates
      BY <1>1, <1>2, <1>3, <1>5, <1>8, <2>1, <2>6, <2>7 DEF s, FinStates
    <3> QED
      BY <1>2, <1>5, <1>9, <2>1, <2>2, <2>5, <2>6, <3>1
         DEF ReceiverOK, x, FinStates
  <2>8. CASE ~m.fin
    <3>1. /\ u.recvNext = q.sendInit + 1 + x + (y + k)
          /\ u.state = "ESTABLISHED"
      BY <1>1, <1>2, <1>3, <1>5, <1>8, <2>1, <2>6, <2>8 DEF s
    <3> QED
      BY <1>2, <1>5, <1>9, <2>1, <2>2, <2>5, <2>6, <3>1
         DEF ReceiverOK, x, FinStates
  <2> QED
    BY <2>7, <2>8
<1> HIDE DEF n, k, next, s, buf
<1>13. u.state # "CLOSE"
  BY <1>5, <1>7
<1> QED
  BY <1>5, <1>10, <1>11, <1>12, <1>13 DEF Sound, u

LEMMA OnEstablishedSafe ==
    ASSUME NoWrap, NEW e \in Endpoints, NEW t, NEW w, NEW q, NEW wq, NEW d,
           Sound(e, t, w, q, wq, d), t.state = "ESTABLISHED",
           NEW m, Heard(m, q, wq), m.seq = t.recvNext
    PROVE  Safe(e, t, w, q, wq, d, OnEstablished(t, m))
<1> DEFINE a == Ack(t, m)
           u == Take(a, m)
<1>1. /\ m \in Segment(Endpoints) /\ m.ackSeq <= q.recvNext
      /\ t \in Block(Endpoints, e)
  BY DEF Heard, SegmentOK, Sound, SenderSide
<1>2. /\ Sound(e, a, w, q, wq, d) /\ Grows(t, w, a, w)
      /\ a.state = "ESTABLISHED" /\ m.seq = a.recvNext
      /\ a.recvBuf = t.recvBuf
  BY <1>1, AckSafe
<1>3. Len(m.data) \in Nat /\ RecvRoom(t) \in Int
  <2>1. Len(m.data) \in Nat /\ t.recvBuf \in Seq(Nat)
    BY <1>1, BlockFields, SegmentFields
  <2>2. Len(t.recvBuf) \in Nat
    BY <2>1
  <2> QED
    BY <2>1, <2>2, TcbAssumption DEF RecvRoom
<1>4. Safe(e, t, w, q, wq, d, Silent(a))
  BY <1>1, <1>2, SilentSafe, SafeOn DEF Sound
<1>5. CASE Len(m.data) > RecvRoom(t)
  <2>1. ~(Len(m.data) <= RecvRoom(t))
    BY <1>3, <1>5
  <2>2. OnEstablished(t, m) = Silent(a)
    BY <1>5, <2>1 DEF OnEstablished
  <2> QED
    BY <1>4, <2>2
<1>6. CASE ~(Len(m.data) > RecvRoom(t))
  <2>1. Len(m.data) <= RecvRoom(t)
    BY <1>3, <1>6
  <2>2. OnEstablished(t, m) \in {MakeSureSendback(u), Silent(u)}
    BY <1>6, <2>1 DEF OnEstablished
  <2>3. Len(m.data) <= RecvRoom(a)
    BY <1>2, <2>1 DEF RecvRoom
  <2> HIDE DEF a
  <2>4. Sound(e, u, w, q, wq, d) /\ Grows(a, w, u, w) /\ u.state # "CLOSE"
    BY <1>2, <2>3, TakeSound
  <2> HIDE DEF u
  <2>5. /\ Safe(e, u, w, q, wq, d, MakeSureSendback(u))
        /\ Safe(e, u, w, q, wq, d, Silent(u))
    BY <2>4, AnswerSafe, SilentSafe
  <2>6. /\ SenderSide(e, a, w) /\ SenderSide(e, u, w)
        /\ a \in Block(Endpoints, e)
    BY <1>2, <2>4 DEF Sound, SenderSide
  <2>7. /\ Safe(e, a, w, q, wq, d, MakeSureSendback(u))
        /\ Safe(e, a, w, q, wq, d, Silent(u))
    BY <2>4, <2>5, <2>6, SafeOn
  <2>8. /\ Safe(e, t, w, q, wq, d, MakeSureSendback(u))
        /\ Safe(e, t, w, q, wq, d, Silent(u))
    BY <1>1, <1>2, <2>6, <2>7, SafeOn
  <2> QED
    BY <2>2, <2>8
<1> QED
  BY <1>5, <1>6

\* A FIN in order takes the block to the number that follows the peer's FIN.
LEMMA FinCounts ==
    ASSUME NoWrap, NEW e \in Endpoints, NEW t, NEW w, NEW q, NEW wq, NEW d,
           Sound(e, t, w, q, wq, d),
           t.state \notin {"NONE", "SYN_SENT", "CLOSE"} \cup FinStates,
           NEW m, Heard(m, q, wq), m.seq = t.recvNext, m.fin
    PROVE  /\ Plus(t.recvNext, 1) \in Nat
           /\ t.recvNext <= Plus(t.recvNext, 1)
           /\ \A u : /\ u.recvInit = t.recvInit
                     /\ u.recvNext = Plus(t.recvNext, 1)
                     /\ u.recvBuf = t.recvBuf
                     /\ u.state \in FinStates
                     => ReceiverOK(u, q, wq, d)
<1> DEFINE n == Len(d) + Len(t.recvBuf)
           next == Plus(t.recvNext, 1)
<1>1. q \in Block(Endpoints, Peer(e)) /\ Peer(e) \in Endpoints /\ wq \in Nat
  BY EndpointsDef DEF Sound
<1>2. /\ ~NotOpened(q) /\ n \in Nat
      /\ t.recvInit = q.sendInit
      /\ t.recvNext = q.sendInit + 1 + n
      /\ n = wq
      /\ next = q.sendInit + wq + 2
      /\ q.sendInit + wq + 2 <= q.sendNext
      /\ q.state \notin WriteStates
  <2>1. n \in Nat /\ ~NotOpened(q)
    BY InOrderSays
  <2>2. t.recvInit = q.sendInit /\ t.recvNext = q.sendInit + 1 + n
    BY InOrderSays, ZenonT(60)
  <2>3. next = q.sendInit + wq + 2
    BY InOrderSays
  <2>4. q.sendInit + wq + 2 <= q.sendNext /\ q.state \notin WriteStates
    BY InOrderSays
  <2>5. n = wq
    <3>1. m.seq = q.sendInit + wq + 1
      BY DEF Heard, SegmentOK
    <3>2. q.sendInit \in Nat
      BY <1>1, BlockFields
    <3> HIDE DEF n
    <3> QED
      BY <1>1, <2>1, <2>2, <3>1, <3>2
  <2> QED
    BY <2>1, <2>2, <2>3, <2>4, <2>5
<1>3. q.sendInit \in Nat /\ q.sendNext \in Nat
  BY <1>1, BlockFields
<1> HIDE DEF next
<1>4. /\ next \in Nat /\ next # 0 /\ t.recvNext <= next
      /\ next <= q.sendNext /\ next = q.sendInit + 2 + wq
  <2> HIDE DEF n
  <2> QED
    BY <1>1, <1>2, <1>3
<1>5. ASSUME NEW u, u.recvInit = t.recvInit, u.recvNext = next,
             u.recvBuf = t.recvBuf, u.state \in FinStates
      PROVE  ReceiverOK(u, q, wq, d)
  <2>1. /\ \A i \in 1..Len(d) : d[i] = i
        /\ \A i \in 1..Len(t.recvBuf) : t.recvBuf[i] = Len(d) + i
    BY DEF Sound, ReceiverOK
  <2>2. Len(d) + Len(t.recvBuf) = wq /\ wq <= wq
    BY <1>1, <1>2
  <2>3. u.state \notin {"NONE", "SYN_SENT"}
    BY <1>5 DEF FinStates
  <2> HIDE DEF n
  <2> QED
    BY <1>2, <1>4, <1>5, <2>1, <2>2, <2>3 DEF ReceiverOK
<1> QED
  BY <1>4, <1>5 DEF next

LEMMA OnFinWait1Safe ==
    ASSUME NoWrap, NEW e \in Endpoints, NEW t, NEW w, NEW q, NEW wq, NEW d,
           Sound(e, t, w, q, wq, d), t.state = "FIN_WAIT1",
           NEW m, Heard(m, q, wq), m.seq = t.recvNext
    PROVE  Safe(e, t, w, q, wq, d, OnFinWait1(t, m))
<1> DEFINE a == Ack(t, m)
           v == [a EXCEPT !.recvNext = Plus(a.recvNext, 1)]
           r == MakeSureSendback(v)
           s == IF WaitingForAck(r.tcb) THEN "CLOSING" ELSE "TIME_WAIT"
           u == [r.tcb EXCEPT !.state = s]
           z == [a EXCEPT !.state = "FIN_WAIT2"]
<1>1. /\ m \in Segment(Endpoints) /\ m.ackSeq <= q.recvNext
      /\ t \in Block(Endpoints, e)
  BY DEF Heard, SegmentOK, Sound, SenderSide
<1>2. /\ Sound(e, a, w, q, wq, d) /\ Grows(t, w, a, w)
      /\ a.state = "FIN_WAIT1" /\ m.seq = a.recvNext
  BY <1>1, AckSafe
<1>3. a \in Block(Endpoints, e) /\ SenderSide(e, a, w) /\ w \in Nat
  BY <1>2 DEF Sound, SenderSide
<1>4. CASE ~(~HavePayload(m) /\ ~m.syn /\ m.fin)
  <2>1. OnFinWait1(t, m) \in {Silent(a), Silent(z)}
    BY <1>4 DEF OnFinWait1, IsPureAck, NeedToAck
  <2> HIDE DEF a
  <2>2. Sound(e, z, w, q, wq, d) /\ Grows(a, w, z, w)
    BY <1>2, StateSound DEF States, WriteStates, FinStates
  <2> HIDE DEF z
  <2>3. Safe(e, a, w, q, wq, d, Silent(a)) /\ Safe(e, z, w, q, wq, d, Silent(z))
    BY <1>2, <2>2, SilentSafe
  <2>4. Safe(e, a, w, q, wq, d, Silent(z))
    BY <1>3, <2>2, <2>3, SafeOn DEF Sound
  <2> QED
    BY <1>1, <1>2, <1>3, <2>1, <2>3, <2>4, SafeOn
<1>5. CASE ~HavePayload(m) /\ ~m.syn /\ m.fin
  <2>1. OnFinWait1(t, m) = Result(u, r.out)
    BY <1>5 DEF OnFinWait1, IsPureAck, NeedToAck
  <2>2. /\ Plus(a.recvNext, 1) \in Nat
        /\ a.recvNext <= Plus(a.recvNext, 1)
        /\ \A x : /\ x.recvInit = a.recvInit
                  /\ x.recvNext = Plus(a.recvNext, 1)
                  /\ x.recvBuf = a.recvBuf
                  /\ x.state \in FinStates
                  => ReceiverOK(x, q, wq, d)
    <3> HIDE DEF a
    <3> QED
      BY <1>2, <1>5, FinCounts DEF FinStates
  <2> HIDE DEF a
  <2>3. v \in Block(Endpoints, e)
    BY <1>3, <2>2, SettingType
  <2>4. /\ v.state = a.state
        /\ v.sendInit = a.sendInit /\ v.sendNext = a.sendNext
        /\ v.sendUnack = a.sendUnack
        /\ v.sendBuf = a.sendBuf /\ v.lastSeg = a.lastSeg
        /\ v.recvInit = a.recvInit /\ v.recvNext = Plus(a.recvNext, 1)
        /\ v.recvBuf = a.recvBuf
    BY <1>3, BlockFields DEF TCB
  <2> HIDE DEF v
  <2>5. SenderSide(e, v, w) /\ Grows(a, w, v, w)
    BY <1>2, <1>3, <2>2, <2>3, <2>4, SenderFrame
  <2>6. Sends(e, w, r) /\ SameButSent(v, r.tcb) /\ Grows(v, w, r.tcb, w)
    BY <2>5, SendbackSafe
  <2> HIDE DEF r
  <2>7. r.tcb \in Block(Endpoints, e) /\ SenderSide(e, r.tcb, w)
    BY <2>6 DEF Sends, SenderSide
  <2>8. s \in FinStates /\ s \in States /\ s \notin WriteStates /\ s # "NONE"
    BY DEF FinStates, States, WriteStates
  <2> HIDE DEF s
  <2>9. u \in Block(Endpoints, e)
    BY <2>7, <2>8, SettingType
  <2>10. /\ u.state = s
         /\ u.sendInit = r.tcb.sendInit /\ u.sendNext = r.tcb.sendNext
         /\ u.sendUnack = r.tcb.sendUnack
         /\ u.sendBuf = r.tcb.sendBuf /\ u.lastSeg = r.tcb.lastSeg
         /\ u.recvInit = r.tcb.recvInit /\ u.recvNext = r.tcb.recvNext
         /\ u.recvBuf = r.tcb.recvBuf
    BY <2>7, BlockFields DEF TCB
  <2> HIDE DEF u
  <2>11. SenderSide(e, u, w) /\ Grows(r.tcb, w, u, w)
    <3> DEFINE x == r.tcb
    <3>1. x.recvNext \in Nat
      BY <2>7, BlockFields
    <3>2. u.state # "NONE" /\ u.state \notin WriteStates /\ x.recvNext <= u.recvNext
      BY <2>8, <2>10, <3>1
    <3>3. /\ SenderSide(e, x, w) /\ u.sendInit = x.sendInit
          /\ u.sendNext = x.sendNext
          /\ u.sendBuf = x.sendBuf /\ u.lastSeg = x.lastSeg
      BY <2>7, <2>10
    <3> HIDE DEF x
    <3>4. SenderSide(e, u, w) /\ Grows(x, w, u, w)
      BY <2>9, <3>2, <3>3, SenderFrame
    <3> QED
      BY <3>4 DEF x
  <2>12. \A x \in r.out : /\ x \in Segment(Endpoints) /\ x.src = e
                          /\ SegmentOK(u, w, x)
    BY <1>3, <2>6, <2>7, <2>9, <2>11, SegmentStays DEF Sends
  <2>13. Grows(t, w, u, w)
    <3>1. Grows(a, w, r.tcb, w)
      BY <1>3, <2>3, <2>5, <2>6, <2>7, GrowsOn
    <3>2. Grows(a, w, u, w)
      BY <1>3, <2>7, <2>9, <2>11, <3>1, GrowsOn
    <3> QED
      BY <1>1, <1>2, <1>3, <2>9, <3>2, GrowsOn
  <2>14. ReceiverOK(u, q, wq, d)
    BY <2>2, <2>4, <2>6, <2>8, <2>10 DEF SameButSent
  <2>15. AckedOK(u, q)
    <3>1. AckedOK(a, q) /\ a.state \notin {"NONE", "CLOSE"}
      BY <1>2 DEF Sound
    <3>2. /\ u.sendInit = a.sendInit /\ u.sendUnack = a.sendUnack
          /\ a.sendNext <= u.sendNext
      BY <2>4, <2>6, <2>10 DEF SameButSent
    <3> QED
      BY <1>3, <2>9, <3>1, <3>2, AckedFrame
  <2> QED
    BY <2>1, <2>11, <2>12, <2>13, <2>14, <2>15 DEF Result, Safe, Sends
<1> QED
  BY <1>4, <1>5

LEMMA OnFinWait2Safe ==
    ASSUME NoWrap, NEW e \in Endpoints, NEW t, NEW w, NEW q, NEW wq, NEW d,
           Sound(e, t, w, q, wq, d), t.state = "FIN_WAIT2",
           NEW m, Heard(m, q, wq), m.seq = t.recvNext
    PROVE  Safe(e, t, w, q, wq, d, OnFinWait2(t, m))
<1> DEFINE a == Ack(t, m)
           next == Plus(a.recvNext, 1)
           u == [a EXCEPT !.recvNext = next, !.state = "TIME_WAIT"]
<1>1. /\ m \in Segment(Endpoints) /\ m.ackSeq <= q.recvNext
      /\ t \in Block(Endpoints, e)
  BY DEF Heard, SegmentOK, Sound, SenderSide
<1>2. /\ Sound(e, a, w, q, wq, d) /\ Grows(t, w, a, w)
      /\ a.state = "FIN_WAIT2" /\ m.seq = a.recvNext
  BY <1>1, AckSafe
<1>3. /\ a \in Block(Endpoints, e) /\ a \in TCB(Endpoints) /\ Fits(a)
      /\ a.local = e /\ SenderSide(e, a, w) /\ w \in Nat
  BY <1>2 DEF Sound, SenderSide, Block
<1>4. CASE ~m.fin
  <2>1. OnFinWait2(t, m) = Silent(a)
    BY <1>4 DEF OnFinWait2
  <2> HIDE DEF a
  <2> QED
    BY <1>1, <1>2, <1>3, <2>1, SilentSafe, SafeOn
<1>5. CASE m.fin
  <2>1. OnFinWait2(t, m) \in {Silent(a), MakeSureSendback(u)}
    BY <1>3 DEF OnFinWait2, TCB
  <2> HIDE DEF a
  <2>2. /\ next \in Nat
        /\ a.recvNext <= next
        /\ \A x : /\ x.recvInit = a.recvInit
                  /\ x.recvNext = next
                  /\ x.recvBuf = a.recvBuf
                  /\ x.state \in FinStates
                  => ReceiverOK(x, q, wq, d)
    BY <1>2, <1>5, FinCounts DEF FinStates
  <2> HIDE DEF next
  <2>3. u \in Block(Endpoints, e)
    BY <1>3, <2>2 DEF TCB, Block, Fits, States
  <2>4. /\ u.state = "TIME_WAIT"
        /\ u.sendInit = a.sendInit /\ u.sendNext = a.sendNext
        /\ u.sendUnack = a.sendUnack
        /\ u.sendBuf = a.sendBuf /\ u.lastSeg = a.lastSeg
        /\ u.recvInit = a.recvInit /\ u.recvNext = next
        /\ u.recvBuf = a.recvBuf
    BY <1>3 DEF TCB
  <2> HIDE DEF u
  <2>5. SenderSide(e, u, w) /\ Grows(a, w, u, w)
    BY <1>2, <1>3, <2>2, <2>3, <2>4, SenderFrame DEF WriteStates
  <2>6. ReceiverOK(u, q, wq, d)
    BY <2>2, <2>4 DEF FinStates
  <2>7. AckedOK(u, q)
    <3>1. AckedOK(a, q) /\ a.state \notin {"NONE", "CLOSE"}
      BY <1>2 DEF Sound
    <3>2. a.sendNext <= u.sendNext
      BY <1>3, <2>4, BlockFields
    <3> QED
      BY <1>3, <2>3, <2>4, <3>1, <3>2, AckedFrame
  <2>8. Sound(e, u, w, q, wq, d)
    BY <1>2, <2>4, <2>5, <2>6, <2>7 DEF Sound
  <2>9. Safe(e, u, w, q, wq, d, MakeSureSendback(u))
    BY <2>4, <2>8, AnswerSafe
  <2>10. Safe(e, a, w, q, wq, d, MakeSureSendback(u))
    BY <1>3, <2>5, <2>9, SafeOn
  <2> QED
    BY <1>1, <1>2, <1>3, <2>1, <2>10, SilentSafe, SafeOn
<1> QED
  BY <1>4, <1>5

\* CLOSING and LAST_ACK only change the state.
LEMMA OnClosingSafe ==
    ASSUME NEW e \in Endpoints, NEW t, NEW w, NEW q, NEW wq, NEW d,
           Sound(e, t, w, q, wq, d), t.state = "CLOSING", NEW m
    PROVE  Safe(e, t, w, q, wq, d, OnClosing(t, m))
<1> DEFINE u == [t EXCEPT !.state = "TIME_WAIT"]
<1>1. OnClosing(t, m) \in {Silent(u), Silent(t)}
  BY DEF OnClosing
<1>2. Sound(e, u, w, q, wq, d) /\ Grows(t, w, u, w)
  BY StateSound DEF States, WriteStates, FinStates
<1> HIDE DEF u
<1>3. Safe(e, u, w, q, wq, d, Silent(u)) /\ Safe(e, t, w, q, wq, d, Silent(t))
  BY <1>2, SilentSafe
<1>4. Safe(e, t, w, q, wq, d, Silent(u))
  BY <1>2, <1>3, SafeOn DEF Sound, SenderSide
<1> QED
  BY <1>1, <1>3, <1>4

LEMMA OnLastAckSafe ==
    ASSUME NEW e \in Endpoints, NEW t, NEW w, NEW q, NEW wq, NEW d,
           Sound(e, t, w, q, wq, d), t.state = "LAST_ACK", NEW m
    PROVE  Safe(e, t, w, q, wq, d, OnLastAck(t, m))
<1> DEFINE next == Plus(t.sendUnack, 1)
           u == [t EXCEPT !.state = "CLOSE", !.sendUnack = next]
<1>1. /\ t \in Block(Endpoints, e) /\ t \in TCB(Endpoints) /\ t.local = e
      /\ Fits(t) /\ SenderSide(e, t, w) /\ t.recvNext \in Nat
  BY BlockFields DEF Sound, SenderSide, Block
<1>2. next \in Nat
  BY <1>1, PlusType DEF TCB
<1>3. OnLastAck(t, m) \in {Silent(u), Silent(t)}
  BY <1>1 DEF OnLastAck, TCB
<1> HIDE DEF next
<1>4. u \in Block(Endpoints, e)
  BY <1>1, <1>2 DEF TCB, Block, Fits, States
<1>5. /\ u.state = "CLOSE"
      /\ u.sendInit = t.sendInit /\ u.sendNext = t.sendNext
      /\ u.sendBuf = t.sendBuf /\ u.lastSeg = t.lastSeg
      /\ u.recvInit = t.recvInit /\ u.recvNext = t.recvNext
      /\ u.recvBuf = t.recvBuf
  BY <1>1 DEF TCB
<1> HIDE DEF u
<1>6. SenderSide(e, u, w) /\ Grows(t, w, u, w)
  BY <1>1, <1>4, <1>5, SenderFrame DEF WriteStates
<1>7. ReceiverOK(u, q, wq, d)
  BY <1>5, ReceiverFrame DEF Sound
<1>8. AckedOK(u, q)
  BY <1>5 DEF AckedOK
<1>9. Sound(e, u, w, q, wq, d)
  BY <1>5, <1>6, <1>7, <1>8 DEF Sound
<1>10. Safe(e, u, w, q, wq, d, Silent(u)) /\ Safe(e, t, w, q, wq, d, Silent(t))
  BY <1>9, SilentSafe
<1>11. Safe(e, t, w, q, wq, d, Silent(u))
  BY <1>1, <1>6, <1>10, SafeOn
<1> QED
  BY <1>3, <1>10, <1>11

-----------------------------------------------------------------------------
(* What the calls of the socket layer and the timer do.                    *)

LEMMA GrowsChain ==
    ASSUME NEW e \in Endpoints, NEW t \in Block(Endpoints, e),
           NEW u \in Block(Endpoints, e), NEW v \in Block(Endpoints, e),
           NEW w \in Nat, NEW x \in Nat, Grows(t, w, u, x), Grows(u, x, v, x)
    PROVE  Grows(t, w, v, x)
  BY BlockFields DEF Grows

\* More items in the send buffer.
LEMMA QueuedSound ==
    ASSUME NEW e \in Endpoints, NEW t, NEW w, NEW q, NEW wq, NEW d,
           Sound(e, t, w, q, wq, d), t.state \in WriteStates \ {"NONE", "SYN_SENT"},
           NEW v \in Nat, w <= v, v <= MaxBytes[e],
           NEW u \in Block(Endpoints, e),
           u.state \notin {"NONE", "SYN_SENT", "CLOSE"},
           t.state \in FinStates <=> u.state \in FinStates,
           u.sendInit = t.sendInit, u.sendNext = t.sendNext,
           u.sendUnack = t.sendUnack, u.lastSeg = t.lastSeg,
           u.recvInit = t.recvInit, u.recvNext = t.recvNext,
           u.recvBuf = t.recvBuf,
           Queue(u.sendBuf, t.sendInit, t.sendNext, v, u.state \notin WriteStates)
    PROVE  Sound(e, u, v, q, wq, d) /\ Grows(t, w, u, v)
<1>1. /\ t \in Block(Endpoints, e) /\ w \in Nat /\ ~NotOpened(t)
      /\ SenderOK(e, t, w)
      /\ t.lastSeg.src = e /\ SegmentOK(t, w, t.lastSeg)
      /\ t.state \notin {"NONE", "SYN_SENT", "CLOSE"}
  BY DEF Sound, SenderSide, WriteStates
<1>2. /\ t.sendNext <= u.sendNext /\ t.recvNext <= u.recvNext
      /\ t.lastSeg \in Segment(Endpoints)
  BY <1>1, BlockFields
<1>3. Grows(t, w, u, v)
  BY <1>1, <1>2 DEF Grows, NotOpened
<1>4. SegmentOK(u, v, u.lastSeg)
  BY <1>1, <1>2, <1>3, SegmentStays
<1>5. SenderOK(e, u, v)
  BY <1>1 DEF SenderOK, NotOpened
<1>6. SenderSide(e, u, v)
  BY <1>1, <1>4, <1>5 DEF SenderSide, NotOpened
<1>7. ReceiverOK(u, q, wq, d)
  BY <1>1, ReceiverFrame DEF Sound
<1>8. AckedOK(u, q)
  <2>1. AckedOK(t, q)
    BY DEF Sound
  <2> QED
    BY <1>1, <1>2, <2>1, AckedFrame
<1> QED
  BY <1>3, <1>6, <1>7, <1>8 DEF Sound

\* close() takes block t to state s, and the FIN is queued after the bytes.
WithFin(t, s) == [t EXCEPT !.state = s,
                           !.sendBuf = t.sendBuf \o <<CtrlItem("fin")>>]

Closes(t, s) ==
    \/ t.state \in {"SYN_RECV", "ESTABLISHED"} /\ s = "FIN_WAIT1"
    \/ t.state = "CLOSE_WAIT" /\ s = "LAST_ACK"

LEMMA FinQueued ==
    ASSUME NEW e \in Endpoints, NEW t, NEW w, NEW q, NEW wq, NEW d,
           Sound(e, t, w, q, wq, d), NEW s, Closes(t, s),
           Len(t.sendBuf) # SendCapacity, NEW v, v = WithFin(t, s)
    PROVE  /\ Sound(e, v, w, q, wq, d) /\ Grows(t, w, v, w)
           /\ v.state = s
           /\ v.sendInit = t.sendInit /\ v.sendNext = t.sendNext
           /\ v.sendUnack = t.sendUnack /\ v.lastSeg = t.lastSeg
           /\ v.recvNext = t.recvNext /\ v.recvBuf = t.recvBuf
           /\ Len(v.sendBuf) = Len(t.sendBuf) + 1
<1> DEFINE c == CtrlItem("fin")
           buf == t.sendBuf \o <<c>>
<1>1. /\ t \in Block(Endpoints, e) /\ t \in TCB(Endpoints) /\ t.local = e
      /\ Fits(t) /\ SenderSide(e, t, w) /\ w \in Nat /\ SenderOK(e, t, w)
      /\ ~NotOpened(t)
  BY DEF Sound, SenderSide, Block
<1>2. s \in States /\ s \notin WriteStates /\ s \notin {"NONE", "SYN_SENT", "CLOSE"}
      /\ t.state \in WriteStates \ {"NONE", "SYN_SENT"}
      /\ (t.state \in FinStates <=> s \in FinStates)
  BY DEF Closes, States, WriteStates, FinStates
<1>3. c \in Item
  BY DEF CtrlItem, Item
<1>4. t.sendBuf \in Seq(Item) /\ Len(t.sendBuf) \in Nat
      /\ Len(t.sendBuf) <= SendCapacity
  BY <1>1, BlockFields DEF Fits
<1> HIDE DEF c
<1>5. buf \in Seq(Item) /\ Len(buf) = Len(t.sendBuf) + 1
  BY <1>3, <1>4
<1>6. Len(buf) <= SendCapacity
  BY <1>4, <1>5, TcbAssumption
<1> HIDE DEF buf
<1>7. /\ v.state = s
      /\ v.sendInit = t.sendInit /\ v.sendNext = t.sendNext
      /\ v.sendUnack = t.sendUnack /\ v.sendBuf = buf
      /\ v.lastSeg = t.lastSeg
      /\ v.recvInit = t.recvInit /\ v.recvNext = t.recvNext
      /\ v.recvBuf = t.recvBuf /\ v.local = e
      /\ v.retransCount = t.retransCount
      /\ v \in TCB(Endpoints)
  <2>1. v = [t EXCEPT !.state = s, !.sendBuf = buf]
    BY DEF WithFin, buf, c
  <2> QED
    BY <1>1, <1>2, <1>5, <2>1 DEF TCB
<1>8. v \in Block(Endpoints, e)
  BY <1>1, <1>6, <1>7 DEF Block, Fits
<1>9. w <= w /\ w <= MaxBytes[e]
  BY <1>1 DEF SenderOK
<1>10. Queue(buf, t.sendInit, t.sendNext, w, TRUE)
  <2>1. Queue(t.sendBuf, t.sendInit, t.sendNext, w, FALSE)
    BY <1>1, <1>2 DEF SenderOK, Queue
  <2>2. t.sendInit \in Nat /\ t.sendNext \in Nat
    BY <1>1, BlockFields
  <2> QED
    BY <1>1, <1>4, <2>1, <2>2, QueueFin DEF buf, c
<1>11. Queue(v.sendBuf, t.sendInit, t.sendNext, w, v.state \notin WriteStates)
  BY <1>2, <1>7, <1>10 DEF Queue
<1>12. Sound(e, v, w, q, wq, d) /\ Grows(t, w, v, w)
  BY <1>1, <1>2, <1>7, <1>8, <1>9, <1>11, QueuedSound
<1> QED
  BY <1>5, <1>7, <1>12

\* How close() sends the FIN, or refuses it, in a state that still writes.
LEMMA FinSent ==
    ASSUME NEW e \in Endpoints, NEW t \in Block(Endpoints, e), NEW s
    PROVE  SendCtrl([t EXCEPT !.state = s], "fin") =
              IF Len(t.sendBuf) = SendCapacity
              THEN Silent([t EXCEPT !.state = s])
              ELSE MakeSureSendback(WithFin(t, s))
<1> DEFINE u == [t EXCEPT !.state = s]
           buf == t.sendBuf \o <<CtrlItem("fin")>>
<1>1. t \in TCB(Endpoints)
  BY DEF Block
<1>2. u.sendBuf = t.sendBuf
  BY <1>1 DEF TCB
<1>3. [u EXCEPT !.sendBuf = buf] = [t EXCEPT !.state = s, !.sendBuf = buf]
  <2> HIDE DEF buf
  <2> QED
    BY <1>1 DEF TCB
<1>4. SendCtrl(u, "fin") = IF SendBufFull(u) THEN Silent(u)
                           ELSE MakeSureSendback([u EXCEPT !.sendBuf = buf])
  <2> HIDE DEF u
  <2> QED
    BY <1>2 DEF SendCtrl, PushAndSend
<1> QED
  BY <1>2, <1>3, <1>4 DEF SendBufFull, WithFin

\* close() in a state that still writes.
LEMMA CloseSends ==
    ASSUME NoWrap, NEW e \in Endpoints, NEW t, NEW w, NEW q, NEW wq, NEW d,
           Sound(e, t, w, q, wq, d), NEW s, Closes(t, s)
    PROVE  Safe(e, t, w, q, wq, d, SendCtrl([t EXCEPT !.state = s], "fin"))
<1> DEFINE u == [t EXCEPT !.state = s]
           v == WithFin(t, s)
<1>1. t \in Block(Endpoints, e) /\ SenderSide(e, t, w)
  BY DEF Sound, SenderSide
<1>2. SendCtrl(u, "fin") = IF Len(t.sendBuf) = SendCapacity
                           THEN Silent(u) ELSE MakeSureSendback(v)
  BY <1>1, FinSent
<1>3. CASE Len(t.sendBuf) = SendCapacity
  <2>1. Sound(e, u, w, q, wq, d) /\ Grows(t, w, u, w)
    <3>1. s \in States /\ s # "NONE" /\ s \notin WriteStates
          /\ {t.state, s} \cap {"NONE", "SYN_SENT", "CLOSE"} = {}
          /\ (t.state \in FinStates <=> s \in FinStates)
      BY DEF Closes, States, WriteStates, FinStates
    <3> QED
      BY <3>1, StateSound
  <2> HIDE DEF u
  <2>2. Safe(e, t, w, q, wq, d, Silent(u))
    BY <1>1, <2>1, SilentSafe, SafeOn DEF Sound
  <2> QED
    BY <1>2, <1>3, <2>2 DEF u
<1>4. CASE Len(t.sendBuf) # SendCapacity
  <2>1. Sound(e, v, w, q, wq, d) /\ Grows(t, w, v, w) /\ v.state = s
    BY <1>4, FinQueued
  <2> HIDE DEF v
  <2>2. v.state # "CLOSE"
    BY <2>1 DEF Closes
  <2>3. Safe(e, v, w, q, wq, d, MakeSureSendback(v))
    BY <2>1, <2>2, AnswerSafe
  <2>4. Safe(e, t, w, q, wq, d, MakeSureSendback(v))
    BY <1>1, <2>1, <2>3, SafeOn DEF Sound
  <2> QED
    BY <1>2, <1>4, <2>4 DEF v
<1> QED
  BY <1>3, <1>4

LEMMA CloseTcbSafe ==
    ASSUME NoWrap, NEW e \in Endpoints, NEW t, NEW w, NEW q, NEW wq, NEW d,
           Sound(e, t, w, q, wq, d)
    PROVE  Safe(e, t, w, q, wq, d, CloseTcb(t))
<1> DEFINE u == [t EXCEPT !.state = "CLOSE"]
<1>1. CASE t.state = "SYN_SENT"
  <2>1. CloseTcb(t) = Silent(u)
    BY <1>1 DEF CloseTcb
  <2>2. Sound(e, u, w, q, wq, d) /\ Grows(t, w, u, w)
    BY <1>1, StateSound DEF States, WriteStates
  <2> HIDE DEF u
  <2> QED
    BY <2>1, <2>2, SilentSafe, SafeOn DEF Sound, SenderSide
<1>2. CASE t.state \in {"SYN_RECV", "ESTABLISHED"}
  <2>1. CloseTcb(t) = SendCtrl([t EXCEPT !.state = "FIN_WAIT1"], "fin")
    BY <1>2 DEF CloseTcb
  <2> QED
    BY <1>2, <2>1, CloseSends DEF Closes
<1>3. CASE t.state = "CLOSE_WAIT"
  <2>1. CloseTcb(t) = SendCtrl([t EXCEPT !.state = "LAST_ACK"], "fin")
    BY <1>3 DEF CloseTcb
  <2> QED
    BY <1>3, <2>1, CloseSends DEF Closes
<1>4. CASE t.state \notin {"SYN_SENT", "SYN_RECV", "ESTABLISHED", "CLOSE_WAIT"}
  <2>1. CloseTcb(t) = Silent(t)
    BY <1>4 DEF CloseTcb
  <2> QED
    BY <2>1, SilentSafe
<1> QED
  BY <1>1, <1>2, <1>3, <1>4

\* The timer repeats what was said, with an acknowledgement that is not ahead.
LEMMA RetransmitSafe ==
    ASSUME NEW e \in Endpoints, NEW t, NEW w, NEW q, NEW wq, NEW d,
           Sound(e, t, w, q, wq, d), t.state \notin {"NONE", "CLOSE"}
    PROVE  Safe(e, t, w, q, wq, d, Retransmit(t))
<1> DEFINE c == [t EXCEPT !.state = "CLOSE"]
           m == [t.lastSeg EXCEPT !.ackSeq = t.recvNext]
           n == t.retransCount + 1
           u == [t EXCEPT !.lastSeg = m, !.retransCount = n]
<1>1. /\ t \in Block(Endpoints, e) /\ t \in TCB(Endpoints)
      /\ SenderSide(e, t, w) /\ w \in Nat /\ SenderOK(e, t, w)
      /\ ~NotOpened(t) /\ t.lastSeg.src = e /\ SegmentOK(t, w, t.lastSeg)
  BY DEF Sound, SenderSide, Block
<1>2. CASE t.retransCount >= MaxRetrans
  <2>1. Retransmit(t) = Silent(c)
    BY <1>2 DEF Retransmit
  <2>2. Sound(e, c, w, q, wq, d) /\ Grows(t, w, c, w)
    BY StateSound DEF States, WriteStates
  <2> HIDE DEF c
  <2> QED
    BY <1>1, <2>1, <2>2, SilentSafe, SafeOn DEF Sound
<1>3. CASE ~(t.retransCount >= MaxRetrans)
  <2>1. Retransmit(t) = Result(u, {m})
    BY <1>1, <1>3 DEF Retransmit, TCB
  <2>2. u \in Block(Endpoints, e) /\ m \in Segment(Endpoints)
    BY <1>1, <2>1, RetransmitType DEF Typed, Result
  <2>3. /\ m.src = e /\ m.syn = t.lastSeg.syn /\ m.fin = t.lastSeg.fin
        /\ m.seq = t.lastSeg.seq /\ m.data = t.lastSeg.data
        /\ m.ackSeq = t.recvNext
    BY <1>1, BlockFields DEF Segment
  <2>4. SegLen(m) = SegLen(t.lastSeg)
    BY <2>3 DEF SegLen
  <2>5. t.recvNext \in Nat
    BY <1>1, BlockFields
  <2> HIDE DEF m, n
  <2>6. SegmentOK(t, w, m)
    BY <1>1, <2>3, <2>4, <2>5 DEF SegmentOK, HavePayload
  <2>7. /\ u.state = t.state
        /\ u.sendInit = t.sendInit /\ u.sendNext = t.sendNext
        /\ u.sendUnack = t.sendUnack
        /\ u.sendBuf = t.sendBuf /\ u.lastSeg = m
        /\ u.recvInit = t.recvInit /\ u.recvNext = t.recvNext
        /\ u.recvBuf = t.recvBuf
    BY <1>1 DEF TCB
  <2> HIDE DEF u
  <2>8. Grows(t, w, u, w)
    BY <1>1, <2>7, BlockFields DEF Grows, NotOpened
  <2>9. SegmentOK(u, w, m)
    BY <1>1, <2>2, <2>6, <2>8, SegmentStays
  <2>10. SenderSide(e, u, w)
    BY <1>1, <2>2, <2>3, <2>7, <2>9 DEF SenderSide, SenderOK, NotOpened
  <2>11. ReceiverOK(u, q, wq, d)
    BY <2>7, ReceiverFrame DEF Sound
  <2>12. AckedOK(u, q)
    BY <2>7 DEF Sound, AckedOK
  <2> QED
    BY <2>1, <2>2, <2>3, <2>8, <2>9, <2>10, <2>11, <2>12
       DEF Result, Safe, Sends
<1> QED
  BY <1>2, <1>3

-----------------------------------------------------------------------------
(* The steps of the system.                                                *)

\* What the invariant says about an open block.
LEMMA SoundNow ==
    ASSUME Inductive, NEW e \in Endpoints, tcb[e].state # "NONE"
    PROVE  Sound(e, tcb[e], written[e], tcb[Peer(e)], written[Peer(e)],
                 delivered[e])
<1> DEFINE p == Peer(e)
           t == tcb[e]
           q == tcb[p]
<1>1. p \in Endpoints /\ Peer(p) = e
  BY EndpointsDef
<1>2. /\ t \in Block(Endpoints, e) /\ q \in Block(Endpoints, p)
      /\ written[e] \in Nat /\ written[p] \in Nat /\ delivered[e] \in Seq(Nat)
  BY <1>1, TypeOKBlocks DEF Inductive
<1>3. /\ BlockOK(e, t, q, written[e], written[p], delivered[e])
      /\ BlockOK(p, q, t, written[p], written[e], delivered[p])
  BY <1>1 DEF Inductive
<1>4. SenderSide(e, t, written[e])
  BY <1>2, <1>3 DEF BlockOK, SenderSide, NotOpened
<1>5. ~NotOpened(q) => SenderSide(p, q, written[p])
  BY <1>2, <1>3 DEF BlockOK, SenderSide
<1>6. q.recvNext <= t.sendNext
  <2>1. t.sendNext \in Nat
    BY <1>2, BlockFields
  <2>2. ReceiverOK(q, t, written[e], delivered[p])
    BY <1>3 DEF BlockOK
  <2>3. q.recvNext = 0 \/ q.recvNext <= t.sendNext
    BY <2>2 DEF ReceiverOK
  <2> QED
    BY <2>1, <2>3
<1> QED
  BY <1>2, <1>3, <1>4, <1>5, <1>6 DEF Sound, BlockOK

\* What a segment under way says was said by the peer.
LEMMA HeardNow ==
    ASSUME Inductive, NEW e \in Endpoints, NEW m \in Arriving(e)
    PROVE  Heard(m, tcb[Peer(e)], written[Peer(e)])
  BY EndpointsDef DEF Inductive, TypeOK, Arriving, Heard

\* One end moves on and the other sees no more than before.
LEMMA OneEndMoves ==
    ASSUME Inductive, TypeOK', NEW e \in Endpoints,
           NEW u \in Block(Endpoints, e), NEW v \in Nat,
           tcb' = [tcb EXCEPT ![e] = u],
           written'[e] = v, written'[Peer(e)] = written[Peer(e)],
           delivered'[Peer(e)] = delivered[Peer(e)],
           registry'[e] = "none" <=> NotOpened(u),
           registry'[Peer(e)] = registry[Peer(e)],
           Grows(tcb[e], written[e], u, v),
           BlockOK(e, u, tcb[Peer(e)], v, written[Peer(e)], delivered'[e]),
           \A m \in net' : \/ m \in net
                           \/ m.src = e /\ SegmentOK(u, v, m)
    PROVE  Inductive'
<1> DEFINE p == Peer(e)
           t == tcb[e]
           q == tcb[p]
           w == written[e]
<1>1. p \in Endpoints /\ Peer(p) = e /\ p # e
  BY EndpointsDef
<1>2. /\ t \in Block(Endpoints, e) /\ q \in Block(Endpoints, p)
      /\ w \in Nat /\ written[p] \in Nat
      /\ net \subseteq Segment(Endpoints)
  BY <1>1, TypeOKBlocks DEF Inductive
<1>3. tcb'[e] = u /\ tcb'[p] = q
  BY <1>1 DEF Inductive, TypeOK
<1>4. /\ BlockOK(p, q, t, written[p], w, delivered[p])
      /\ registry[p] = "none" <=> NotOpened(q)
      /\ \A m \in net : m.src = e => SegmentOK(t, w, m)
      /\ \A m \in net : m.src = p => SegmentOK(q, written[p], m)
  BY <1>1 DEF Inductive
<1>5. /\ NotOpened(u) => NotOpened(t)
      /\ ~NotOpened(t) => u.sendInit = t.sendInit
      /\ t.sendNext <= u.sendNext /\ t.recvNext <= u.recvNext /\ w <= v
      /\ t.state \notin WriteStates => u.state \notin WriteStates /\ v = w
  BY DEF Grows
<1>6. /\ t.sendNext \in Nat /\ u.sendNext \in Nat
      /\ t.recvNext \in Nat /\ u.recvNext \in Nat
      /\ q.recvNext \in Nat /\ q.sendUnack \in Nat
      /\ q.recvBuf \in Seq(Nat) /\ delivered[p] \in Seq(Nat)
  BY <1>1, <1>2, BlockFields DEF Inductive, TypeOK
<1>7. ReceiverOK(q, u, v, delivered[p])
  <2> DEFINE n == Len(delivered[p]) + Len(q.recvBuf)
  <2>1. ReceiverOK(q, t, w, delivered[p])
    BY <1>4 DEF BlockOK
  <2>2. CASE q.recvNext = 0
    BY <2>1, <2>2 DEF ReceiverOK
  <2>3. CASE q.recvNext # 0
    <3>1. /\ ~NotOpened(t) /\ q.recvInit = t.sendInit
          /\ q.state \notin {"NONE", "SYN_SENT"}
          /\ q.recvNext <= t.sendNext /\ n <= w
          /\ \/ q.recvNext = t.sendInit + 1 + Len(delivered[p]) + Len(q.recvBuf)
                /\ q.state \notin FinStates
             \/ /\ q.recvNext = t.sendInit + 2 + w
                /\ n = w
                /\ t.state \notin WriteStates
                /\ q.state \in FinStates \cup {"CLOSE"}
      BY <2>1, <2>3 DEF ReceiverOK
    <3>2. ~NotOpened(u) /\ u.sendInit = t.sendInit
      BY <1>5, <3>1
    <3>3. q.recvNext <= u.sendNext
      BY <1>5, <1>6, <3>1
    <3>4. n <= v
      <4>1. n \in Nat
        <5> DEFINE x == Len(delivered[p])
                   y == Len(q.recvBuf)
        <5>1. x \in Nat /\ y \in Nat /\ n = x + y
          BY <1>6
        <5> HIDE DEF x, y, n
        <5> QED
          BY <5>1
      <4> HIDE DEF n
      <4> QED
        BY <1>2, <1>5, <3>1, <4>1
    <3>5. t.state \notin WriteStates => u.state \notin WriteStates /\ v = w
      BY <1>5
    <3>6. /\ \A i \in 1..Len(delivered[p]) : delivered[p][i] = i
          /\ \A i \in 1..Len(q.recvBuf) : q.recvBuf[i] = Len(delivered[p]) + i
      BY <2>1 DEF ReceiverOK
    <3> QED
      BY <2>3, <3>1, <3>2, <3>3, <3>4, <3>5, <3>6 DEF ReceiverOK
  <2> QED
    BY <2>2, <2>3
<1>8. AckedOK(q, u)
  <2>1. AckedOK(q, t)
    BY <1>4 DEF BlockOK
  <2>2. q.sendUnack <= t.recvNext => q.sendUnack <= u.recvNext
    BY <1>5, <1>6
  <2> QED
    BY <2>1, <2>2 DEF AckedOK
<1>9. BlockOK(p, q, u, written[p], v, delivered[p])
  BY <1>4, <1>7, <1>8 DEF BlockOK
<1>10. \A m \in net' : m.src = e => SegmentOK(u, v, m)
  BY <1>2, <1>4, SegmentStays
<1>11. \A m \in net' : m.src = p => SegmentOK(q, written[p], m)
  BY <1>1, <1>4
<1>12. \A x \in Endpoints : x = e \/ x = p
  BY EndpointsDef
<1> HIDE DEF p
<1>13. ASSUME NEW x \in Endpoints
       PROVE  /\ registry'[x] = "none" <=> NotOpened(tcb'[x])
              /\ BlockOK(x, tcb'[x], tcb'[Peer(x)], written'[x],
                         written'[Peer(x)], delivered'[x])
              /\ \A m \in net' : m.src = x => SegmentOK(tcb'[x], written'[x], m)
  <2>1. CASE x = e
    BY <1>3, <1>10, <2>1 DEF p
  <2>2. CASE x = p
    <3>1. /\ registry'[p] = "none" <=> NotOpened(tcb'[p])
          /\ written'[p] = written[p] /\ delivered'[p] = delivered[p]
      BY <1>3, <1>4 DEF p
    <3> QED
      BY <1>1, <1>3, <1>9, <1>11, <2>2, <3>1
  <2> QED
    BY <1>12, <2>1, <2>2
<1> QED
  BY <1>13 DEF Inductive

\* A result that is safe keeps the invariant.
LEMMA SafeStep ==
    ASSUME Inductive, TypeOK', NEW e \in Endpoints,
           NEW r,
           Safe(e, tcb[e], written[e], tcb[Peer(e)], written[Peer(e)],
                delivered[e], r),
           NEW underWay \in SUBSET net, Effect(e, r, underWay),
           UNCHANGED <<written, delivered>>,
           registry'[e] # "none", registry'[Peer(e)] = registry[Peer(e)]
    PROVE  Inductive'
<1> DEFINE u == r.tcb
           w == written[e]
           p == Peer(e)
<1>1. /\ SenderSide(e, u, w)
      /\ \A m \in r.out : m.src = e /\ SegmentOK(u, w, m)
      /\ Grows(tcb[e], w, u, w)
      /\ ReceiverOK(u, tcb[p], written[p], delivered[e])
      /\ AckedOK(u, tcb[p])
  BY DEF Safe, Sends
<1>2. /\ u \in Block(Endpoints, e) /\ w \in Nat /\ ~NotOpened(u)
      /\ SenderOK(e, u, w) /\ u.lastSeg.src = e /\ SegmentOK(u, w, u.lastSeg)
  BY <1>1 DEF SenderSide
<1>3. BlockOK(e, u, tcb[p], w, written[p], delivered[e])
  BY <1>1, <1>2 DEF BlockOK
<1>4. tcb' = [tcb EXCEPT ![e] = u] /\ net' = underWay \cup r.out
  BY DEF Effect
<1>5. \A m \in net' : m \in net \/ (m.src = e /\ SegmentOK(u, w, m))
  BY <1>1, <1>4
<1> HIDE DEF u
<1> QED
  BY <1>1, <1>2, <1>3, <1>4, <1>5, OneEndMoves

\* What Reaches and InOrder say of the block.
LEMMA ReachedBlock ==
    ASSUME Inductive, NEW e \in Endpoints, NEW m, Reaches(m, e)
    PROVE  tcb[e].state \notin {"NONE", "CLOSE"} /\ registry[e] # "none"
<1>1. registry[e] # "none" /\ tcb[e].state # "CLOSE"
  BY DEF Reaches, Registered
<1>2. registry[e] = "none" <=> NotOpened(tcb[e])
  BY DEF Inductive
<1> QED
  BY <1>1, <1>2 DEF NotOpened

LEMMA HandledSafe ==
    ASSUME NoWrap, Inductive, TypeOK', NEW e \in Endpoints, NEW m \in Arriving(e),
           NEW s, NEW r, HandledAs(s, e, m, r),
           Safe(e, tcb[e], written[e], tcb[Peer(e)], written[Peer(e)],
                delivered[e], r)
    PROVE  Inductive'
<1>1. /\ Effect(e, r, After(m)) /\ Reaches(m, e)
      /\ UNCHANGED <<registry, losses, written, delivered>>
  BY DEF HandledAs
<1>2. registry'[e] # "none" /\ registry'[Peer(e)] = registry[Peer(e)]
  BY <1>1, ReachedBlock
<1>3. After(m) \in SUBSET net
  BY DEF After
<1> QED
  BY <1>1, <1>2, <1>3, SafeStep

LEMMA ReceiveSafe ==
    ASSUME NoWrap, Inductive, TypeOK', NEW e \in Endpoints, NEW m \in Arriving(e),
           \/ HandledAs("SYN_RECV", e, m, OnSynRecv(tcb[e], m))
           \/ HandledAs("SYN_SENT", e, m, OnSynSent(tcb[e], m))
           \/ HandledAs("ESTABLISHED", e, m, OnEstablished(tcb[e], m))
           \/ HandledAs("FIN_WAIT1", e, m, OnFinWait1(tcb[e], m))
           \/ HandledAs("FIN_WAIT2", e, m, OnFinWait2(tcb[e], m))
           \/ HandledAs("CLOSE_WAIT", e, m, OnCloseWait(tcb[e], m))
           \/ HandledAs("CLOSING", e, m, OnClosing(tcb[e], m))
           \/ HandledAs("LAST_ACK", e, m, OnLastAck(tcb[e], m))
           \/ HandledAs("TIME_WAIT", e, m, OnTimeWait(tcb[e], m))
    PROVE  Inductive'
<1> DEFINE t == tcb[e]
           w == written[e]
           q == tcb[Peer(e)]
           wq == written[Peer(e)]
           d == delivered[e]
<1>1. Heard(m, q, wq)
  BY HeardNow
<1>2. tcb[e].state # "NONE" => Sound(e, t, w, q, wq, d)
  BY SoundNow
<1> HIDE DEF w, q, wq, d
<1>3. CASE HandledAs("SYN_RECV", e, m, OnSynRecv(t, m))
  <2>1. t.state = "SYN_RECV"
    BY <1>3 DEF HandledAs
  <2>2. Safe(e, t, w, q, wq, d, OnSynRecv(t, m))
    BY <1>1, <1>2, <2>1, OnSynRecvSafe
  <2> QED
    BY <1>3, <2>2, HandledSafe DEF w, q, wq, d
<1>4. CASE HandledAs("SYN_SENT", e, m, OnSynSent(t, m))
  <2>1. t.state = "SYN_SENT"
    BY <1>4 DEF HandledAs
  <2>2. Safe(e, t, w, q, wq, d, OnSynSent(t, m))
    BY <1>1, <1>2, <2>1, OnSynSentSafe
  <2> QED
    BY <1>4, <2>2, HandledSafe DEF w, q, wq, d
<1>5. CASE HandledAs("ESTABLISHED", e, m, OnEstablished(t, m))
  <2>1. t.state = "ESTABLISHED" /\ m.seq = t.recvNext
    BY <1>5 DEF HandledAs, InOrder
  <2>2. Safe(e, t, w, q, wq, d, OnEstablished(t, m))
    BY <1>1, <1>2, <2>1, OnEstablishedSafe
  <2> QED
    BY <1>5, <2>2, HandledSafe DEF w, q, wq, d
<1>6. CASE HandledAs("FIN_WAIT1", e, m, OnFinWait1(t, m))
  <2>1. t.state = "FIN_WAIT1" /\ m.seq = t.recvNext
    BY <1>6 DEF HandledAs, InOrder
  <2>2. Safe(e, t, w, q, wq, d, OnFinWait1(t, m))
    BY <1>1, <1>2, <2>1, OnFinWait1Safe
  <2> QED
    BY <1>6, <2>2, HandledSafe DEF w, q, wq, d
<1>7. CASE HandledAs("FIN_WAIT2", e, m, OnFinWait2(t, m))
  <2>1. t.state = "FIN_WAIT2" /\ m.seq = t.recvNext
    BY <1>7 DEF HandledAs, InOrder
  <2>2. Safe(e, t, w, q, wq, d, OnFinWait2(t, m))
    BY <1>1, <1>2, <2>1, OnFinWait2Safe
  <2> QED
    BY <1>7, <2>2, HandledSafe DEF w, q, wq, d
<1>8. CASE HandledAs("CLOSE_WAIT", e, m, OnCloseWait(t, m))
  <2>1. t.state = "CLOSE_WAIT"
    BY <1>8 DEF HandledAs
  <2>2. Safe(e, t, w, q, wq, d, OnCloseWait(t, m))
    BY <1>2, <2>1, SilentSafe DEF OnCloseWait
  <2> QED
    BY <1>8, <2>2, HandledSafe DEF w, q, wq, d
<1>9. CASE HandledAs("CLOSING", e, m, OnClosing(t, m))
  <2>1. t.state = "CLOSING"
    BY <1>9 DEF HandledAs
  <2>2. Safe(e, t, w, q, wq, d, OnClosing(t, m))
    BY <1>2, <2>1, OnClosingSafe
  <2> QED
    BY <1>9, <2>2, HandledSafe DEF w, q, wq, d
<1>10. CASE HandledAs("LAST_ACK", e, m, OnLastAck(t, m))
  <2>1. t.state = "LAST_ACK"
    BY <1>10 DEF HandledAs
  <2>2. Safe(e, t, w, q, wq, d, OnLastAck(t, m))
    BY <1>2, <2>1, OnLastAckSafe
  <2> QED
    BY <1>10, <2>2, HandledSafe DEF w, q, wq, d
<1>11. CASE HandledAs("TIME_WAIT", e, m, OnTimeWait(t, m))
  <2>1. t.state = "TIME_WAIT"
    BY <1>11 DEF HandledAs
  <2>2. Safe(e, t, w, q, wq, d, OnTimeWait(t, m))
    BY <1>2, <2>1, SilentSafe DEF OnTimeWait
  <2> QED
    BY <1>11, <2>2, HandledSafe DEF w, q, wq, d
<1> QED
  BY <1>3, <1>4, <1>5, <1>6, <1>7, <1>8, <1>9, <1>10, <1>11

\* A new block's SYN takes the number it starts with.
LEMMA OpeningSends ==
    ASSUME NoWrap, NEW e \in Endpoints, NEW init \in InitSeqs[e],
           NEW t \in Block(Endpoints, e),
           t.state \in {"SYN_SENT", "SYN_RECV"},
           t.sendInit = init, t.sendNext = init, t.sendUnack = init,
           t.sendBuf = <<>>
    PROVE  LET r == SendCtrl(t, "syn")
           IN  /\ Sends(e, 0, r)
               /\ r.tcb.state = t.state
               /\ r.tcb.sendInit = init /\ r.tcb.sendUnack = init
               /\ r.tcb.sendNext = init + 1
               /\ r.tcb.recvInit = t.recvInit /\ r.tcb.recvNext = t.recvNext
               /\ r.tcb.sendBuf = <<>> /\ r.tcb.recvBuf = t.recvBuf
               /\ r.out = {r.tcb.lastSeg}
               /\ r.tcb.lastSeg.seq = init /\ SegLen(r.tcb.lastSeg) = 1
               /\ r.tcb.lastSeg.ackSeq = t.recvNext /\ ~r.tcb.lastSeg.fin
<1> DEFINE c == CtrlItem("syn")
           v == [t EXCEPT !.sendBuf = <<c>>]
           m == NextSegment(v)
           next == Plus(init, 1)
           u == [v EXCEPT !.sendNext = next, !.sendBuf = <<>>,
                          !.lastSeg = m, !.retransCount = 0]
           r == SendCtrl(t, "syn")
<1>1. /\ t \in TCB(Endpoints) /\ t.local = e /\ Fits(t)
      /\ t.recvNext \in Nat
  BY BlockFields DEF Block
<1>2. init \in Nat /\ next = init + 1
  <2>1. /\ init \in Nat /\ MaxBytes[e] \in Nat /\ SeqSpace \in Nat
        /\ init + MaxBytes[e] + 3 < SeqSpace
    BY TcpAssumption, TcbAssumption DEF NoWrap, Endpoints
  <2> QED
    BY <2>1 DEF Plus
<1>3. c \in Item /\ c.ctrl = "syn"
  BY DEF CtrlItem, Item
<1>4. Typed(Endpoints, e, r)
  BY SendCtrlType
<1> HIDE DEF c
<1>5. /\ v.sendBuf = <<c>> /\ v.sendNext = init
      /\ v.sendUnack = init /\ v.local = e /\ v.state = t.state
      /\ v.recvNext = t.recvNext
  BY <1>1 DEF TCB
<1>6. /\ <<c>> \in Seq(Item) /\ Len(<<c>>) = 1 /\ <<c>> # <<>>
      /\ Head(<<c>>) = c /\ SubSeq(<<c>>, 2, 1) = <<>>
  BY <1>3
<1>7. PayloadLen(<<c>>) = 0
  BY <1>3, <1>6, PayloadLenRun
<1>8. /\ m.src = e /\ m.syn /\ ~m.fin /\ m.data = <<>>
      /\ m.seq = init /\ m.ackSeq = t.recvNext
  <2>1. m.data = [i \in 1..PayloadLen(<<c>>) |-> <<c>>[i].byte]
    BY <1>5 DEF NextSegment
  <2>2. m.data = <<>>
    BY <1>7, <2>1
  <2> QED
    BY <1>3, <1>5, <1>6, <2>2 DEF NextSegment
<1>9. SegLen(m) = 1
  BY <1>8 DEF SegLen, Flag
<1>10. r = Result(u, {m})
  <2>1. ~SendBufFull(t)
    BY TcbAssumption DEF SendBufFull
  <2>2. t.sendBuf \o <<CtrlItem("syn")>> = <<c>>
    BY <1>3 DEF c
  <2>3. r = MakeSureSendback(v)
    BY <2>1, <2>2 DEF SendCtrl, PushAndSend, c
  <2>4. ~WaitingForAck(v)
    BY <1>2, <1>5 DEF WaitingForAck
  <2>5. r = SendSegment(v)
    BY <2>3, <2>4 DEF MakeSureSendback
  <2>6. SubSeq(v.sendBuf, SegLen(m) + 1, Len(v.sendBuf)) = <<>>
    BY <1>5, <1>6, <1>9
  <2>7. Plus(v.sendNext, SegLen(m)) = next
    BY <1>5, <1>9
  <2> HIDE DEF m, v, r
  <2>8. r = Result([v EXCEPT !.sendNext = Plus(v.sendNext, SegLen(m)),
                             !.sendBuf = SubSeq(v.sendBuf, SegLen(m) + 1,
                                                Len(v.sendBuf)),
                             !.lastSeg = m, !.retransCount = 0], {m})
    BY <1>5, <1>6, <2>4, <2>5 DEF SendSegment, m
  <2> QED
    BY <2>6, <2>7, <2>8
<1>11. u \in Block(Endpoints, e) /\ m \in Segment(Endpoints)
  BY <1>4, <1>10 DEF Typed, Result
<1>12. /\ v.sendInit = init /\ v.recvInit = t.recvInit
       /\ v.recvBuf = t.recvBuf
  BY <1>1 DEF TCB
<1> HIDE DEF m, v, next, r
<1>13. /\ u.state = t.state
       /\ u.sendInit = init /\ u.sendNext = next /\ u.sendUnack = init
       /\ u.sendBuf = <<>> /\ u.lastSeg = m
       /\ u.recvInit = t.recvInit /\ u.recvNext = t.recvNext
       /\ u.recvBuf = t.recvBuf
  BY <1>5, <1>12 DEF TCB
<1> HIDE DEF u
<1>14. SegmentOK(u, 0, m)
  BY <1>1, <1>2, <1>8, <1>9, <1>13 DEF SegmentOK, NotOpened, HavePayload
<1>15. Queue(<<>>, init, next, 0, u.state \notin WriteStates)
  BY <1>2 DEF Queue
<1>16. SenderOK(e, u, 0)
  <2>1. MaxBytes[e] \in Nat
    BY TcpAssumption DEF Endpoints
  <2>2. 0 <= MaxBytes[e] /\ init < next
    BY <1>2, <2>1
  <2> QED
    BY <1>13, <1>15, <2>2 DEF SenderOK, NotOpened
<1>17. SenderSide(e, u, 0)
  BY <1>8, <1>11, <1>13, <1>14, <1>16 DEF SenderSide, NotOpened
<1>18. Sends(e, 0, r)
  BY <1>8, <1>10, <1>11, <1>14, <1>17 DEF Sends, Result
<1>19. r.tcb = u /\ r.out = {m}
  BY <1>10 DEF Result
<1> QED
  BY <1>2, <1>8, <1>9, <1>13, <1>18, <1>19 DEF r

\* The block of an endpoint that has none is NoTcb, and nothing was written,
\* read or acknowledged.
LEMMA UnopenedBlock ==
    ASSUME Inductive, NEW e \in Endpoints, registry[e] = "none"
    PROVE  /\ tcb[e] = NoTcb(e) /\ written[e] = 0 /\ delivered[e] = <<>>
           /\ NotOpened(tcb[e])
           /\ tcb[e].sendNext = 0 /\ tcb[e].recvNext = 0
           /\ tcb[e].state \in WriteStates
<1>1. /\ registry[e] = "none" <=> NotOpened(tcb[e])
      /\ SenderOK(e, tcb[e], written[e])
      /\ ReceiverOK(tcb[e], tcb[Peer(e)], written[Peer(e)], delivered[e])
  BY DEF Inductive, BlockOK
<1>2. NotOpened(tcb[e]) /\ tcb[e] = NoTcb(e) /\ written[e] = 0
  BY <1>1 DEF SenderOK
<1>3. /\ tcb[e].sendNext = 0 /\ tcb[e].recvNext = 0
      /\ tcb[e].state = "NONE"
  BY <1>2 DEF NoTcb
<1>4. delivered[e] = <<>>
  BY <1>1, <1>3 DEF ReceiverOK
<1> QED
  BY <1>2, <1>3, <1>4 DEF WriteStates

\* A new block t, which knows either nothing of the peer or its SYN, sends its
\* own.
Opens(e, init, t, underWay) ==
    /\ t.sendInit = init /\ t.sendNext = init /\ t.sendUnack = init
    /\ t.sendBuf = <<>> /\ t.recvBuf = <<>>
    /\ \/ t.state = "SYN_SENT" /\ t.recvNext = 0 /\ t.recvInit = 0
       \/ /\ t.state = "SYN_RECV"
          /\ ~NotOpened(tcb[Peer(e)])
          /\ t.recvInit = tcb[Peer(e)].sendInit
          /\ t.recvNext = tcb[Peer(e)].sendInit + 1
          /\ tcb[Peer(e)].sendInit + 1 <= tcb[Peer(e)].sendNext
    /\ Effect(e, SendCtrl(t, "syn"), underWay)
    /\ registry[e] = "none" /\ registry' = [registry EXCEPT ![e] = "active"]
    /\ UNCHANGED <<written, delivered>>

LEMMA OpeningSafe ==
    ASSUME NoWrap, Inductive, TypeOK', NEW e \in Endpoints,
           NEW init \in InitSeqs[e], NEW t \in Block(Endpoints, e),
           NEW underWay \in SUBSET net, Opens(e, init, t, underWay)
    PROVE  Inductive'
<1> DEFINE r == SendCtrl(t, "syn")
           u == r.tcb
           p == Peer(e)
           q == tcb[p]
           wq == written[p]
<1>1. /\ tcb[e] = NoTcb(e) /\ written[e] = 0 /\ delivered[e] = <<>>
      /\ NotOpened(tcb[e])
      /\ tcb[e].sendNext = 0 /\ tcb[e].recvNext = 0
      /\ tcb[e].state \in WriteStates
  BY UnopenedBlock DEF Opens
<1>2. /\ Sends(e, 0, r)
      /\ u.state = t.state
      /\ u.sendInit = init /\ u.sendUnack = init
      /\ u.sendNext = init + 1
      /\ u.recvInit = t.recvInit /\ u.recvNext = t.recvNext
      /\ u.recvBuf = <<>>
  BY OpeningSends DEF Opens
<1>3. /\ tcb' = [tcb EXCEPT ![e] = u] /\ net' = underWay \cup r.out
  BY DEF Opens, Effect
<1> HIDE DEF r
<1>4. \A m \in r.out : m.src = e /\ SegmentOK(u, 0, m)
  BY <1>2 DEF Sends
<1>5. /\ u \in Block(Endpoints, e) /\ ~NotOpened(u) /\ SenderOK(e, u, 0)
      /\ u.lastSeg.src = e /\ SegmentOK(u, 0, u.lastSeg)
  BY <1>2 DEF Sends, SenderSide
<1> HIDE DEF u
<1>6. /\ p \in Endpoints /\ q \in Block(Endpoints, p) /\ wq \in Nat
      /\ init \in Nat /\ t.recvNext \in Nat /\ q.sendInit \in Nat
  <2>1. p \in Endpoints /\ q \in Block(Endpoints, p) /\ wq \in Nat
    BY EndpointsDef, TypeOKBlocks DEF Inductive
  <2>2. q.sendInit \in Nat
    BY <2>1, BlockFields
  <2> QED
    BY <2>1, <2>2, BlockFields, TcpAssumption DEF Endpoints
<1>7. Grows(tcb[e], 0, u, 0)
  BY <1>1, <1>2, <1>5, <1>6 DEF Grows
<1>8. AckedOK(u, q)
  BY <1>2, <1>6 DEF AckedOK
<1>9. ReceiverOK(u, q, wq, <<>>)
  <2>1. Len(<<>>) = 0 /\ (\A i \in 1..0 : <<>>[i] = i /\ <<>>[i] = 0 + i)
    OBVIOUS
  <2>2. CASE t.state = "SYN_SENT" /\ t.recvNext = 0 /\ t.recvInit = 0
    BY <1>2, <2>1, <2>2 DEF ReceiverOK
  <2>3. CASE /\ t.state = "SYN_RECV"
             /\ ~NotOpened(q)
             /\ t.recvInit = q.sendInit
             /\ t.recvNext = q.sendInit + 1
             /\ q.sendInit + 1 <= q.sendNext
    <3>1. /\ u.recvNext # 0 /\ u.recvNext <= q.sendNext
          /\ u.recvNext = q.sendInit + 1 + 0 + 0
          /\ 0 + 0 <= wq
      BY <1>2, <1>6, <2>3
    <3>2. u.state = "SYN_RECV" /\ u.state \notin FinStates
      BY <1>2, <2>3 DEF FinStates
    <3> HIDE DEF q
    <3> QED
      BY <1>2, <2>1, <2>3, <3>1, <3>2 DEF ReceiverOK
  <2> QED
    BY <2>2, <2>3 DEF Opens
<1>10. BlockOK(e, u, q, 0, wq, <<>>)
  BY <1>5, <1>8, <1>9 DEF BlockOK
<1>11. registry'[e] # "none" /\ registry'[p] = registry[p]
  BY <1>6, EndpointsDef DEF Opens, Inductive, TypeOK
<1>12. \A m \in net' : m \in net \/ (m.src = e /\ SegmentOK(u, 0, m))
  BY <1>3, <1>4
<1>13. UNCHANGED <<written, delivered>>
  BY DEF Opens
<1>14. /\ written'[e] = 0 /\ written'[p] = written[p]
       /\ delivered'[e] = <<>> /\ delivered'[p] = delivered[p]
       /\ registry'[e] = "none" <=> NotOpened(u)
       /\ 0 \in Nat
  BY <1>1, <1>5, <1>11, <1>13
<1>15. Grows(tcb[e], written[e], u, 0)
  BY <1>1, <1>7
<1>16. BlockOK(e, u, q, 0, wq, delivered'[e])
  BY <1>10, <1>14
<1> QED
  BY <1>3, <1>5, <1>11, <1>12, <1>14, <1>15, <1>16, OneEndMoves, ZenonT(60)

LEMMA ConnectOpens ==
    ASSUME NEW e \in Endpoints, Connect(e)
    PROVE  \E init \in InitSeqs[e] : \E t \in Block(Endpoints, e) :
              t.state = "SYN_SENT" /\ Opens(e, init, t, net)
<1>1. PICK init \in InitSeqs[e] :
          Effect(e, SendCtrl(ActiveTcb(e, init), "syn"), net)
  BY DEF Connect, Step
<1> DEFINE t == ActiveTcb(e, init)
<1>2. t \in Block(Endpoints, e)
  <2>1. init \in Nat
    BY TcpAssumption DEF Endpoints
  <2>2. NoSegment(e) \in Segment(Endpoints)
    BY DEF NoSegment, Segment
  <2> QED
    BY <2>1, <2>2, OpeningType
<1>3. /\ t.sendInit = init /\ t.sendNext = init /\ t.sendUnack = init
      /\ t.sendBuf = <<>> /\ t.recvBuf = <<>>
      /\ t.state = "SYN_SENT" /\ t.recvNext = 0 /\ t.recvInit = 0
  BY DEF ActiveTcb, NoTcb
<1> HIDE DEF t
<1>4. /\ registry[e] = "none" /\ registry' = [registry EXCEPT ![e] = "active"]
      /\ UNCHANGED <<written, delivered>>
  BY DEF Connect
<1>5. Effect(e, SendCtrl(t, "syn"), net)
  BY <1>1 DEF t
<1>6. Opens(e, init, t, net)
  BY <1>3, <1>4, <1>5 DEF Opens
<1> QED
  BY <1>2, <1>3, <1>6

LEMMA ConnectSafe ==
    ASSUME NoWrap, Inductive, TypeOK', NEW e \in Endpoints, Connect(e)
    PROVE  Inductive'
<1>1. PICK init \in InitSeqs[e], t \in Block(Endpoints, e) :
          Opens(e, init, t, net)
  BY ConnectOpens
<1> QED
  BY <1>1, OpeningSafe

LEMMA ReceiveSynOpens ==
    ASSUME NoWrap, Inductive, NEW e \in Endpoints, ReceiveSyn(e)
    PROVE  \E init \in InitSeqs[e] : \E t \in Block(Endpoints, e) :
              \E underWay \in SUBSET net : Opens(e, init, t, underWay)
<1>1. PICK m \in Arriving(e), init \in InitSeqs[e] :
          /\ IsSyn(m)
          /\ Effect(e, SendCtrl(PassiveTcb(e, init, m), "syn"), After(m))
  BY DEF ReceiveSyn
<1> DEFINE t == PassiveTcb(e, init, m)
           p == Peer(e)
           q == tcb[p]
           wq == written[p]
<1>2. Heard(m, q, wq) /\ m.syn
  BY <1>1, HeardNow DEF IsSyn
<1>3. /\ p \in Endpoints /\ q \in Block(Endpoints, p) /\ wq \in Nat
      /\ BlockOK(p, q, tcb[Peer(p)], wq, written[Peer(p)], delivered[p])
  BY EndpointsDef, TypeOKBlocks DEF Inductive
<1>4. ~NotOpened(q) /\ m.seq = q.sendInit /\ m \in Segment(Endpoints)
  BY <1>2 DEF Heard, SegmentOK
<1>5. /\ SenderSide(p, q, wq)
      /\ q.sendInit < q.sendNext
  BY <1>3, <1>4 DEF SenderSide, BlockOK, SenderOK
<1>6. q.sendInit \in Nat /\ q.sendNext \in Nat
  BY <1>3, BlockFields
<1>7. Plus(m.seq, 1) = q.sendInit + 1 /\ q.sendInit + 1 <= q.sendNext
  <2>1. q.sendInit + wq + 3 < SeqSpace
    BY <1>3, <1>5, SenderFits
  <2> HIDE DEF q, wq
  <2>2. q.sendInit + 1 < SeqSpace
    BY <1>3, <1>6, <2>1, TcbAssumption
  <2> QED
    BY <1>4, <1>5, <1>6, <2>2 DEF Plus
<1>8. t \in Block(Endpoints, e)
  <2>1. init \in Nat
    BY TcpAssumption DEF Endpoints
  <2> QED
    BY <1>4, <2>1, OpeningType
<1>9. /\ t.sendInit = init /\ t.sendNext = init /\ t.sendUnack = init
      /\ t.sendBuf = <<>> /\ t.recvBuf = <<>>
      /\ t.state = "SYN_RECV" /\ t.recvInit = m.seq
      /\ t.recvNext = Plus(m.seq, 1)
  BY DEF PassiveTcb, NoTcb
<1> HIDE DEF t
<1>10. /\ registry[e] = "none" /\ registry' = [registry EXCEPT ![e] = "active"]
       /\ UNCHANGED <<written, delivered>>
  BY DEF ReceiveSyn
<1>11. After(m) \in SUBSET net /\ Effect(e, SendCtrl(t, "syn"), After(m))
  BY <1>1 DEF t, After
<1>12. t.recvInit = q.sendInit /\ t.recvNext = q.sendInit + 1
  BY <1>4, <1>7, <1>9
<1>13. Opens(e, init, t, After(m))
  BY <1>4, <1>7, <1>9, <1>10, <1>11, <1>12 DEF Opens
<1> QED
  BY <1>8, <1>11, <1>13

LEMMA ReceiveSynSafe ==
    ASSUME NoWrap, Inductive, TypeOK', NEW e \in Endpoints, ReceiveSyn(e)
    PROVE  Inductive'
<1>1. PICK init \in InitSeqs[e], t \in Block(Endpoints, e),
           underWay \in SUBSET net : Opens(e, init, t, underWay)
  BY ReceiveSynOpens
<1> QED
  BY <1>1, OpeningSafe

\* tcp_send queues the k bytes that fit.
Accepted(t, n) == Min({n, SendCapacity - Len(t.sendBuf)})

WithBytes(t, w, k) ==
    [t EXCEPT !.sendBuf = t.sendBuf \o [i \in 1..k |-> ByteItem(w + i)]]

LEMMA BytesQueued ==
    ASSUME NEW e \in Endpoints, NEW t, NEW w, NEW q, NEW wq, NEW d,
           Sound(e, t, w, q, wq, d), t.state = "ESTABLISHED",
           NEW n \in Nat, w + n <= MaxBytes[e],
           NEW k, k = Accepted(t, n), NEW u, u = WithBytes(t, w, k)
    PROVE  /\ k \in Nat
           /\ Sound(e, u, w + k, q, wq, d) /\ Grows(t, w, u, w + k)
           /\ u.state = t.state
           /\ u.sendInit = t.sendInit /\ u.sendNext = t.sendNext
           /\ u.sendUnack = t.sendUnack /\ u.lastSeg = t.lastSeg
           /\ u.recvNext = t.recvNext /\ u.recvBuf = t.recvBuf
           /\ Len(u.sendBuf) = Len(t.sendBuf) + k
<1> DEFINE held == Len(t.sendBuf)
           room == SendCapacity - held
           items == [i \in 1..k |-> ByteItem(w + i)]
           v == w + k
           buf == t.sendBuf \o items
<1>1. /\ t \in Block(Endpoints, e) /\ t \in TCB(Endpoints) /\ t.local = e
      /\ Fits(t) /\ SenderSide(e, t, w) /\ w \in Nat /\ SenderOK(e, t, w)
  BY DEF Sound, SenderSide, Block
<1>2. t.sendBuf \in Seq(Item) /\ t.sendInit \in Nat /\ t.sendNext \in Nat
  BY <1>1, BlockFields
<1>3. held \in Nat /\ held <= SendCapacity
  BY <1>1, <1>2 DEF Fits
<1>4. MaxBytes[e] \in Nat
  BY TcpAssumption DEF Endpoints
<1>5. k = Min({n, room})
  BY DEF Accepted
<1>6. u = [t EXCEPT !.sendBuf = buf]
  BY DEF WithBytes
<1> HIDE DEF held
<1>7. room \in Nat
  BY <1>3, TcbAssumption
<1> HIDE DEF room
<1>8. k \in {n, room} /\ k <= n /\ k <= room
  BY <1>5, <1>7, MinOfNat
<1>9. k \in Nat
  BY <1>7, <1>8
<1>10. /\ items \in Seq(Item) /\ Len(items) = k
       /\ \A i \in 1..k : items[i] = ByteItem(w + i)
  <2>1. \A i \in 1..k : ByteItem(w + i) \in Item
    BY <1>1, <1>9 DEF ByteItem, Item
  <2> QED
    BY <1>9, <2>1
<1> HIDE DEF items
<1>11. Queue(buf, t.sendInit, t.sendNext, v, FALSE)
  <2>1. Queue(t.sendBuf, t.sendInit, t.sendNext, w, FALSE)
    BY <1>1 DEF SenderOK, NotOpened, Queue, WriteStates
  <2> QED
    BY <1>1, <1>2, <1>9, <1>10, <2>1, QueueBytes
<1>12. buf \in Seq(Item) /\ Len(buf) = held + k
  <2>1. t.sendBuf \in Seq(Item) /\ items \in Seq(Item)
    BY <1>2, <1>10
  <2>2. buf \in Seq(Item)
    BY <2>1
  <2>3. Len(buf) = Len(t.sendBuf) + Len(items)
    BY <2>1
  <2> QED
    BY <1>10, <2>2, <2>3 DEF held
<1>13. held + k <= SendCapacity
  <2>1. k <= SendCapacity - held
    BY <1>8 DEF room
  <2>2. SendCapacity \in Nat
    BY TcbAssumption
  <2> QED
    BY <1>3, <1>9, <2>1, <2>2
<1>14. v \in Nat /\ w <= v /\ v <= MaxBytes[e]
  BY <1>1, <1>4, <1>8, <1>9
<1> HIDE DEF buf, v
<1>15. /\ u.state = t.state
       /\ u.sendInit = t.sendInit /\ u.sendNext = t.sendNext
       /\ u.sendUnack = t.sendUnack /\ u.sendBuf = buf
       /\ u.lastSeg = t.lastSeg
       /\ u.recvInit = t.recvInit /\ u.recvNext = t.recvNext
       /\ u.recvBuf = t.recvBuf /\ u.local = e
       /\ u.retransCount = t.retransCount
       /\ u \in TCB(Endpoints)
  BY <1>1, <1>6, <1>12 DEF TCB
<1>16. u \in Block(Endpoints, e)
  BY <1>1, <1>12, <1>13, <1>15 DEF Block, Fits
<1>17. Queue(u.sendBuf, t.sendInit, t.sendNext, v, u.state \notin WriteStates)
  BY <1>11, <1>15, QueueEnded
<1>18. Sound(e, u, v, q, wq, d) /\ Grows(t, w, u, v)
  BY <1>14, <1>15, <1>16, <1>17, QueuedSound DEF WriteStates
<1>19. Len(u.sendBuf) = Len(t.sendBuf) + k
  BY <1>12, <1>15 DEF held
<1> QED
  BY <1>9, <1>15, <1>18, <1>19 DEF v

\* The step of tcp_send.
LEMMA WriteEffect ==
    ASSUME NEW e \in Endpoints, NEW n \in 1..MaxBytes[e], Write(e, n)
    PROVE  LET k == Accepted(tcb[e], n)
               r == MakeSureSendback(WithBytes(tcb[e], written[e], k))
           IN  /\ tcb[e].state = "ESTABLISHED" /\ registry[e] = "active"
               /\ n \in Nat /\ written[e] + n <= MaxBytes[e]
               /\ Effect(e, r, net)
               /\ written' = [written EXCEPT ![e] = written[e] + k]
               /\ UNCHANGED <<registry, delivered>>
  BY DEF Write, Step, PushAndSend, Accepted, WithBytes

\* The step keeps the invariant.
LEMMA WriteSafe ==
    ASSUME NoWrap, Inductive, TypeOK', NEW e \in Endpoints,
           NEW n \in 1..MaxBytes[e], Write(e, n)
    PROVE  Inductive'
<1> DEFINE t == tcb[e]
           w == written[e]
           p == Peer(e)
           q == tcb[p]
           wq == written[p]
           d == delivered[e]
           k == Accepted(t, n)
           v == w + k
           u == WithBytes(t, w, k)
           r == MakeSureSendback(u)
<1>1. /\ t.state = "ESTABLISHED" /\ registry[e] = "active"
      /\ n \in Nat /\ w + n <= MaxBytes[e]
      /\ Effect(e, r, net) /\ written' = [written EXCEPT ![e] = v]
      /\ UNCHANGED <<registry, delivered>>
  BY WriteEffect
<1>2. Sound(e, t, w, q, wq, d)
  BY <1>1, SoundNow
<1>3. t \in Block(Endpoints, e) /\ w \in Nat
  BY <1>2 DEF Sound, SenderSide
<1> HIDE DEF t, w
<1>4. /\ k \in Nat /\ Sound(e, u, v, q, wq, d) /\ Grows(t, w, u, v)
      /\ u.state = t.state
  BY <1>1, <1>2, BytesQueued
<1>5. v \in Nat /\ w <= v /\ u \in Block(Endpoints, e)
  BY <1>3, <1>4 DEF Sound, SenderSide
<1> HIDE DEF k, v, u
<1>6. Safe(e, u, v, q, wq, d, r)
  BY <1>1, <1>4, AnswerSafe
<1> HIDE DEF r
<1> DEFINE z == r.tcb
<1>7. /\ SenderSide(e, z, v) /\ Grows(u, v, z, v)
      /\ \A m \in r.out : m.src = e /\ SegmentOK(z, v, m)
      /\ ReceiverOK(z, q, wq, d) /\ AckedOK(z, q)
  BY <1>6 DEF Safe, Sends
<1>8. tcb' = [tcb EXCEPT ![e] = z] /\ net' = net \cup r.out
  BY <1>1 DEF Effect
<1> HIDE DEF z
<1>9. /\ z \in Block(Endpoints, e) /\ ~NotOpened(z) /\ SenderOK(e, z, v)
      /\ z.lastSeg.src = e /\ SegmentOK(z, v, z.lastSeg)
  BY <1>7 DEF SenderSide
<1>10. Grows(t, w, z, v)
  BY <1>3, <1>4, <1>5, <1>7, <1>9, GrowsChain
<1>11. BlockOK(e, z, q, v, wq, d)
  BY <1>7, <1>9 DEF BlockOK
<1>12. /\ written'[e] = v /\ written'[p] = wq /\ delivered'[p] = delivered[p]
       /\ delivered'[e] = d
       /\ registry'[e] # "none" /\ registry'[p] = registry[p]
  BY <1>1, EndpointsDef DEF Inductive, TypeOK
<1> QED
  BY <1>5, <1>7, <1>8, <1>9, <1>10, <1>11, <1>12, OneEndMoves DEF t, w

\* Read moves bytes from the buffer to the application.
LEMMA ReadSafe ==
    ASSUME Inductive, TypeOK', NEW e \in Endpoints, NEW n \in 1..RecvCapacity,
           Read(e, n)
    PROVE  Inductive'
<1> DEFINE t == tcb[e]
           w == written[e]
           p == Peer(e)
           q == tcb[p]
           wq == written[p]
           d == delivered[e]
           buf == t.recvBuf
           taken == Min({n, Len(buf)})
           rest == SubSeq(buf, taken + 1, Len(buf))
           more == SubSeq(buf, 1, taken)
           u == [t EXCEPT !.recvBuf = rest]
           c == d \o more
<1>1. registry[e] # "none" /\ ~NotOpened(t)
  BY DEF Read, Inductive
<1>2. Sound(e, t, w, q, wq, d)
  BY <1>1, SoundNow DEF NotOpened
<1>3. /\ t \in Block(Endpoints, e) /\ t \in TCB(Endpoints)
      /\ SenderSide(e, t, w) /\ w \in Nat /\ d \in Seq(Nat)
      /\ ReceiverOK(t, q, wq, d) /\ AckedOK(t, q)
  BY <1>2 DEF Sound, SenderSide, Block
<1>4. buf \in Seq(Nat) /\ Len(buf) \in Nat /\ n \in Nat
  BY <1>3, BlockFields, TcbAssumption
<1>5. taken \in Nat /\ taken <= Len(buf)
  BY <1>4, MinOfNat
<1>6. tcb' = [tcb EXCEPT ![e] = u]
  BY <1>3 DEF Read, Inductive, TypeOK
<1>7. /\ delivered' = [delivered EXCEPT ![e] = c]
      /\ UNCHANGED <<registry, net, written>>
  BY DEF Read
<1> HIDE DEF taken
<1>8. /\ rest \in Seq(Nat) /\ Len(rest) = Len(buf) - taken
      /\ \A i \in 1..(Len(buf) - taken) : rest[i] = buf[taken + i]
  <2> HIDE DEF buf
  <2> QED
    BY <1>4, <1>5, SubSeqProperties
<1>9. /\ more \in Seq(Nat) /\ Len(more) = taken
      /\ \A i \in 1..taken : more[i] = buf[i]
  <2> HIDE DEF buf
  <2> QED
    BY <1>4, <1>5, SubSeqProperties
<1>10. /\ c \in Seq(Nat) /\ Len(c) = Len(d) + taken
       /\ \A i \in 1..Len(d) : c[i] = d[i]
       /\ \A i \in 1..taken : c[Len(d) + i] = more[i]
  <2>1. d \in Seq(Nat) /\ more \in Seq(Nat) /\ Len(more) = taken
    BY <1>3, <1>9
  <2> HIDE DEF d, more
  <2> QED
    BY <2>1, Concatenation
<1>11. tcb'[e] = u
  BY <1>6 DEF Inductive, TypeOK
<1>12. u \in Block(Endpoints, e)
  <2>1. TypeOK' => tcb'[e] \in Block(Endpoints, e)
    BY DEF TypeOK, Block, Fits
  <2> QED
    BY <1>11, <2>1
<1> HIDE DEF rest, more, c
<1>13. /\ u.state = t.state
       /\ u.sendInit = t.sendInit /\ u.sendNext = t.sendNext
       /\ u.sendUnack = t.sendUnack
       /\ u.sendBuf = t.sendBuf /\ u.lastSeg = t.lastSeg
       /\ u.recvInit = t.recvInit /\ u.recvNext = t.recvNext
       /\ u.recvBuf = rest
  BY <1>3 DEF TCB
<1> HIDE DEF u
<1>14. SenderSide(e, u, w) /\ Grows(t, w, u, w)
  <2>1. t.recvNext <= u.recvNext /\ u.state # "NONE"
    BY <1>1, <1>3, <1>13, BlockFields DEF NotOpened
  <2> HIDE DEF t, w
  <2> QED
    BY <1>3, <1>12, <1>13, <2>1, SenderFrame
<1>15. ReceiverOK(u, q, wq, c)
  <2> DEFINE x == Len(d)
             y == Len(buf)
             k == Len(c)
             l == Len(rest)
  <2>1. /\ x \in Nat /\ y \in Nat /\ k = x + taken /\ l = y - taken
        /\ k + l = x + y
    <3>1. x \in Nat /\ y \in Nat /\ k = x + taken /\ l = y - taken
      BY <1>3, <1>4, <1>8, <1>10
    <3> HIDE DEF x, y, k, l
    <3> QED
      BY <1>5, <3>1
  <2>2. /\ \A i \in 1..x : d[i] = i
        /\ \A i \in 1..y : buf[i] = x + i
    BY <1>3 DEF ReceiverOK
  <2>3. /\ \A i \in 1..x : c[i] = d[i]
        /\ \A i \in 1..taken : c[x + i] = more[i]
    BY <1>10
  <2>4. \A i \in 1..(y - taken) : rest[i] = buf[taken + i]
    BY <1>8
  <2>5. taken <= y
    BY <1>5
  <2> HIDE DEF x, y, k, l, buf, d
  <2>6. \A i \in 1..k : c[i] = i
    <3> SUFFICES ASSUME NEW i \in 1..k
                 PROVE  c[i] = i
      OBVIOUS
    <3>1. CASE i <= x
      BY <1>5, <2>1, <2>2, <2>3, <3>1
    <3>2. CASE i > x
      <4> DEFINE j == i - x
      <4>1. j \in 1..taken /\ j \in 1..y /\ i = x + j
        BY <1>5, <2>1, <2>5, <3>2
      <4> HIDE DEF j
      <4>2. c[i] = buf[j]
        BY <1>9, <2>3, <4>1
      <4> QED
        BY <2>2, <4>1, <4>2
    <3> QED
      BY <2>1, <3>1, <3>2
  <2>7. \A i \in 1..l : rest[i] = k + i
    <3> SUFFICES ASSUME NEW i \in 1..l
                 PROVE  rest[i] = k + i
      OBVIOUS
    <3>1. /\ i \in 1..(y - taken) /\ taken + i \in 1..y
          /\ x + (taken + i) = k + i
      BY <1>5, <2>1, <2>5
    <3> QED
      BY <2>2, <2>4, <3>1
  <2>8. CASE t.recvNext = 0
    <3>1. /\ u.state \in {"NONE", "SYN_SENT", "CLOSE"}
          /\ u.recvInit = 0 /\ d = <<>> /\ buf = <<>>
      BY <1>3, <1>13, <2>8 DEF ReceiverOK, d, buf
    <3>2. x = 0 /\ y = 0
      BY <3>1 DEF x, y
    <3>3. k = 0 /\ l = 0
      BY <1>5, <2>1, <2>5, <3>2
    <3>4. c = <<>> /\ rest = <<>>
      BY <1>8, <1>10, <3>3 DEF k, l
    <3> QED
      BY <1>13, <2>8, <3>1, <3>4 DEF ReceiverOK
  <2>9. CASE t.recvNext # 0
    <3>1. /\ t.state \notin {"NONE", "SYN_SENT"}
          /\ ~NotOpened(q)
          /\ t.recvInit = q.sendInit
          /\ t.recvNext <= q.sendNext
          /\ x + y <= wq
          /\ \/ /\ t.recvNext = q.sendInit + 1 + x + y
                /\ t.state \notin FinStates
             \/ /\ t.recvNext = q.sendInit + 2 + wq
                /\ x + y = wq
                /\ q.state \notin WriteStates
                /\ t.state \in FinStates \cup {"CLOSE"}
      BY <1>3, <2>9 DEF ReceiverOK, x, y, d, buf
    <3>2. q.sendInit + 1 + k + l = q.sendInit + 1 + x + y
      <4>1. q.sendInit \in Nat
        BY <1>2, EndpointsDef, BlockFields DEF Sound
      <4> QED
        BY <1>5, <2>1, <2>5, <4>1
    <3> QED
      BY <1>13, <2>1, <2>6, <2>7, <2>9, <3>1, <3>2 DEF ReceiverOK, k, l
  <2> QED
    BY <2>8, <2>9
<1>16. AckedOK(u, q)
  BY <1>3, <1>13 DEF AckedOK
<1>17. BlockOK(e, u, q, w, wq, c)
  BY <1>14, <1>15, <1>16 DEF BlockOK, SenderSide
<1>18. /\ written'[e] = w /\ written'[p] = wq /\ delivered'[p] = delivered[p]
       /\ delivered'[e] = c
       /\ registry'[e] # "none" /\ ~NotOpened(u) /\ registry'[p] = registry[p]
  BY <1>1, <1>7, <1>13, EndpointsDef DEF Inductive, TypeOK, NotOpened
<1> HIDE DEF w
<1> QED
  BY <1>3, <1>6, <1>7, <1>12, <1>14, <1>17, <1>18, OneEndMoves DEF w

\* A call or an expiry whose result is safe.
LEMMA CloseSafe ==
    ASSUME NoWrap, Inductive, TypeOK', NEW e \in Endpoints, Close(e)
    PROVE  Inductive'
<1> DEFINE r == CloseTcb(tcb[e])
<1>1. registry[e] # "none" /\ tcb[e].state # "NONE"
  BY DEF Close, Inductive, NotOpened
<1>2. Safe(e, tcb[e], written[e], tcb[Peer(e)], written[Peer(e)],
           delivered[e], r)
  BY <1>1, SoundNow, CloseTcbSafe
<1>3. registry'[e] # "none" /\ registry'[Peer(e)] = registry[Peer(e)]
  BY EndpointsDef DEF Close, Inductive, TypeOK
<1>4. Effect(e, r, net) /\ UNCHANGED <<written, delivered>> /\ net \in SUBSET net
  BY DEF Close, Step
<1> HIDE DEF r
<1> QED
  BY <1>2, <1>3, <1>4, SafeStep

LEMMA TimerSafe ==
    ASSUME NoWrap, Inductive, TypeOK', NEW e \in Endpoints, Timer(e)
    PROVE  Inductive'
<1>1. CASE Timeout(e)
  <2> DEFINE r == Retransmit(tcb[e])
  <2>1. tcb[e].state \notin {"NONE", "CLOSE"}
    BY <1>1 DEF Timeout, TimedOut
  <2>2. Safe(e, tcb[e], written[e], tcb[Peer(e)], written[Peer(e)],
             delivered[e], r)
    BY <2>1, SoundNow, RetransmitSafe
  <2>3. registry'[e] # "none" /\ registry'[Peer(e)] = registry[Peer(e)]
    BY <1>1, <2>1 DEF Timeout, Inductive, NotOpened
  <2>4. Effect(e, r, net) /\ UNCHANGED <<written, delivered>> /\ net \in SUBSET net
    BY <1>1 DEF Timeout, Step
  <2> HIDE DEF r
  <2> QED
    BY <2>2, <2>3, <2>4, SafeStep
<1>2. CASE TimeWaitExpire(e)
  <2> DEFINE c == [tcb[e] EXCEPT !.state = "CLOSE"]
             w == written[e]
             q == tcb[Peer(e)]
             wq == written[Peer(e)]
             d == delivered[e]
  <2>1. tcb[e].state = "TIME_WAIT"
    BY <1>2 DEF TimeWaitExpire
  <2>2. Sound(e, tcb[e], w, q, wq, d)
    BY <2>1, SoundNow
  <2>3. Effect(e, Silent(c), net)
    BY <1>2 DEF TimeWaitExpire, Effect, Silent, Result, Inductive, TypeOK
  <2>4. registry'[e] # "none" /\ registry'[Peer(e)] = registry[Peer(e)]
        /\ UNCHANGED <<written, delivered>> /\ net \in SUBSET net
    BY <1>2, <2>1 DEF TimeWaitExpire, Inductive, NotOpened
  <2>5. Safe(e, tcb[e], w, q, wq, d, Silent(c))
    <3> HIDE DEF w, q, wq, d
    <3>1. Sound(e, c, w, q, wq, d) /\ Grows(tcb[e], w, c, w)
      BY <2>1, <2>2, StateSound DEF States, WriteStates
    <3> HIDE DEF c
    <3> QED
      BY <2>2, <3>1, SilentSafe, SafeOn DEF Sound, SenderSide
  <2> QED
    BY <2>3, <2>4, <2>5, SafeStep
<1> QED
  BY <1>1, <1>2 DEF Timer

LEMMA ReceiveOutOfOrderSafe ==
    ASSUME NoWrap, Inductive, TypeOK', NEW e \in Endpoints, ReceiveOutOfOrder(e)
    PROVE  Inductive'
<1>1. PICK m \in Arriving(e) :
          /\ Reaches(m, e)
          /\ Effect(e, OnOutOfOrder(tcb[e], m), After(m))
          /\ UNCHANGED <<registry, losses, written, delivered>>
  BY DEF ReceiveOutOfOrder
<1>2. tcb[e].state \notin {"NONE", "CLOSE"} /\ registry[e] # "none"
  BY <1>1, ReachedBlock
<1>3. Safe(e, tcb[e], written[e], tcb[Peer(e)], written[Peer(e)],
           delivered[e], OnOutOfOrder(tcb[e], m))
  BY <1>2, SoundNow, HeardNow, OnOutOfOrderSafe
<1>4. After(m) \in SUBSET net /\ registry'[e] # "none"
      /\ registry'[Peer(e)] = registry[Peer(e)]
  BY <1>1, <1>2 DEF After
<1> QED
  BY <1>1, <1>3, <1>4, SafeStep

\* The network forgets.
LEMMA NetShrinks ==
    ASSUME Inductive, TypeOK', net' \in SUBSET net,
           UNCHANGED <<tcb, registry, written, delivered>>
    PROVE  Inductive'
  BY DEF Inductive

LEMMA InitSafe == Init => Inductive
<1> SUFFICES ASSUME Init
             PROVE  Inductive
  OBVIOUS
<1>1. TypeOK
  BY InitTyped
<1>2. ASSUME NEW e \in Endpoints
      PROVE  /\ tcb[e] = NoTcb(e) /\ tcb[Peer(e)] = NoTcb(Peer(e))
             /\ written[e] = 0 /\ delivered[e] = <<>> /\ registry[e] = "none"
  BY EndpointsDef DEF Init
<1>3. ASSUME NEW e \in Endpoints
      PROVE  BlockOK(e, NoTcb(e), NoTcb(Peer(e)), 0, 0, <<>>)
  <2> DEFINE t == NoTcb(e)
  <2>1. /\ t.state = "NONE" /\ t.recvNext = 0 /\ t.recvBuf = <<>>
        /\ t.recvInit = 0
    BY DEF NoTcb
  <2> HIDE DEF t
  <2>2. Len(<<>>) = 0 /\ (\A i \in 1..0 : <<>>[i] = i /\ <<>>[i] = 0 + i)
    OBVIOUS
  <2>3. SenderOK(e, t, 0)
    BY <2>1 DEF SenderOK, NotOpened, t
  <2>4. ReceiverOK(t, NoTcb(Peer(e)), 0, <<>>)
    BY <2>1, <2>2 DEF ReceiverOK
  <2>5. AckedOK(t, NoTcb(Peer(e))) /\ NotOpened(t)
    BY <2>1 DEF AckedOK, NotOpened
  <2> QED
    BY <2>3, <2>4, <2>5 DEF BlockOK, t
<1>4. \A e \in Endpoints : NotOpened(tcb[e])
  <2>1. \A e : NoTcb(e).state = "NONE"
    BY DEF NoTcb
  <2> QED
    BY <1>2, <2>1 DEF NotOpened
<1>5. net = {}
  BY DEF Init
<1>6. \A e \in Endpoints : written[Peer(e)] = 0
  BY <1>2, EndpointsDef
<1> QED
  BY <1>1, <1>2, <1>3, <1>4, <1>5, <1>6 DEF Inductive

LEMMA NextSafe ==
    ASSUME NoWrap, Inductive, [Next]_vars
    PROVE  Inductive'
<1>1. TypeOK'
  BY NextTyped DEF Inductive
<1>2. ASSUME NEW e \in Endpoints, Receive(e)
      PROVE  Inductive'
  <2>1. CASE ReceiveSyn(e)
    BY <1>1, <2>1, ReceiveSynSafe
  <2>2. CASE Discard(e)
    BY <1>1, <2>2, NetShrinks DEF Discard, After
  <2>3. CASE ReceiveOutOfOrder(e)
    BY <1>1, <2>3, ReceiveOutOfOrderSafe
  <2>4. CASE \/ ReceiveSynRecv(e) \/ ReceiveSynSent(e) \/ ReceiveEstablished(e)
             \/ ReceiveFinWait1(e) \/ ReceiveFinWait2(e) \/ ReceiveCloseWait(e)
             \/ ReceiveClosing(e) \/ ReceiveLastAck(e) \/ ReceiveTimeWait(e)
    BY <1>1, <2>4, ReceiveSafe
       DEF ReceiveSynRecv, ReceiveSynSent, ReceiveEstablished, ReceiveFinWait1,
           ReceiveFinWait2, ReceiveCloseWait, ReceiveClosing, ReceiveLastAck,
           ReceiveTimeWait
  <2> QED
    BY <1>2, <2>1, <2>2, <2>3, <2>4 DEF Receive
<1>3. ASSUME NEW e \in Endpoints, User(e)
      PROVE  Inductive'
  BY <1>1, <1>3, ConnectSafe, WriteSafe, ReadSafe, CloseSafe DEF User
<1>4. ASSUME NEW e \in Endpoints, Timer(e)
      PROVE  Inductive'
  BY <1>1, <1>4, TimerSafe
<1>5. CASE Lose
  BY <1>1, <1>5, NetShrinks DEF Lose
<1>6. CASE UNCHANGED vars
  BY <1>1, <1>6, NetShrinks DEF vars
<1> QED
  BY <1>2, <1>3, <1>4, <1>5, <1>6 DEF Next

-----------------------------------------------------------------------------
(* The theorems.                                                           *)

\* What each end has sent, queued, taken and believes fits what the other has,
\* in every reachable state, for every size of buffers and segments and every
\* behaviour of the network, as long as the sequence numbers do not wrap.
THEOREM InductiveHolds ==
    ASSUME NoWrap
    PROVE  Spec => []Inductive
<1>1. Init => Inductive
  BY InitSafe
<1>2. Inductive /\ [Next]_vars => Inductive'
  BY NextSafe
<1> QED
  BY <1>1, <1>2, PTL DEF Spec

LEMMA DeliveredInOrder == Inductive => InOrderDelivery
<1> SUFFICES ASSUME Inductive, NEW e \in Endpoints
             PROVE  /\ Len(Received(e)) <= written[Peer(e)]
                    /\ \A i \in 1..Len(Received(e)) : Received(e)[i] = i
  BY DEF InOrderDelivery
<1> DEFINE d == delivered[e]
           b == tcb[e].recvBuf
           x == Len(d)
           y == Len(b)
<1>1. /\ d \in Seq(Nat) /\ b \in Seq(Nat) /\ written[Peer(e)] \in Nat
      /\ ReceiverOK(tcb[e], tcb[Peer(e)], written[Peer(e)], d)
  BY EndpointsDef, TypeOKBlocks, BlockFields DEF Inductive, BlockOK
<1>2. /\ \A i \in 1..x : d[i] = i
      /\ \A i \in 1..y : b[i] = x + i
      /\ (d = <<>> /\ b = <<>>) \/ x + y <= written[Peer(e)]
  BY <1>1 DEF ReceiverOK
<1> DEFINE c == d \o b
<1>3. Received(e) = c
  BY DEF Received
<1> HIDE DEF d, b
<1>4. /\ Len(c) = x + y
      /\ \A i \in 1..x : c[i] = d[i]
      /\ \A i \in 1..y : c[x + i] = b[i]
  BY <1>1, Concatenation
<1>5. x \in Nat /\ y \in Nat /\ (x + y <= written[Peer(e)])
  <2>1. x \in Nat /\ y \in Nat
    BY <1>1
  <2>2. d = <<>> /\ b = <<>> => x = 0 /\ y = 0
    OBVIOUS
  <2> HIDE DEF x, y
  <2> QED
    BY <1>1, <1>2, <2>1, <2>2
<1> HIDE DEF x, y, c
<1>6. \A i \in 1..(x + y) : c[i] = i
  <2> SUFFICES ASSUME NEW i \in 1..(x + y)
               PROVE  c[i] = i
    OBVIOUS
  <2>1. CASE i <= x
    BY <1>2, <1>4, <1>5, <2>1
  <2>2. CASE i > x
    <3> DEFINE j == i - x
    <3>1. j \in 1..y /\ i = x + j
      BY <1>5, <2>2
    <3> HIDE DEF j
    <3> QED
      BY <1>2, <1>4, <3>1
  <2> QED
    BY <1>5, <2>1, <2>2
<1> QED
  BY <1>3, <1>4, <1>5, <1>6

\* The bytes an application reads are the bytes its peer wrote, in order and
\* once each, whatever the network and the timers do.
THEOREM DeliveryHolds ==
    ASSUME NoWrap
    PROVE  Spec => []InOrderDelivery
<1>1. Spec => []Inductive
  BY InductiveHolds
<1> QED
  BY <1>1, DeliveredInOrder, PTL

\* What a sender takes to be acknowledged has been received by its peer, also
\* when ack_seq comes from a segment that is then dropped.
THEOREM AcknowledgementsHold ==
    ASSUME NoWrap
    PROVE  Spec => []AckMeansReceived
<1>1. Inductive => AckMeansReceived
  BY DEF Inductive, BlockOK, AckedOK, AckMeansReceived, Open
<1>2. Spec => []Inductive
  BY InductiveHolds
<1> QED
  BY <1>1, <1>2, PTL

\* An end whose handshake is complete agrees with its peer on where the peer's
\* numbers start.
THEOREM HandshakeHolds ==
    ASSUME NoWrap
    PROVE  Spec => []HandshakeAgreement
<1>1. Inductive => HandshakeAgreement
  BY DEF Inductive, BlockOK, ReceiverOK, HandshakeAgreement, Open
<1>2. Spec => []Inductive
  BY InductiveHolds
<1> QED
  BY <1>1, <1>2, PTL

\* The peer's FIN is only taken after every byte its application wrote.
THEOREM EndOfFileHolds ==
    ASSUME NoWrap
    PROVE  Spec => []FinAfterAllBytes
<1>1. ASSUME Inductive, NEW e \in Endpoints, FinTaken(e)
      PROVE  Len(Received(e)) = written[Peer(e)]
  <2> DEFINE d == delivered[e]
             b == tcb[e].recvBuf
  <2>1. /\ d \in Seq(Nat) /\ b \in Seq(Nat)
        /\ ReceiverOK(tcb[e], tcb[Peer(e)], written[Peer(e)], d)
    BY <1>1, EndpointsDef, TypeOKBlocks, BlockFields DEF Inductive, BlockOK
  <2>2. Len(d) + Len(b) = written[Peer(e)]
    BY <1>1, <2>1 DEF ReceiverOK, FinTaken, FinStates
  <2>3. Received(e) = d \o b
    BY DEF Received
  <2> HIDE DEF d, b
  <2> QED
    BY <2>1, <2>2, <2>3, Concatenation
<1>2. Inductive => FinAfterAllBytes
  BY <1>1 DEF FinAfterAllBytes
<1>3. Spec => []Inductive
  BY InductiveHolds
<1> QED
  BY <1>2, <1>3, PTL

=============================================================================
