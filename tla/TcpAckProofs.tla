---------------------------- MODULE TcpAckProofs ----------------------------
(***************************************************************************)
(* What an end may conclude from acknowledgements: that only its last      *)
(* segment is outstanding, and that its peer has taken its FIN; and what   *)
(* the socket layer may conclude of a block: it takes no step but those of *)
(* module TcbStates.                                                       *)
(***************************************************************************)
EXTENDS TcpSafetyProofs

-----------------------------------------------------------------------------
(* Sending.                                                                *)

\* Block t has become u without sending anything new ...
SameSent(t, u) ==
    /\ u.sendNext = t.sendNext
    /\ u.lastSeg.seq = t.lastSeg.seq
    /\ SegLen(u.lastSeg) = SegLen(t.lastSeg)

\* ... or has sent the next segment, with everything before it acknowledged.
NextSent(t, u) ==
    /\ u.lastSeg.seq = t.sendNext
    /\ u.sendNext = t.sendNext + SegLen(u.lastSeg)
    /\ u.sendUnack = t.sendNext
    /\ u.state # "CLOSE"

\* The segments of a result acknowledge what its block has, and have nothing to
\* say or repeat its last segment.
Speaks(r) ==
    \A m \in r.out :
        /\ m.ackSeq = r.tcb.recvNext
        /\ SegLen(m) # 0 => /\ m.seq = r.tcb.lastSeg.seq
                            /\ SegLen(m) = SegLen(r.tcb.lastSeg)
        /\ r.tcb.state # "CLOSE"

\* A result of handing block p to _tcp_make_sure_sendback.
Emits(p, r) ==
    /\ SameSent(p, r.tcb) \/ NextSent(p, r.tcb)
    /\ Speaks(r)
    /\ r.tcb.sendBuf = <<>> \/ WaitingForAck(r.tcb)
    /\ r.tcb.sendNext + Len(r.tcb.sendBuf) = p.sendNext + Len(p.sendBuf)

LEMMA SendbackEmits ==
    ASSUME NoWrap, NEW e \in Endpoints, NEW p, NEW w, SenderSide(e, p, w),
           p.sendUnack <= p.sendNext, p.state # "CLOSE"
    PROVE  Emits(p, MakeSureSendback(p))
<1>1. /\ p \in Block(Endpoints, e) /\ p \in TCB(Endpoints) /\ w \in Nat
      /\ p.sendBuf \in Seq(Item) /\ Len(p.sendBuf) \in Nat
      /\ p.sendNext \in Nat /\ p.sendUnack \in Nat /\ p.sendInit \in Nat
  BY BlockFields DEF SenderSide
<1>2. CASE WaitingForAck(p)
  <2>1. MakeSureSendback(p) = Silent(p)
    BY <1>2 DEF MakeSureSendback
  <2> QED
    BY <1>2, <2>1 DEF Emits, SameSent, Speaks, Silent, Result
<1>3. CASE ~WaitingForAck(p) /\ p.sendBuf = <<>>
  <2> DEFINE m == PureAck(p)
  <2>1. MakeSureSendback(p) = Result(p, {m})
    BY <1>3 DEF MakeSureSendback, SendSegment
  <2>2. m.ackSeq = p.recvNext /\ m.data = <<>> /\ ~m.syn /\ ~m.fin
    BY DEF PureAck
  <2>3. SegLen(m) = 0
    BY <2>2 DEF SegLen, Flag
  <2> HIDE DEF m
  <2> QED
    BY <1>3, <2>1, <2>2, <2>3 DEF Emits, SameSent, Speaks, Result
<1>4. CASE ~WaitingForAck(p) /\ p.sendBuf # <<>>
  <2> DEFINE m == NextSegment(p)
             l == SegLen(m)
             n == Len(p.sendBuf)
             next == Plus(p.sendNext, l)
             rest == SubSeq(p.sendBuf, l + 1, n)
             u == [p EXCEPT !.sendNext = next, !.sendBuf = rest,
                            !.lastSeg = m, !.retransCount = 0]
  <2>1. m \in Segment(Endpoints) /\ l \in 1..n
    BY <1>1, <1>4, NextSegmentType
  <2>2. m.seq = p.sendNext /\ m.ackSeq = p.recvNext
    BY DEF NextSegment
  <2>3. MakeSureSendback(p) = Result(u, {m})
    BY <1>4 DEF MakeSureSendback, SendSegment
  <2>4. p.sendUnack = p.sendNext
    BY <1>1, <1>4 DEF WaitingForAck
  <2>5. p.sendNext + n <= p.sendInit + w + 2 /\ p.sendInit + w + 3 < SeqSpace
    BY SenderFits
  <2> HIDE DEF m, l, next, rest
  <2>6. /\ u.state = p.state /\ u.sendUnack = p.sendUnack
        /\ u.recvNext = p.recvNext
        /\ u.sendNext = next /\ u.sendBuf = rest /\ u.lastSeg = m
    BY <1>1 DEF TCB
  <2> HIDE DEF u
  <2>7. l \in Nat /\ l >= 1 /\ l <= n
    BY <1>1, <2>1
  <2>8. Len(rest) = n - l
    BY <1>1, <2>7, SubSeqProperties DEF rest
  <2> HIDE DEF n
  <2>9. p.sendNext + l < SeqSpace
    <3>1. p.sendNext \in Nat /\ p.sendInit \in Nat /\ w \in Nat /\ n \in Nat
      BY <1>1 DEF n
    <3> QED
      BY <2>5, <2>7, <3>1, TcbAssumption, SMTT(30)
  <2>10. next = p.sendNext + l
    BY <2>9 DEF Plus, next
  <2>11. next + Len(rest) = p.sendNext + n /\ p.sendNext < next
    BY <1>1, <2>7, <2>8, <2>10 DEF n
  <2>12. NextSent(p, u)
    BY <2>2, <2>4, <2>6, <2>10 DEF NextSent, l
  <2>13. WaitingForAck(u)
    BY <2>4, <2>6, <2>11 DEF WaitingForAck
  <2>14. Speaks(Result(u, {m}))
    BY <2>2, <2>6 DEF Speaks, Result
  <2> QED
    BY <2>3, <2>6, <2>11, <2>12, <2>13, <2>14 DEF Emits, Result, n
<1> QED
  BY <1>2, <1>3, <1>4

-----------------------------------------------------------------------------
(* One end moves.                                                          *)

\* A result of a step of block t, with its peer's block q.
Goes(t, q, wq, r) ==
    /\ r.tcb.recvNext \in {t.recvNext, q.sendNext}
    /\ t.state \notin WriteStates =>
          r.tcb.recvNext \in {t.recvNext, q.sendInit + 2 + wq}
    /\ r.tcb.state = "CLOSE" \/ r.tcb.sendUnack \in {t.sendUnack, t.sendNext}
    /\ t.state = "CLOSE" => r.tcb.state = "CLOSE"
    /\ SameSent(t, r.tcb) \/ NextSent(t, r.tcb)
    /\ Speaks(r)

\* What the invariant says of an open block t and its peer's block q.
Near(e, t, w, q, wq) ==
    /\ t \in Block(Endpoints, e) /\ w \in Nat /\ ~NotOpened(t)
    /\ q \in Block(Endpoints, Peer(e)) /\ wq \in Nat
    /\ t.sendInit < t.sendNext
    /\ t.sendInit <= t.lastSeg.seq
    /\ q.recvNext # 0 => t.sendInit < q.recvNext
    /\ q.recvNext <= t.sendNext
    /\ t.state # "CLOSE" => /\ t.sendInit <= t.sendUnack
                            /\ t.sendUnack <= t.sendNext
                            /\ t.sendUnack > t.sendInit => t.sendUnack <= q.recvNext
    /\ t.recvNext = 0 => t.state \in {"SYN_SENT", "CLOSE"}
    /\ q.state \in FinStates => t.state \notin WriteStates
    /\ HasFin(q, t, w) => t.state \notin WriteStates
    /\ t.recvNext # 0 => ~NotOpened(q)

LEMMA NearNow ==
    ASSUME Inductive, NEW e \in Endpoints, tcb[e].state # "NONE"
    PROVE  Near(e, tcb[e], written[e], tcb[Peer(e)], written[Peer(e)])
<1> DEFINE t == tcb[e]
           w == written[e]
           p == Peer(e)
           q == tcb[p]
           wq == written[p]
           dq == delivered[p]
<1>1. p \in Endpoints /\ Peer(p) = e
  BY EndpointsDef
<1>2. Sound(e, t, w, q, wq, delivered[e])
  BY SoundNow
<1>3. /\ t \in Block(Endpoints, e) /\ w \in Nat /\ ~NotOpened(t)
      /\ q \in Block(Endpoints, p) /\ wq \in Nat
      /\ q.recvNext <= t.sendNext
      /\ SenderOK(e, t, w) /\ SegmentOK(t, w, t.lastSeg)
      /\ ReceiverOK(t, q, wq, delivered[e]) /\ AckedOK(t, q)
  BY <1>2 DEF Sound, SenderSide
<1>4. ReceiverOK(q, t, w, dq) /\ dq \in Seq(Nat) /\ q.recvBuf \in Seq(Nat)
  BY <1>1, <1>3, BlockFields DEF Inductive, BlockOK, TypeOK
<1>5. /\ t.sendInit \in Nat /\ t.sendNext \in Nat /\ t.sendUnack \in Nat
      /\ q.recvNext \in Nat /\ t.lastSeg.seq \in Nat
      /\ t.lastSeg.syn \in BOOLEAN
  BY <1>1, <1>3, BlockFields, SegmentFields
<1>6. Len(dq) \in Nat /\ Len(q.recvBuf) \in Nat
  BY <1>4
<1> DEFINE x == Len(dq)
           y == Len(q.recvBuf)
<1>7. /\ q.recvNext # 0 =>
            /\ \/ q.recvNext = t.sendInit + 1 + x + y /\ q.state \notin FinStates
               \/ q.recvNext = t.sendInit + 2 + w /\ t.state \notin WriteStates
            /\ x + y <= w
      /\ q.recvNext = 0 => q.state \notin FinStates
  BY <1>4 DEF ReceiverOK, FinStates
<1>8. /\ t.recvNext = 0 => t.state \in {"SYN_SENT", "CLOSE"}
      /\ t.recvNext # 0 => ~NotOpened(q)
  BY <1>3 DEF ReceiverOK, NotOpened
<1>9. t.sendInit < t.sendNext
  BY <1>3 DEF SenderOK
<1>10. t.sendInit <= t.lastSeg.seq
  BY <1>3, <1>5 DEF SegmentOK
<1>11. t.state # "CLOSE" => /\ t.sendInit <= t.sendUnack
                            /\ t.sendUnack <= t.sendNext
                            /\ t.sendUnack > t.sendInit => t.sendUnack <= q.recvNext
  BY <1>3 DEF AckedOK, NotOpened
<1> HIDE DEF x, y, t, w, q, wq, p
<1>12. q.recvNext # 0 => t.sendInit < q.recvNext
  <2>1. x \in Nat /\ y \in Nat
    BY <1>6 DEF x, y
  <2> QED
    BY <1>3, <1>5, <1>7, <2>1
<1>13. HasFin(q, t, w) => t.state \notin WriteStates
  <2> SUFFICES ASSUME q.recvNext = t.sendInit + 2 + w PROVE t.state \notin WriteStates
    BY DEF HasFin
  <2>1. q.recvNext # 0
    BY <1>3, <1>5
  <2>2. x \in Nat /\ y \in Nat
    BY <1>6 DEF x, y
  <2>3. q.recvNext # t.sendInit + 1 + x + y
    BY <1>3, <1>5, <1>7, <2>1, <2>2
  <2> QED
    BY <1>7, <2>1, <2>3
<1>14. q.state \in FinStates => t.state \notin WriteStates
  BY <1>7
<1> QED
  BY <1>3, <1>8, <1>9, <1>10, <1>11, <1>12, <1>13, <1>14 DEF Near, t, w, q, wq, p

\* The same of both ends, and after a step.
LEMMA NearAlways ==
    Inductive => \A e \in Endpoints :
       tcb[e].state # "NONE" =>
          Near(e, tcb[e], written[e], tcb[Peer(e)], written[Peer(e)])
BY NearNow

LEMMA NearNext ==
    Inductive' => \A e \in Endpoints :
       tcb'[e].state # "NONE" =>
          Near(e, tcb'[e], written'[e], tcb'[Peer(e)], written'[Peer(e)])
<1>1. (Inductive => \A e \in Endpoints :
          tcb[e].state # "NONE" =>
             Near(e, tcb[e], written[e], tcb[Peer(e)], written[Peer(e)]))'
  BY NearAlways, PTL
<1> QED
  BY <1>1

\* t's last segment stays the one that the peer has or has not.
LEMMA LastStays ==
    ASSUME NEW e \in Endpoints, NEW t, NEW w, NEW q, NEW wq, NEW v,
           Near(e, t, w, q, wq), LastOK(t, q),
           NEW r, Goes(t, q, wq, r), Near(e, r.tcb, v, q, wq),
           Grows(t, w, r.tcb, v)
    PROVE  LastOK(r.tcb, q)
<1> DEFINE u == r.tcb
<1>1. /\ t \in Block(Endpoints, e) /\ u \in Block(Endpoints, e)
      /\ q \in Block(Endpoints, Peer(e)) /\ Peer(e) \in Endpoints
      /\ ~NotOpened(t) /\ u.state # "NONE"
  BY EndpointsDef DEF Near, NotOpened
<1>2. /\ t.sendInit \in Nat /\ t.sendNext \in Nat /\ t.sendUnack \in Nat
      /\ u.sendInit \in Nat /\ u.sendNext \in Nat /\ u.sendUnack \in Nat
      /\ q.recvNext \in Nat
      /\ t.lastSeg.seq \in Nat /\ SegLen(t.lastSeg) \in Nat
      /\ u.lastSeg.seq \in Nat /\ SegLen(u.lastSeg) \in Nat
  BY <1>1, BlockFields, SegmentFields
<1>3. u.sendInit = t.sendInit
  BY <1>1 DEF Grows
<1>4. u.state # "CLOSE" => t.state # "CLOSE"
  BY DEF Goes
<1>5. CASE SameSent(t, u)
  <2>1. u.state # "CLOSE" => u.sendUnack \in {t.sendUnack, t.sendNext}
    BY DEF Goes
  <2> QED
    BY <1>3, <1>4, <1>5, <2>1 DEF LastOK, SameSent
<1>6. CASE NextSent(t, u)
  <2>1. /\ u.lastSeg.seq = t.sendNext
        /\ u.sendNext = t.sendNext + SegLen(u.lastSeg)
        /\ u.sendUnack = t.sendNext /\ u.state # "CLOSE"
    BY <1>6 DEF NextSent
  <2>2. /\ u.sendUnack > u.sendInit => u.sendUnack <= q.recvNext
        /\ t.sendInit < t.sendNext /\ q.recvNext <= t.sendNext
    BY <2>1 DEF Near
  <2>3. q.recvNext = t.sendNext /\ q.recvNext # 0
    BY <1>2, <1>3, <2>1, <2>2
  <2> QED
    BY <2>1, <2>3 DEF LastOK
<1> QED
  BY <1>5, <1>6 DEF Goes

\* So does the peer's.
LEMMA PeersLastStays ==
    ASSUME NEW e \in Endpoints, NEW t, NEW w, NEW q, NEW wq, NEW v,
           Near(e, t, w, q, wq), LastOK(q, t),
           NEW r, Goes(t, q, wq, r), Near(e, r.tcb, v, q, wq),
           Grows(t, w, r.tcb, v)
    PROVE  LastOK(q, r.tcb)
<1> DEFINE u == r.tcb
<1>1. /\ t \in Block(Endpoints, e) /\ u \in Block(Endpoints, e)
  BY DEF Near
<1>2. t.recvNext \in Nat /\ u.recvNext \in Nat
  BY <1>1, BlockFields
<1>3. u.recvNext = 0 => t.recvNext = 0
  BY <1>2 DEF Grows
<1>4. u.recvNext \in {t.recvNext, q.sendNext}
  BY DEF Goes
<1> QED
  BY <1>3, <1>4 DEF LastOK

\* What the peer knows since it has taken our FIN stays true.
LEMMA PeersClosedStays ==
    ASSUME NEW e \in Endpoints, NEW t, NEW w, NEW q, NEW wq,
           Near(e, t, w, q, wq), ClosedOK(q, wq, t), ~NotOpened(q),
           NEW r, Goes(t, q, wq, r)
    PROVE  ClosedOK(q, wq, r.tcb)
<1> DEFINE u == r.tcb
<1> SUFFICES ASSUME q.state \in FinStates \ {"TIME_WAIT"}
             PROVE  q.sendUnack = u.recvNext \/ HasFin(u, q, wq)
  BY DEF ClosedOK
<1>1. q.sendUnack = t.recvNext \/ HasFin(t, q, wq)
  BY DEF ClosedOK
<1>2. u.recvNext \in {t.recvNext, q.sendInit + 2 + wq}
  BY DEF Near, Goes
<1>3. q.sendInit + 2 + wq = u.recvNext => HasFin(u, q, wq)
  BY DEF HasFin
<1> QED
  BY <1>1, <1>2, <1>3 DEF HasFin

\* Segments of t under way and the numbers that the peer names stay whole.
LEMMA WholeStays ==
    ASSUME NEW e \in Endpoints, NEW t \in Block(Endpoints, e),
           NEW u \in Block(Endpoints, e), SameSent(t, u) \/ NextSent(t, u),
           t.lastSeg.seq + SegLen(t.lastSeg) = t.sendNext
    PROVE  /\ \A m \in Segment(Endpoints) : WholeOK(t, m) => WholeOK(u, m)
           /\ \A x \in Nat : Cut(t, x) => Cut(u, x)
<1>1. /\ t.sendNext \in Nat /\ u.sendNext \in Nat
      /\ t.lastSeg.seq \in Nat /\ SegLen(t.lastSeg) \in Nat
      /\ u.lastSeg.seq \in Nat /\ SegLen(u.lastSeg) \in Nat
  BY BlockFields, SegmentFields
<1>2. CASE SameSent(t, u)
  BY <1>2 DEF SameSent, WholeOK, Cut
<1>3. CASE NextSent(t, u)
  <2>1. u.lastSeg.seq = t.sendNext /\ t.lastSeg.seq <= t.sendNext
    BY <1>1, <1>3 DEF NextSent
  <2>2. ASSUME NEW m \in Segment(Endpoints), WholeOK(t, m)
        PROVE  WholeOK(u, m)
    <3>1. m.seq \in Nat /\ SegLen(m) \in Nat
      BY SegmentFields
    <3>2. SegLen(m) # 0 => m.seq + SegLen(m) <= t.sendNext
      BY <1>1, <2>1, <2>2, <3>1 DEF WholeOK
    <3> QED
      BY <2>1, <3>2 DEF WholeOK
  <2>3. ASSUME NEW x \in Nat, Cut(t, x)
        PROVE  Cut(u, x)
    BY <1>1, <2>1, <2>3 DEF Cut
  <2> QED
    BY <2>2, <2>3
<1> QED
  BY <1>2, <1>3

\* So do the FINs of both ends.
LEMMA FinsStay ==
    ASSUME NEW e \in Endpoints, NEW t, NEW w, NEW q, NEW wq, NEW v,
           Near(e, t, w, q, wq), NEW r, Goes(t, q, wq, r),
           Near(e, r.tcb, v, q, wq), Grows(t, w, r.tcb, v),
           NEW m \in Segment(Endpoints)
    PROVE  /\ FinOK(t, q, wq, m) /\ SegmentOK(t, w, m) => FinOK(r.tcb, q, wq, m)
           /\ FinOK(q, t, w, m) => FinOK(q, r.tcb, v, m)
<1> DEFINE u == r.tcb
<1>1. /\ t \in Block(Endpoints, e) /\ u \in Block(Endpoints, e)
      /\ ~NotOpened(t) /\ ~NotOpened(u)
  BY DEF Near
<1>2. t.recvNext \in Nat /\ u.recvNext \in Nat
  BY <1>1, BlockFields
<1>3. /\ u.recvNext = 0 => t.recvNext = 0
      /\ u.sendInit = t.sendInit
      /\ t.state \notin WriteStates => v = w
  BY <1>1, <1>2 DEF Grows
<1>4. ASSUME FinOK(t, q, wq, m), SegmentOK(t, w, m), m.fin
      PROVE  u.recvNext # 0 /\ (m.ackSeq = u.recvNext \/ HasFin(u, q, wq))
  <2>1. t.recvNext # 0 /\ (m.ackSeq = t.recvNext \/ HasFin(t, q, wq))
    BY <1>4 DEF FinOK
  <2>2. t.state \notin WriteStates
    BY <1>4 DEF SegmentOK
  <2>3. u.recvNext \in {t.recvNext, q.sendInit + 2 + wq}
    BY <2>2 DEF Goes
  <2>4. ~NotOpened(q)
    BY <2>1 DEF Near
  <2> QED
    BY <1>3, <2>1, <2>3, <2>4 DEF HasFin
<1>5. HasFin(q, t, w) => HasFin(q, u, v)
  <2> SUFFICES ASSUME HasFin(q, t, w) PROVE HasFin(q, u, v)
    OBVIOUS
  <2>1. v = w
    BY <1>3 DEF Near
  <2> QED
    BY <1>1, <1>3, <2>1 DEF HasFin
<1> QED
  BY <1>4, <1>5 DEF FinOK

\* What leaves now is whole, and a FIN tells how far its sender is.
LEMMA NewsOK ==
    ASSUME NEW e \in Endpoints, NEW q, NEW wq, NEW v,
           NEW r, Speaks(r), Near(e, r.tcb, v, q, wq),
           ~NotOpened(q) => LastOK(q, r.tcb),
           NEW m \in r.out, m \in Segment(Endpoints), SegmentOK(r.tcb, v, m)
    PROVE  WholeOK(r.tcb, m) /\ Cut(q, m.ackSeq) /\ FinOK(r.tcb, q, wq, m)
<1> DEFINE u == r.tcb
<1>1. /\ m.ackSeq = u.recvNext /\ u.state # "CLOSE"
      /\ SegLen(m) # 0 => /\ m.seq = u.lastSeg.seq
                          /\ SegLen(m) = SegLen(u.lastSeg)
  BY DEF Speaks
<1>2. /\ u \in Block(Endpoints, e) /\ q \in Block(Endpoints, Peer(e))
      /\ Peer(e) \in Endpoints
  BY EndpointsDef DEF Near
<1>3. q.lastSeg.seq \in Nat
  BY <1>2, BlockFields, SegmentFields
<1>4. WholeOK(u, m)
  BY <1>1 DEF WholeOK
<1>5. Cut(q, m.ackSeq)
  <2>1. CASE u.recvNext = 0
    BY <1>1, <1>3, <2>1 DEF Cut
  <2>2. CASE u.recvNext # 0
    <3>1. u.recvNext \in {q.lastSeg.seq, q.sendNext}
      BY <2>2 DEF Near, LastOK
    <3> QED
      BY <1>1, <1>3, <3>1 DEF Cut
  <2> QED
    BY <2>1, <2>2
<1>6. m.fin => u.recvNext # 0
  <2>1. m.fin => u.state \notin WriteStates
    BY DEF SegmentOK
  <2>2. "SYN_SENT" \in WriteStates
    BY DEF WriteStates
  <2> QED
    BY <1>1, <2>1, <2>2 DEF Near
<1> QED
  BY <1>1, <1>4, <1>5, <1>6 DEF FinOK

\* A step of one end whose result goes on keeps what both may conclude.
LEMMA EndGoes ==
    ASSUME Inductive, Inductive', Acknowledging, NEW e \in Endpoints,
           tcb[e].state # "NONE", NEW r, NEW v,
           tcb' = [tcb EXCEPT ![e] = r.tcb],
           written'[e] = v, written'[Peer(e)] = written[Peer(e)],
           Grows(tcb[e], written[e], r.tcb, v),
           Goes(tcb[e], tcb[Peer(e)], written[Peer(e)], r),
           ClosedOK(r.tcb, v, tcb[Peer(e)]),
           \A m \in net' : m \in net \/ (m \in r.out /\ m.src = e)
    PROVE  Acknowledging'
<1> DEFINE p == Peer(e)
           t == tcb[e]
           q == tcb[p]
           u == r.tcb
           w == written[e]
           wq == written[p]
<1>1. p \in Endpoints /\ Peer(p) = e /\ p # e
  BY EndpointsDef
<1>2. tcb'[e] = u /\ tcb'[p] = q
  BY <1>1 DEF Inductive, TypeOK
<1>3. /\ ~NotOpened(t) => LastOK(t, q)
      /\ ~NotOpened(q) => LastOK(q, t)
      /\ ClosedOK(q, wq, t)
      /\ \A m \in net : m.src = e => /\ WholeOK(t, m)
                                     /\ Cut(q, m.ackSeq)
                                     /\ FinOK(t, q, wq, m)
      /\ \A m \in net : m.src = p => /\ WholeOK(q, m)
                                     /\ Cut(t, m.ackSeq)
                                     /\ FinOK(q, t, w, m)
  BY <1>1 DEF Acknowledging
<1>4. Near(e, t, w, q, wq)
  BY NearNow
<1>5. tcb'[e].state # "NONE"
  BY <1>2 DEF Grows, NotOpened
<1>6. Near(e, u, v, q, wq)
  BY <1>2, <1>5, NearNext
<1>7. /\ \A m \in net : m \in Segment(Endpoints)
      /\ \A m \in net : m.src = e => SegmentOK(t, w, m)
      /\ \A m \in net' : m \in Segment(Endpoints)
      /\ \A m \in net' : m.src = e => SegmentOK(u, v, m)
      /\ net' \subseteq Segment(Endpoints)
  BY <1>2 DEF Inductive, TypeOK
<1> HIDE DEF t, q, u, w, wq, p
<1>8. LastOK(u, q)
  BY <1>3, <1>4, <1>6, LastStays DEF Near, t, q, u, w, wq, p
<1>9. ~NotOpened(q) => LastOK(q, u)
  BY <1>3, <1>4, <1>6, PeersLastStays DEF t, q, u, w, wq, p
<1>10. ClosedOK(q, wq, u)
  <2>1. CASE NotOpened(q)
    BY <2>1 DEF ClosedOK, NotOpened, FinStates
  <2>2. CASE ~NotOpened(q)
    BY <1>3, <1>4, <2>2, PeersClosedStays DEF t, q, u, w, wq, p
  <2> QED
    BY <2>1, <2>2
<1>11. /\ t \in Block(Endpoints, e) /\ u \in Block(Endpoints, e)
       /\ ~NotOpened(t) /\ LastOK(t, q)
  BY <1>3, <1>4, <1>6 DEF Near
<1>12. /\ \A m \in Segment(Endpoints) : WholeOK(t, m) => WholeOK(u, m)
       /\ \A x \in Nat : Cut(t, x) => Cut(u, x)
  BY <1>11, WholeStays DEF Goes, LastOK, t, q, u, w, wq, p
<1>13. \A m \in net' : m.src = e => /\ WholeOK(u, m)
                                   /\ Cut(q, m.ackSeq)
                                   /\ FinOK(u, q, wq, m)
  <2> SUFFICES ASSUME NEW m \in net', m.src = e
               PROVE  WholeOK(u, m) /\ Cut(q, m.ackSeq) /\ FinOK(u, q, wq, m)
    OBVIOUS
  <2>1. CASE m \in net
    <3>1. m \in Segment(Endpoints) /\ SegmentOK(t, w, m)
      BY <1>7, <2>1
    <3>2. WholeOK(t, m) /\ Cut(q, m.ackSeq) /\ FinOK(t, q, wq, m)
      BY <1>3, <2>1
    <3>3. FinOK(u, q, wq, m)
      BY <1>4, <1>6, <3>1, <3>2, FinsStay DEF t, q, u, w, wq, p
    <3> QED
      BY <1>12, <3>1, <3>2, <3>3
  <2>2. CASE m \in r.out
    <3>1. m \in Segment(Endpoints) /\ SegmentOK(u, v, m)
      BY <1>7
    <3>2. Speaks(r)
      BY DEF Goes
    <3> QED
      BY <1>6, <1>9, <2>2, <3>1, <3>2, NewsOK DEF t, q, u, w, wq, p
  <2> QED
    BY <2>1, <2>2
<1>14. \A m \in net' : m.src = p => /\ WholeOK(q, m)
                                   /\ Cut(u, m.ackSeq)
                                   /\ FinOK(q, u, v, m)
  <2> SUFFICES ASSUME NEW m \in net', m.src = p
               PROVE  WholeOK(q, m) /\ Cut(u, m.ackSeq) /\ FinOK(q, u, v, m)
    OBVIOUS
  <2>1. m \in net
    BY <1>1
  <2>2. m \in Segment(Endpoints) /\ m.ackSeq \in Nat
    BY <1>7, SegmentFields
  <2>3. WholeOK(q, m) /\ Cut(t, m.ackSeq) /\ FinOK(q, t, w, m)
    BY <1>3, <2>1
  <2>4. FinOK(q, u, v, m)
    BY <1>4, <1>6, <2>2, <2>3, FinsStay DEF t, q, u, w, wq, p
  <2> QED
    BY <1>12, <2>2, <2>3, <2>4
<1>15. ClosedOK(u, v, q)
  BY DEF t, q, u, w, wq, p
<1> SUFFICES ASSUME NEW x \in Endpoints
             PROVE  /\ ~NotOpened(tcb'[x]) => LastOK(tcb'[x], tcb'[Peer(x)])
                    /\ ClosedOK(tcb'[x], written'[x], tcb'[Peer(x)])
                    /\ \A m \in net' : m.src = x =>
                          /\ WholeOK(tcb'[x], m)
                          /\ Cut(tcb'[Peer(x)], m.ackSeq)
                          /\ FinOK(tcb'[x], tcb'[Peer(x)], written'[Peer(x)], m)
  BY DEF Acknowledging
<1>16. /\ tcb'[e] = u /\ tcb'[p] = q /\ written'[e] = v /\ written'[p] = wq
  BY <1>2 DEF t, q, u, w, wq, p
<1>17. CASE x = e
  BY <1>8, <1>13, <1>15, <1>16, <1>17 DEF p
<1>18. CASE x = p
  BY <1>1, <1>9, <1>10, <1>14, <1>16, <1>18
<1> QED
  BY <1>1, <1>17, <1>18 DEF Endpoints, Peer, p

-----------------------------------------------------------------------------
(* What the handlers and the calls may conclude.                           *)

\* Block a is t with an acknowledgement, bytes or a FIN taken, before anything
\* is sent.
Prepared(t, q, wq, a) ==
    /\ a.sendNext = t.sendNext /\ a.lastSeg = t.lastSeg
    /\ a.recvNext \in {t.recvNext, q.sendNext}
    /\ t.state \notin WriteStates =>
          a.recvNext \in {t.recvNext, q.sendInit + 2 + wq}
    /\ a.state = "CLOSE" \/ a.sendUnack \in {t.sendUnack, t.sendNext}
    /\ t.state = "CLOSE" => a.state = "CLOSE"

\* Once a has taken q's FIN it knows how far q is, unless q has taken a's.
Knows(a, v, q) ==
    a.state \in FinStates \ {"TIME_WAIT"} =>
        a.sendUnack = q.recvNext \/ HasFin(q, a, v)

\* A result with which the invariant goes on.
Concludes(t, q, wq, v, r) == Goes(t, q, wq, r) /\ ClosedOK(r.tcb, v, q)

LEMMA SilentConcludes ==
    ASSUME NEW t, NEW q, NEW wq, NEW v, NEW a,
           Prepared(t, q, wq, a), ClosedOK(a, v, q)
    PROVE  Concludes(t, q, wq, v, Silent(a))
  BY DEF Prepared, Concludes, Goes, SameSent, Speaks, Silent, Result

LEMMA AnswerConcludes ==
    ASSUME NoWrap, NEW e \in Endpoints, NEW t, NEW q, NEW wq, NEW v, NEW a,
           SenderSide(e, a, v), a.sendUnack <= a.sendNext, a.state # "CLOSE",
           Prepared(t, q, wq, a), Knows(a, v, q)
    PROVE  Concludes(t, q, wq, v, MakeSureSendback(a))
<1> DEFINE r == MakeSureSendback(a)
           u == r.tcb
<1>1. Emits(a, r)
  BY SendbackEmits
<1>2. SameButSent(a, u)
  BY SendbackSafe
<1> HIDE DEF r
<1>3. /\ u.state = a.state /\ u.sendInit = a.sendInit
      /\ u.sendUnack = a.sendUnack /\ u.recvNext = a.recvNext
  BY <1>2 DEF SameButSent
<1>4. SameSent(t, u) \/ NextSent(t, u)
  BY <1>1 DEF Emits, Prepared, SameSent, NextSent
<1>5. Speaks(r) /\ (u.sendBuf = <<>> \/ WaitingForAck(u))
  BY <1>1 DEF Emits
<1> HIDE DEF u
<1>6. Goes(t, q, wq, r)
  BY <1>3, <1>4, <1>5 DEF Goes, Prepared, u
<1>7. ClosedOK(u, v, q)
  BY <1>3, <1>5 DEF ClosedOK, Knows, HasFin, NotOpened
<1> QED
  BY <1>6, <1>7 DEF Concludes, r, u

\* What the invariant says when segment m of the peer arrives at block t.
Told(e, t, w, q, wq, d, m) ==
    /\ Sound(e, t, w, q, wq, d) /\ Near(e, t, w, q, wq)
    /\ t.state # "CLOSE" /\ Heard(m, q, wq)
    /\ LastOK(t, q) /\ LastOK(q, t) /\ ClosedOK(t, w, q)
    /\ WholeOK(q, m) /\ Cut(t, m.ackSeq) /\ FinOK(q, t, w, m)

\* The acknowledgement update takes all or nothing of the last segment, and a
\* FIN brings everything that its sender knows.
LEMMA AckPrepares ==
    ASSUME NEW e \in Endpoints, NEW t, NEW w, NEW q, NEW wq, NEW d, NEW m,
           Told(e, t, w, q, wq, d, m)
    PROVE  LET a == Ack(t, m)
           IN  /\ Sound(e, a, w, q, wq, d)
               /\ a.sendUnack <= a.sendNext
               /\ a.state = t.state
               /\ Prepared(t, q, wq, a)
               /\ Knows(a, w, q)
               /\ m.fin => a.sendUnack = q.recvNext \/ HasFin(q, a, w)
<1> DEFINE a == Ack(t, m)
<1>1. /\ t \in Block(Endpoints, e) /\ q \in Block(Endpoints, Peer(e))
      /\ Peer(e) \in Endpoints /\ m \in Segment(Endpoints)
      /\ m.ackSeq <= q.recvNext
  BY EndpointsDef DEF Told, Near, Heard, SegmentOK
<1>2. /\ Sound(e, a, w, q, wq, d)
      /\ a.state = t.state
      /\ a.sendInit = t.sendInit /\ a.sendNext = t.sendNext
      /\ a.lastSeg = t.lastSeg /\ a.recvNext = t.recvNext
  BY <1>1, AckSafe DEF Told
<1>3. a.sendUnack = IF m.ackSeq > t.sendUnack THEN m.ackSeq ELSE t.sendUnack
  BY <1>1, BlockFields DEF Ack, TCB
<1>4. /\ t.sendUnack \in Nat /\ t.sendNext \in Nat /\ t.sendInit \in Nat
      /\ m.ackSeq \in Nat /\ t.lastSeg.seq \in Nat
      /\ SegLen(t.lastSeg) \in Nat /\ q.recvNext \in Nat
  BY <1>1, BlockFields, SegmentFields
<1> HIDE DEF a
<1>5. /\ t.lastSeg.seq + SegLen(t.lastSeg) = t.sendNext
      /\ q.recvNext # 0 => q.recvNext \in {t.lastSeg.seq, t.sendNext}
      /\ t.sendUnack \in {t.lastSeg.seq, t.sendNext}
      /\ m.ackSeq <= t.lastSeg.seq \/ m.ackSeq = t.sendNext
  BY DEF Told, LastOK, Cut
<1>6. /\ t.sendInit <= t.sendUnack /\ t.sendUnack <= t.sendNext
      /\ t.sendUnack > t.sendInit => t.sendUnack <= q.recvNext
      /\ q.recvNext # 0 => t.sendInit < q.recvNext
  BY DEF Told, Near
<1>7. a.sendUnack \in {t.sendUnack, t.sendNext}
  BY <1>3, <1>4, <1>5
<1>8. a.sendUnack <= a.sendNext
  BY <1>2, <1>4, <1>6, <1>7
<1>9. Prepared(t, q, wq, a)
  BY <1>2, <1>7 DEF Prepared
<1>10. Knows(a, w, q)
  <2> SUFFICES ASSUME t.state \in FinStates \ {"TIME_WAIT"}
               PROVE  a.sendUnack = q.recvNext \/ HasFin(q, a, w)
    BY <1>2 DEF Knows
  <2>1. t.sendUnack = q.recvNext \/ HasFin(q, t, w)
    BY DEF Told, ClosedOK
  <2>2. t.sendUnack = q.recvNext => a.sendUnack = q.recvNext
    BY <1>1, <1>3, <1>4
  <2> QED
    BY <1>2, <2>1, <2>2 DEF HasFin, NotOpened
<1>11. ASSUME m.fin
       PROVE  a.sendUnack = q.recvNext \/ HasFin(q, a, w)
  <2>1. q.recvNext # 0 /\ (m.ackSeq = q.recvNext \/ HasFin(q, t, w))
    BY <1>11 DEF Told, FinOK
  <2>2. m.ackSeq = q.recvNext => a.sendUnack = q.recvNext
    BY <1>3, <1>4, <1>6, <2>1
  <2> QED
    BY <1>2, <2>1, <2>2 DEF HasFin, NotOpened
<1> QED
  BY <1>2, <1>8, <1>9, <1>10, <1>11 DEF a

\* A segment in order with something to say is the peer's last one.
LEMMA CountsToNext ==
    ASSUME NEW e \in Endpoints, NEW t, NEW w, NEW q, NEW wq, NEW d, NEW m,
           Told(e, t, w, q, wq, d, m), SegLen(m) # 0,
           \/ t.recvNext # 0 /\ m.seq = t.recvNext
           \/ t.recvNext = 0 /\ m.seq = q.sendInit
    PROVE  m.seq + SegLen(m) = q.sendNext
<1>1. /\ q \in Block(Endpoints, Peer(e)) /\ Peer(e) \in Endpoints
      /\ m \in Segment(Endpoints)
  BY EndpointsDef DEF Told, Near, Heard
<1>2. /\ q.sendNext \in Nat /\ q.lastSeg.seq \in Nat
      /\ SegLen(q.lastSeg) \in Nat /\ m.seq \in Nat /\ SegLen(m) \in Nat
  BY <1>1, BlockFields, SegmentFields
<1>3. /\ q.lastSeg.seq + SegLen(q.lastSeg) = q.sendNext
      /\ t.recvNext = 0 => q.lastSeg.seq = q.sendInit
      /\ t.recvNext # 0 => t.recvNext \in {q.lastSeg.seq, q.sendNext}
      /\ \/ m.seq + SegLen(m) <= q.lastSeg.seq
         \/ m.seq = q.lastSeg.seq /\ SegLen(m) = SegLen(q.lastSeg)
  BY DEF Told, LastOK, WholeOK
<1> QED
  BY <1>2, <1>3

LEMMA OnOutOfOrderConcludes ==
    ASSUME NoWrap, NEW e \in Endpoints, NEW t, NEW w, NEW q, NEW wq, NEW d,
           NEW m, Told(e, t, w, q, wq, d, m)
    PROVE  Concludes(t, q, wq, w, OnOutOfOrder(t, m))
<1> DEFINE a == Ack(t, m)
<1>1. /\ Sound(e, a, w, q, wq, d) /\ a.sendUnack <= a.sendNext
      /\ a.state # "CLOSE" /\ Prepared(t, q, wq, a) /\ Knows(a, w, q)
  BY AckPrepares DEF Told
<1> HIDE DEF a
<1>2. Concludes(t, q, wq, w, MakeSureSendback(a))
  BY <1>1, AnswerConcludes DEF Sound
<1> QED
  BY <1>2 DEF OnOutOfOrder, a

\* A change of state alone.
LEMMA StatePrepared ==
    ASSUME NEW e \in Endpoints, NEW t, NEW q, NEW wq, NEW a \in Block(Endpoints, e),
           Prepared(t, q, wq, a), NEW s, t.state = "CLOSE" => s = "CLOSE",
           a.state # "CLOSE"
    PROVE  Prepared(t, q, wq, [a EXCEPT !.state = s])
<1> DEFINE u == [a EXCEPT !.state = s]
<1>1. /\ u.state = s /\ u.sendNext = a.sendNext /\ u.lastSeg = a.lastSeg
      /\ u.recvNext = a.recvNext /\ u.sendUnack = a.sendUnack
  BY BlockFields DEF TCB
<1> HIDE DEF u
<1>2. Prepared(t, q, wq, u)
  BY <1>1 DEF Prepared
<1> QED
  BY <1>2 DEF u

\* A block that does nothing, or only leaves for a state that promises nothing.
LEMMA StaysConcludes ==
    ASSUME NEW e \in Endpoints, NEW t \in Block(Endpoints, e), NEW q, NEW wq,
           NEW w, ClosedOK(t, w, q), t.state # "CLOSE"
    PROVE  /\ Concludes(t, q, wq, w, Silent(t))
           /\ \A s : s \notin FinStates \/ s = "TIME_WAIT" =>
                 Concludes(t, q, wq, w, Silent([t EXCEPT !.state = s]))
<1>1. Prepared(t, q, wq, t)
  BY DEF Prepared
<1>2. ASSUME NEW s, s \notin FinStates \/ s = "TIME_WAIT"
      PROVE  Concludes(t, q, wq, w, Silent([t EXCEPT !.state = s]))
  <2> DEFINE u == [t EXCEPT !.state = s]
  <2>1. Prepared(t, q, wq, u)
    BY <1>1, StatePrepared
  <2>2. u.state = s
    BY BlockFields DEF TCB
  <2> HIDE DEF u
  <2>3. Concludes(t, q, wq, w, Silent(u))
    BY <1>2, <2>1, <2>2, SilentConcludes DEF ClosedOK
  <2> QED
    BY <2>3 DEF u
<1> QED
  BY <1>1, <1>2, SilentConcludes

LEMMA OnSynRecvConcludes ==
    ASSUME NEW e \in Endpoints, NEW t, NEW w, NEW q, NEW wq, NEW d,
           NEW m, Told(e, t, w, q, wq, d, m)
    PROVE  Concludes(t, q, wq, w, OnSynRecv(t, m))
<1> DEFINE a == Ack(t, m)
           u == [a EXCEPT !.state = "ESTABLISHED"]
<1>1. /\ Sound(e, a, w, q, wq, d) /\ a.state # "CLOSE" /\ t.state # "CLOSE"
      /\ Prepared(t, q, wq, a)
  BY AckPrepares DEF Told
<1>2. OnSynRecv(t, m) \in {Silent(u), Silent(t)}
  BY DEF OnSynRecv
<1> HIDE DEF a
<1>3. a \in Block(Endpoints, e)
  BY <1>1 DEF Sound, SenderSide
<1>4. Prepared(t, q, wq, u) /\ u.state = "ESTABLISHED"
  <2>1. u.state = "ESTABLISHED"
    BY <1>3, BlockFields DEF TCB
  <2>2. Prepared(t, q, wq, u)
    BY <1>1, <1>3, StatePrepared
  <2> QED
    BY <2>1, <2>2
<1> HIDE DEF u
<1>5. Concludes(t, q, wq, w, Silent(u))
  BY <1>4, SilentConcludes DEF ClosedOK, FinStates
<1>6. Concludes(t, q, wq, w, Silent(t))
  BY StaysConcludes DEF Told, Near
<1> QED
  BY <1>2, <1>5, <1>6

LEMMA OnSynSentConcludes ==
    ASSUME NoWrap, NEW e \in Endpoints, NEW t, NEW w, NEW q, NEW wq, NEW d,
           NEW m, Told(e, t, w, q, wq, d, m), t.state = "SYN_SENT"
    PROVE  Concludes(t, q, wq, w, OnSynSent(t, m))
<1> DEFINE a == Ack(t, m)
           next == Plus(m.seq, 1)
           u == [a EXCEPT !.recvInit = m.seq, !.recvNext = next,
                          !.state = "ESTABLISHED"]
<1>1. Concludes(t, q, wq, w, Silent(t))
  BY StaysConcludes DEF Told, Near
<1>2. /\ Sound(e, a, w, q, wq, d) /\ a.sendUnack <= a.sendNext
      /\ a.state = "SYN_SENT" /\ Prepared(t, q, wq, a)
  BY AckPrepares
<1>3. CASE ~(~HavePayload(m) /\ m.syn /\ ~m.fin)
  BY <1>1, <1>3 DEF OnSynSent
<1>4. CASE ~HavePayload(m) /\ m.syn /\ ~m.fin
  <2>1. OnSynSent(t, m) \in {MakeSureSendback(u), Silent(t)}
    BY DEF OnSynSent
  <2>2. /\ m.seq = q.sendInit /\ next = q.sendInit + 1
        /\ q.sendInit + 1 <= q.sendNext
    BY <1>4, SynHeard DEF Told
  <2>3. SegLen(m) = 1
    <3>1. m.data = <<>>
      BY <1>4 DEF HavePayload
    <3> QED
      BY <1>4, <3>1 DEF SegLen, Flag
  <2>4. t.recvNext = 0
    BY DEF Told, Sound, ReceiverOK
  <2>5. next = q.sendNext
    <3>1. m.seq + SegLen(m) = q.sendNext
      BY <2>2, <2>3, <2>4, CountsToNext
    <3> QED
      BY <2>2, <2>3, <3>1
  <2> HIDE DEF a, next
  <2>6. /\ a \in Block(Endpoints, e) /\ a \in TCB(Endpoints) /\ a.local = e
        /\ Fits(a) /\ SenderSide(e, a, w)
        /\ q \in Block(Endpoints, Peer(e)) /\ Peer(e) \in Endpoints
    BY <1>2, EndpointsDef DEF Sound, SenderSide, Block
  <2>7. q.sendInit \in Nat /\ next \in Nat /\ m.seq \in Nat
    BY <2>2, <2>6, BlockFields
  <2>8. u \in Block(Endpoints, e)
    BY <2>6, <2>7 DEF TCB, Block, Fits, States
  <2>9. /\ u.state = "ESTABLISHED"
        /\ u.sendInit = a.sendInit /\ u.sendNext = a.sendNext
        /\ u.sendUnack = a.sendUnack
        /\ u.sendBuf = a.sendBuf /\ u.lastSeg = a.lastSeg
        /\ u.recvNext = next
    BY <2>6 DEF TCB
  <2> HIDE DEF u
  <2>10. a.recvNext = 0
    BY <1>2 DEF Sound, ReceiverOK
  <2>11. SenderSide(e, u, w)
    BY <1>2, <2>6, <2>7, <2>8, <2>9, <2>10, SenderFrame DEF WriteStates
  <2>12. Prepared(t, q, wq, u)
    BY <1>2, <2>5, <2>9 DEF Prepared, WriteStates
  <2>13. Knows(u, w, q)
    BY <2>9 DEF Knows, FinStates
  <2>14. Concludes(t, q, wq, w, MakeSureSendback(u))
    BY <1>2, <2>9, <2>11, <2>12, <2>13, AnswerConcludes
  <2> QED
    BY <1>1, <2>1, <2>14
<1> QED
  BY <1>3, <1>4

\* A segment in order has no SYN, and counting it does not wrap.
LEMMA InOrderCounts ==
    ASSUME NoWrap, NEW e \in Endpoints, NEW t, NEW w, NEW q, NEW wq, NEW d,
           Sound(e, t, w, q, wq, d),
           t.state \notin {"NONE", "SYN_SENT", "CLOSE"} \cup FinStates,
           NEW m, Heard(m, q, wq), m.seq = t.recvNext
    PROVE  /\ t.recvNext \in Nat /\ t.recvNext # 0
           /\ Plus(t.recvNext, Len(m.data) + Flag(m.fin)) = t.recvNext + SegLen(m)
           /\ m.fin => /\ SegLen(m) = 1
                       /\ Plus(t.recvNext, 1) = q.sendInit + 2 + wq
<1> DEFINE n == Len(d) + Len(t.recvBuf)
           k == Len(m.data)
<1>1. /\ q \in Block(Endpoints, Peer(e)) /\ Peer(e) \in Endpoints /\ wq \in Nat
      /\ m \in Segment(Endpoints)
  BY EndpointsDef DEF Sound, Heard
<1>2. q.sendInit \in Nat /\ m.fin \in BOOLEAN
  BY <1>1, BlockFields, SegmentFields
<1>3. /\ ~m.syn /\ ~NotOpened(q)
      /\ n \in Nat /\ k \in Nat
      /\ t.recvInit = q.sendInit
      /\ t.recvNext = q.sendInit + 1 + n
      /\ n + k <= wq
      /\ \A i \in 1..k : m.data[i] = n + i
      /\ ~m.fin => /\ Plus(t.recvNext, k) = q.sendInit + 1 + n + k
                   /\ q.sendInit + 1 + n + k <= q.sendNext
      /\ m.fin => /\ m.data = <<>> /\ n = wq
                  /\ Plus(t.recvNext, 1) = q.sendInit + wq + 2
                  /\ q.sendInit + wq + 2 <= q.sendNext
                  /\ q.state \notin WriteStates
  BY InOrderSays, ZenonT(60)
<1>4. SegLen(m) = k + Flag(m.fin)
  BY <1>3 DEF SegLen, Flag
<1>5. m.fin => k = 0
  BY <1>3
<1> HIDE DEF n, k
<1>6. t.recvNext \in Nat /\ t.recvNext # 0
  BY <1>2, <1>3
<1>7. CASE m.fin
  <2>1. n = wq /\ k + Flag(m.fin) = 1 /\ Plus(t.recvNext, 1) = q.sendInit + wq + 2
    BY <1>3, <1>5, <1>7 DEF Flag
  <2>2. Plus(t.recvNext, 1) = t.recvNext + 1 /\ q.sendInit + wq + 2 = q.sendInit + 2 + wq
    BY <1>1, <1>2, <1>3, <2>1
  <2> QED
    BY <1>4, <1>6, <1>7, <2>1, <2>2 DEF k
<1>8. CASE ~m.fin
  <2>1. k + Flag(m.fin) = k /\ Plus(t.recvNext, k) = q.sendInit + 1 + n + k
    BY <1>3, <1>8 DEF Flag
  <2>2. Plus(t.recvNext, k) = t.recvNext + k
    BY <1>3, <2>1
  <2> QED
    BY <1>4, <1>6, <1>8, <2>1, <2>2 DEF k
<1> QED
  BY <1>7, <1>8

LEMMA OnEstablishedConcludes ==
    ASSUME NoWrap, NEW e \in Endpoints, NEW t, NEW w, NEW q, NEW wq, NEW d,
           NEW m, Told(e, t, w, q, wq, d, m), t.state = "ESTABLISHED",
           m.seq = t.recvNext
    PROVE  Concludes(t, q, wq, w, OnEstablished(t, m))
<1> DEFINE a == Ack(t, m)
           u == Take(a, m)
           k == Len(m.data)
           f == Flag(m.fin)
           next == Plus(t.recvNext, k + f)
<1>1. /\ m \in Segment(Endpoints) /\ m.ackSeq <= q.recvNext
      /\ t \in Block(Endpoints, e)
      /\ Sound(e, t, w, q, wq, d) /\ Heard(m, q, wq)
  BY DEF Told, Near, Heard, SegmentOK
<1>2. /\ Sound(e, a, w, q, wq, d) /\ a.sendUnack <= a.sendNext
      /\ a.state = "ESTABLISHED" /\ Prepared(t, q, wq, a)
      /\ m.fin => a.sendUnack = q.recvNext \/ HasFin(q, a, w)
  BY AckPrepares
<1>3. a.recvNext = t.recvNext /\ a.recvBuf = t.recvBuf
  BY <1>1, AckSafe
<1>4. k \in Nat /\ f \in {0, 1} /\ RecvRoom(t) \in Int
  <2>1. k \in Nat /\ t.recvBuf \in Seq(Nat) /\ m.fin \in BOOLEAN
    BY <1>1, BlockFields, SegmentFields
  <2>2. Len(t.recvBuf) \in Nat
    BY <2>1
  <2> QED
    BY <2>1, <2>2, TcbAssumption DEF RecvRoom, Flag
<1>5. /\ a \in Block(Endpoints, e) /\ a \in TCB(Endpoints)
      /\ q \in Block(Endpoints, Peer(e)) /\ Peer(e) \in Endpoints
  BY <1>2, EndpointsDef DEF Sound, SenderSide, Block
<1>6. next \in {t.recvNext, q.sendNext}
  <2>1. t.state \notin {"NONE", "SYN_SENT", "CLOSE"} \cup FinStates
    BY DEF FinStates
  <2>2. t.recvNext \in Nat /\ t.recvNext # 0 /\ next = t.recvNext + SegLen(m)
    BY <1>1, <2>1, InOrderCounts
  <2>3. SegLen(m) # 0 => t.recvNext + SegLen(m) = q.sendNext
    BY <2>2, CountsToNext
  <2> HIDE DEF next
  <2> QED
    BY <2>2, <2>3
<1>7. Concludes(t, q, wq, w, Silent(a))
  BY <1>2, SilentConcludes DEF ClosedOK, FinStates
<1>8. CASE Len(m.data) > RecvRoom(t)
  <2>1. ~(Len(m.data) <= RecvRoom(t))
    BY <1>4, <1>8
  <2>2. OnEstablished(t, m) = Silent(a)
    BY <1>8, <2>1 DEF OnEstablished
  <2> QED
    BY <1>7, <2>2
<1>9. CASE ~(Len(m.data) > RecvRoom(t))
  <2>1. Len(m.data) <= RecvRoom(t)
    BY <1>4, <1>9
  <2>2. \/ OnEstablished(t, m) = MakeSureSendback(u)
        \/ OnEstablished(t, m) = Silent(u) /\ ~NeedToAck(m)
    BY <1>9, <2>1 DEF OnEstablished
  <2>3. Len(m.data) <= RecvRoom(a) /\ m.seq = a.recvNext
    BY <1>3, <2>1 DEF RecvRoom
  <2> HIDE DEF a
  <2>4. Sound(e, u, w, q, wq, d) /\ u.state # "CLOSE"
    BY <1>1, <1>2, <2>3, TakeSound
  <2>5. u = [a EXCEPT !.recvBuf = a.recvBuf \o m.data, !.recvNext = next,
                      !.state = IF m.fin THEN "CLOSE_WAIT" ELSE a.state]
    BY <1>3, <1>5 DEF Take, TCB
  <2> HIDE DEF next
  <2>6. /\ u.state = IF m.fin THEN "CLOSE_WAIT" ELSE "ESTABLISHED"
        /\ u.sendInit = a.sendInit /\ u.sendNext = a.sendNext
        /\ u.sendUnack = a.sendUnack /\ u.lastSeg = a.lastSeg
        /\ u.recvNext = next
    BY <1>2, <1>5, <2>5 DEF TCB
  <2> HIDE DEF u
  <2>7. Prepared(t, q, wq, u)
    BY <1>2, <1>6, <2>6 DEF Prepared, WriteStates
  <2>8. Knows(u, w, q)
    BY <1>2, <2>6 DEF Knows, HasFin, NotOpened, FinStates
  <2>9. Concludes(t, q, wq, w, MakeSureSendback(u))
    BY <1>2, <2>4, <2>6, <2>7, <2>8, AnswerConcludes DEF Sound
  <2>10. ~NeedToAck(m) => Concludes(t, q, wq, w, Silent(u))
    BY <2>6, <2>7, SilentConcludes DEF NeedToAck, ClosedOK, FinStates
  <2> QED
    BY <2>2, <2>9, <2>10
<1> QED
  BY <1>8, <1>9

\* A FIN in order is the last thing the peer says.
LEMMA FinConcludes ==
    ASSUME NoWrap, NEW e \in Endpoints, NEW t, NEW w, NEW q, NEW wq, NEW d,
           NEW m, Told(e, t, w, q, wq, d, m),
           t.state \in {"FIN_WAIT1", "FIN_WAIT2"},
           m.seq = t.recvNext, m.fin
    PROVE  LET next == Plus(t.recvNext, 1)
           IN  /\ next = q.sendNext /\ next = q.sendInit + 2 + wq
               /\ next \in Nat /\ t.recvNext <= next
<1> DEFINE next == Plus(t.recvNext, 1)
<1>1. Sound(e, t, w, q, wq, d) /\ Heard(m, q, wq)
  BY DEF Told
<1>2. t.state \notin {"NONE", "SYN_SENT", "CLOSE"} \cup FinStates
  BY DEF FinStates
<1>3. /\ t.recvNext \in Nat /\ t.recvNext # 0
      /\ Plus(t.recvNext, Len(m.data) + Flag(m.fin)) = t.recvNext + SegLen(m)
      /\ SegLen(m) = 1
      /\ next = q.sendInit + 2 + wq
  <2>1. t.recvNext \in Nat /\ t.recvNext # 0
    BY <1>1, <1>2, InOrderCounts
  <2>2. Plus(t.recvNext, Len(m.data) + Flag(m.fin)) = t.recvNext + SegLen(m)
    BY <1>1, <1>2, InOrderCounts
  <2>3. m.fin => SegLen(m) = 1
    BY <1>1, <1>2, InOrderCounts
  <2>4. m.fin => next = q.sendInit + 2 + wq
    BY <1>1, <1>2, InOrderCounts
  <2> QED
    BY <2>1, <2>2, <2>3, <2>4
<1>4. t.recvNext + 1 = q.sendNext
  BY <1>3, CountsToNext
<1>5. m.data = <<>>
  BY <1>1 DEF Heard, SegmentOK
<1>6. Len(m.data) + Flag(m.fin) = 1
  BY <1>5 DEF Flag
<1>7. next = t.recvNext + 1
  BY <1>3, <1>6
<1> QED
  BY <1>3, <1>4, <1>7

LEMMA OnFinWait1Concludes ==
    ASSUME NoWrap, NEW e \in Endpoints, NEW t, NEW w, NEW q, NEW wq, NEW d,
           NEW m, Told(e, t, w, q, wq, d, m), t.state = "FIN_WAIT1",
           m.seq = t.recvNext
    PROVE  Concludes(t, q, wq, w, OnFinWait1(t, m))
<1> DEFINE a == Ack(t, m)
           v == [a EXCEPT !.recvNext = Plus(a.recvNext, 1)]
           r == MakeSureSendback(v)
           s == IF WaitingForAck(r.tcb) THEN "CLOSING" ELSE "TIME_WAIT"
           u == [r.tcb EXCEPT !.state = s]
           z == [a EXCEPT !.state = "FIN_WAIT2"]
<1>1. /\ m \in Segment(Endpoints) /\ m.ackSeq <= q.recvNext
      /\ Sound(e, t, w, q, wq, d)
  BY DEF Told, Heard, SegmentOK
<1>2. /\ Sound(e, a, w, q, wq, d) /\ a.sendUnack <= a.sendNext
      /\ a.state = "FIN_WAIT1" /\ Prepared(t, q, wq, a)
      /\ m.fin => a.sendUnack = q.recvNext \/ HasFin(q, a, w)
  BY AckPrepares
<1>3. a \in Block(Endpoints, e) /\ SenderSide(e, a, w) /\ a \in TCB(Endpoints)
  BY <1>2 DEF Sound, SenderSide, Block
<1>4. CASE ~(~HavePayload(m) /\ ~m.syn /\ m.fin)
  <2>1. OnFinWait1(t, m) \in {Silent(a), Silent(z)}
    BY <1>4 DEF OnFinWait1, IsPureAck, NeedToAck
  <2> HIDE DEF a
  <2>2. z.state = "FIN_WAIT2"
    BY <1>3 DEF TCB
  <2>3. Prepared(t, q, wq, z)
    BY <1>2, <1>3, StatePrepared
  <2> HIDE DEF z
  <2>4. Concludes(t, q, wq, w, Silent(a)) /\ Concludes(t, q, wq, w, Silent(z))
    BY <1>2, <2>2, <2>3, SilentConcludes DEF ClosedOK, FinStates
  <2> QED
    BY <2>1, <2>4
<1>5. CASE ~HavePayload(m) /\ ~m.syn /\ m.fin
  <2>1. OnFinWait1(t, m) = Result(u, r.out)
    BY <1>5 DEF OnFinWait1, IsPureAck, NeedToAck
  <2>2. a.recvNext = t.recvNext
    BY <1>1, AckSafe
  <2> DEFINE next == Plus(t.recvNext, 1)
  <2>3. /\ next = q.sendNext /\ next = q.sendInit + 2 + wq
        /\ next \in Nat /\ t.recvNext <= next
    BY <1>5, FinConcludes
  <2> HIDE DEF a, next
  <2>4. v = [a EXCEPT !.recvNext = next]
    BY <2>2 DEF next
  <2>5. v \in Block(Endpoints, e)
    BY <1>3, <2>3, <2>4, SettingType
  <2>6. /\ v.state = "FIN_WAIT1"
        /\ v.sendInit = a.sendInit /\ v.sendNext = a.sendNext
        /\ v.sendUnack = a.sendUnack
        /\ v.sendBuf = a.sendBuf /\ v.lastSeg = a.lastSeg
        /\ v.recvNext = next
    BY <1>2, <1>3, <2>4 DEF TCB
  <2> HIDE DEF v
  <2>7. SenderSide(e, v, w)
    BY <1>2, <1>3, <2>2, <2>3, <2>5, <2>6, SenderFrame
  <2>8. Prepared(t, q, wq, v)
    BY <1>2, <2>3, <2>6 DEF Prepared
  <2>9. Knows(v, w, q)
    BY <2>6 DEF Knows, FinStates
  <2>10. Concludes(t, q, wq, w, r)
    BY <1>2, <2>6, <2>7, <2>8, <2>9, AnswerConcludes
  <2>11. SameButSent(v, r.tcb) /\ r.tcb \in TCB(Endpoints)
    BY <2>7, SendbackSafe DEF Sends, SenderSide, Block
  <2> HIDE DEF r
  <2> DEFINE x == r.tcb
  <2>12. /\ x.state = "FIN_WAIT1" /\ x.sendUnack = a.sendUnack
         /\ x.sendInit = a.sendInit
    BY <2>6, <2>11 DEF SameButSent
  <2>13. /\ u.state = s
         /\ u.sendInit = x.sendInit /\ u.sendNext = x.sendNext
         /\ u.sendUnack = x.sendUnack
         /\ u.lastSeg = x.lastSeg /\ u.recvNext = x.recvNext
    BY <2>11 DEF TCB
  <2>14. s # "CLOSE" /\ t.state # "CLOSE" /\ (s = "CLOSING" <=> WaitingForAck(x))
         /\ s \in {"CLOSING", "TIME_WAIT"}
    OBVIOUS
  <2> HIDE DEF u, s
  <2>15. Goes(t, q, wq, r)
    BY <2>10 DEF Concludes
  <2> DEFINE y == Result(u, r.out)
  <2>16. y.tcb = u /\ y.out = r.out
    BY DEF Result
  <2> HIDE DEF y
  <2>17. SameSent(t, u) \/ NextSent(t, u)
    BY <2>13, <2>14, <2>15 DEF Goes, SameSent, NextSent
  <2>18. Speaks(y)
    BY <2>13, <2>14, <2>15, <2>16 DEF Goes, Speaks
  <2>19. Goes(t, q, wq, y)
    BY <2>12, <2>13, <2>14, <2>15, <2>16, <2>17, <2>18 DEF Goes
  <2>20. ClosedOK(u, w, q)
    <3>1. u.state = "CLOSING" => WaitingForAck(u)
      BY <2>13, <2>14 DEF WaitingForAck
    <3>2. a.sendUnack = q.recvNext \/ HasFin(q, a, w)
      BY <1>2, <1>5
    <3>3. HasFin(q, a, w) => HasFin(q, u, w)
      BY <2>12, <2>13, <2>14 DEF HasFin, NotOpened
    <3>4. u.sendUnack = q.recvNext \/ HasFin(q, u, w)
      BY <2>12, <2>13, <3>2, <3>3
    <3> QED
      BY <2>13, <2>14, <3>1, <3>4 DEF ClosedOK
  <2> QED
    BY <2>1, <2>16, <2>19, <2>20 DEF Concludes, y
<1> QED
  BY <1>4, <1>5

LEMMA OnFinWait2Concludes ==
    ASSUME NoWrap, NEW e \in Endpoints, NEW t, NEW w, NEW q, NEW wq, NEW d,
           NEW m, Told(e, t, w, q, wq, d, m), t.state = "FIN_WAIT2",
           m.seq = t.recvNext
    PROVE  Concludes(t, q, wq, w, OnFinWait2(t, m))
<1> DEFINE a == Ack(t, m)
           next == Plus(t.recvNext, 1)
           u == [a EXCEPT !.recvNext = next, !.state = "TIME_WAIT"]
<1>1. /\ m \in Segment(Endpoints) /\ m.ackSeq <= q.recvNext
      /\ Sound(e, t, w, q, wq, d)
  BY DEF Told, Heard, SegmentOK
<1>2. /\ Sound(e, a, w, q, wq, d) /\ a.sendUnack <= a.sendNext
      /\ a.state = "FIN_WAIT2" /\ Prepared(t, q, wq, a)
  BY AckPrepares
<1>3. /\ a \in Block(Endpoints, e) /\ SenderSide(e, a, w)
      /\ a \in TCB(Endpoints) /\ Fits(a) /\ a.local = e
  BY <1>2 DEF Sound, SenderSide, Block
<1>4. a.recvNext = t.recvNext
  BY <1>1, AckSafe
<1>5. CASE HavePayload(m) \/ m.syn \/ ~m.fin
  <2>1. OnFinWait2(t, m) = Silent(a)
    BY <1>5 DEF OnFinWait2
  <2> HIDE DEF a
  <2>2. Concludes(t, q, wq, w, Silent(a))
    BY <1>2, SilentConcludes DEF ClosedOK, FinStates
  <2> QED
    BY <2>1, <2>2
<1>6. CASE ~(HavePayload(m) \/ m.syn \/ ~m.fin)
  <2>1. OnFinWait2(t, m) = MakeSureSendback(u)
    BY <1>3, <1>4, <1>6 DEF OnFinWait2, TCB
  <2>2. /\ next = q.sendNext /\ next = q.sendInit + 2 + wq
        /\ next \in Nat /\ t.recvNext <= next
    BY <1>6, FinConcludes
  <2> HIDE DEF a, next
  <2>3. u \in Block(Endpoints, e)
    BY <1>3, <2>2 DEF TCB, Block, Fits, States
  <2>4. /\ u.state = "TIME_WAIT"
        /\ u.sendInit = a.sendInit /\ u.sendNext = a.sendNext
        /\ u.sendUnack = a.sendUnack
        /\ u.sendBuf = a.sendBuf /\ u.lastSeg = a.lastSeg
        /\ u.recvNext = next
    BY <1>3 DEF TCB
  <2> HIDE DEF u
  <2>5. SenderSide(e, u, w)
    BY <1>2, <1>3, <1>4, <2>2, <2>3, <2>4, SenderFrame DEF WriteStates
  <2>6. Prepared(t, q, wq, u)
    BY <1>2, <2>2, <2>4 DEF Prepared
  <2>7. Knows(u, w, q)
    BY <2>4 DEF Knows
  <2>8. Concludes(t, q, wq, w, MakeSureSendback(u))
    BY <1>2, <2>4, <2>5, <2>6, <2>7, AnswerConcludes
  <2> QED
    BY <2>1, <2>8
<1> QED
  BY <1>5, <1>6

\* The last handlers only change the state.
LEMMA LastHandlersConclude ==
    ASSUME NEW e \in Endpoints, NEW t \in Block(Endpoints, e), NEW q, NEW wq,
           NEW w, ClosedOK(t, w, q), t.state # "CLOSE", NEW m
    PROVE  /\ Concludes(t, q, wq, w, OnCloseWait(t, m))
           /\ Concludes(t, q, wq, w, OnTimeWait(t, m))
           /\ Concludes(t, q, wq, w, OnClosing(t, m))
           /\ Concludes(t, q, wq, w, OnLastAck(t, m))
<1>1. Concludes(t, q, wq, w, Silent(t))
  BY StaysConcludes
<1>2. Concludes(t, q, wq, w, Silent([t EXCEPT !.state = "TIME_WAIT"]))
  BY StaysConcludes
<1> DEFINE next == Plus(t.sendUnack, 1)
           u == [t EXCEPT !.state = "CLOSE", !.sendUnack = next]
<1>3. t \in TCB(Endpoints)
  BY DEF Block
<1>4. OnLastAck(t, m) \in {Silent(u), Silent(t)}
  BY <1>3 DEF OnLastAck, TCB
<1> HIDE DEF next
<1>5. /\ u.state = "CLOSE" /\ u.sendNext = t.sendNext /\ u.lastSeg = t.lastSeg
      /\ u.recvNext = t.recvNext
  BY <1>3 DEF TCB
<1> HIDE DEF u
<1>6. Concludes(t, q, wq, w, Silent(u))
  BY <1>5, SilentConcludes DEF Prepared, ClosedOK, FinStates
<1>7. Concludes(t, q, wq, w, OnLastAck(t, m))
  BY <1>1, <1>4, <1>6
<1> QED
  BY <1>1, <1>2, <1>7 DEF OnCloseWait, OnTimeWait, OnClosing

\* close() sends the FIN or leaves it out.
LEMMA CloseSendsConcludes ==
    ASSUME NoWrap, NEW e \in Endpoints, NEW t, NEW w, NEW q, NEW wq, NEW d,
           Sound(e, t, w, q, wq, d), Near(e, t, w, q, wq), ClosedOK(t, w, q),
           NEW s, Closes(t, s)
    PROVE  Concludes(t, q, wq, w, SendCtrl([t EXCEPT !.state = s], "fin"))
<1> DEFINE u == [t EXCEPT !.state = s]
           v == WithFin(t, s)
<1>1. /\ t \in Block(Endpoints, e) /\ t \in TCB(Endpoints)
      /\ t.state # "CLOSE" /\ t.sendUnack <= t.sendNext
      /\ s # "CLOSE" /\ s # "NONE"
      /\ s \in FinStates \ {"TIME_WAIT"} => t.state \in FinStates \ {"TIME_WAIT"}
  BY DEF Near, Closes, Block, FinStates
<1>2. SendCtrl(u, "fin") = IF Len(t.sendBuf) = SendCapacity
                           THEN Silent(u) ELSE MakeSureSendback(v)
  BY <1>1, FinSent
<1>3. Prepared(t, q, wq, t)
  BY DEF Prepared
<1>4. CASE Len(t.sendBuf) = SendCapacity
  <2>1. Prepared(t, q, wq, u)
    BY <1>1, <1>3, StatePrepared
  <2>2. /\ u.state = s /\ u.sendBuf = t.sendBuf /\ u.sendUnack = t.sendUnack
        /\ u.sendNext = t.sendNext /\ u.sendInit = t.sendInit
    BY <1>1 DEF TCB
  <2> HIDE DEF u
  <2>3. ClosedOK(u, w, q)
    BY <1>1, <2>2 DEF ClosedOK, WaitingForAck, HasFin, NotOpened
  <2>4. Concludes(t, q, wq, w, Silent(u))
    BY <2>1, <2>3, SilentConcludes
  <2> QED
    BY <1>2, <1>4, <2>4 DEF u
<1>5. CASE Len(t.sendBuf) # SendCapacity
  <2>1. /\ Sound(e, v, w, q, wq, d)
        /\ v.state = s
        /\ v.sendInit = t.sendInit /\ v.sendNext = t.sendNext
        /\ v.sendUnack = t.sendUnack /\ v.lastSeg = t.lastSeg
        /\ v.recvNext = t.recvNext
    BY <1>5, FinQueued
  <2> HIDE DEF v
  <2>2. Prepared(t, q, wq, v)
    BY <1>1, <2>1 DEF Prepared
  <2>3. Knows(v, w, q)
    BY <1>1, <2>1 DEF Knows, ClosedOK, HasFin, NotOpened
  <2>4. Concludes(t, q, wq, w, MakeSureSendback(v))
    BY <1>1, <2>1, <2>2, <2>3, AnswerConcludes DEF Sound
  <2> QED
    BY <1>2, <1>5, <2>4 DEF v
<1> QED
  BY <1>4, <1>5

LEMMA CloseTcbConcludes ==
    ASSUME NoWrap, NEW e \in Endpoints, NEW t, NEW w, NEW q, NEW wq, NEW d,
           Sound(e, t, w, q, wq, d), Near(e, t, w, q, wq), ClosedOK(t, w, q)
    PROVE  Concludes(t, q, wq, w, CloseTcb(t))
<1>1. CASE t.state = "SYN_SENT"
  <2>1. CloseTcb(t) = Silent([t EXCEPT !.state = "CLOSE"])
    BY <1>1 DEF CloseTcb
  <2>2. Concludes(t, q, wq, w, Silent([t EXCEPT !.state = "CLOSE"]))
    <3>1. t \in Block(Endpoints, e) /\ "CLOSE" \notin FinStates
      BY DEF Near, FinStates
    <3> QED
      BY <1>1, <3>1, StaysConcludes
  <2> QED
    BY <2>1, <2>2
<1>2. CASE t.state \in {"SYN_RECV", "ESTABLISHED"}
  <2>1. CloseTcb(t) = SendCtrl([t EXCEPT !.state = "FIN_WAIT1"], "fin")
    BY <1>2 DEF CloseTcb
  <2> QED
    BY <1>2, <2>1, CloseSendsConcludes DEF Closes
<1>3. CASE t.state = "CLOSE_WAIT"
  <2>1. CloseTcb(t) = SendCtrl([t EXCEPT !.state = "LAST_ACK"], "fin")
    BY <1>3 DEF CloseTcb
  <2> QED
    BY <1>3, <2>1, CloseSendsConcludes DEF Closes
<1>4. CASE t.state \notin {"SYN_SENT", "SYN_RECV", "ESTABLISHED", "CLOSE_WAIT"}
  <2>1. CloseTcb(t) = Silent(t)
    BY <1>4 DEF CloseTcb
  <2>2. Prepared(t, q, wq, t)
    BY DEF Prepared
  <2> QED
    BY <2>1, <2>2, SilentConcludes
<1> QED
  BY <1>1, <1>2, <1>3, <1>4

\* The timer repeats the last segment.
LEMMA RetransmitConcludes ==
    ASSUME NEW e \in Endpoints, NEW t, NEW w, NEW q, NEW wq,
           Near(e, t, w, q, wq), ClosedOK(t, w, q), t.state # "CLOSE"
    PROVE  Concludes(t, q, wq, w, Retransmit(t))
<1> DEFINE m == [t.lastSeg EXCEPT !.ackSeq = t.recvNext]
           n == t.retransCount + 1
           u == [t EXCEPT !.lastSeg = m, !.retransCount = n]
<1>1. t \in Block(Endpoints, e) /\ t \in TCB(Endpoints) /\ ~NotOpened(t)
  BY DEF Near, Block
<1>2. CASE t.retransCount >= MaxRetrans
  <2>1. Retransmit(t) = Silent([t EXCEPT !.state = "CLOSE"])
    BY <1>2 DEF Retransmit
  <2>2. Concludes(t, q, wq, w, Silent([t EXCEPT !.state = "CLOSE"]))
    <3>1. "CLOSE" \notin FinStates
      BY DEF FinStates
    <3> QED
      BY <1>1, <3>1, StaysConcludes
  <2> QED
    BY <2>1, <2>2
<1>3. CASE ~(t.retransCount >= MaxRetrans)
  <2>1. Retransmit(t) = Result(u, {m})
    BY <1>1, <1>3 DEF Retransmit, TCB
  <2>2. /\ m.syn = t.lastSeg.syn /\ m.fin = t.lastSeg.fin
        /\ m.seq = t.lastSeg.seq /\ m.data = t.lastSeg.data
        /\ m.ackSeq = t.recvNext
    BY <1>1, BlockFields DEF Segment
  <2>3. SegLen(m) = SegLen(t.lastSeg)
    BY <2>2 DEF SegLen
  <2> HIDE DEF m, n
  <2>4. /\ u.state = t.state
        /\ u.sendInit = t.sendInit /\ u.sendNext = t.sendNext
        /\ u.sendUnack = t.sendUnack
        /\ u.sendBuf = t.sendBuf /\ u.lastSeg = m
        /\ u.recvNext = t.recvNext
    BY <1>1 DEF TCB
  <2> HIDE DEF u
  <2>5. SameSent(t, u)
    BY <2>2, <2>3, <2>4 DEF SameSent
  <2>6. Speaks(Result(u, {m}))
    BY <2>2, <2>4 DEF Speaks, Result
  <2>7. Goes(t, q, wq, Result(u, {m}))
    BY <2>4, <2>5, <2>6 DEF Goes, Result
  <2>8. ClosedOK(u, w, q)
    BY <2>4 DEF ClosedOK, WaitingForAck, HasFin, NotOpened
  <2> QED
    BY <2>1, <2>7, <2>8 DEF Concludes, Result
<1> QED
  BY <1>2, <1>3

-----------------------------------------------------------------------------
(* The steps of the system.                                                *)

\* A step of one end whose result is safe and with which the invariant goes on.
LEMMA EffectAck ==
    ASSUME Inductive, Inductive', Acknowledging, NEW e \in Endpoints,
           tcb[e].state # "NONE", NEW r,
           Safe(e, tcb[e], written[e], tcb[Peer(e)], written[Peer(e)],
                delivered[e], r),
           Concludes(tcb[e], tcb[Peer(e)], written[Peer(e)], written[e], r),
           NEW underWay \in SUBSET net, Effect(e, r, underWay),
           UNCHANGED written
    PROVE  Acknowledging'
<1>1. Goes(tcb[e], tcb[Peer(e)], written[Peer(e)], r)
  BY DEF Concludes
<1>2. ClosedOK(r.tcb, written[e], tcb[Peer(e)])
  BY DEF Concludes
<1>3. Grows(tcb[e], written[e], r.tcb, written[e])
  BY DEF Safe
<1>4. tcb' = [tcb EXCEPT ![e] = r.tcb]
  BY DEF Effect
<1>5. \A m \in net' : m \in net \/ (m \in r.out /\ m.src = e)
  BY DEF Effect, Safe, Sends
<1>6. written'[e] = written[e] /\ written'[Peer(e)] = written[Peer(e)]
  OBVIOUS
<1> QED
  BY <1>1, <1>2, <1>3, <1>4, <1>5, <1>6, EndGoes

\* What the invariant says when a segment arrives at an open block.
LEMMA ToldNow ==
    ASSUME Inductive, Acknowledging, NEW e \in Endpoints,
           tcb[e].state \notin {"NONE", "CLOSE"}, NEW m \in Arriving(e)
    PROVE  Told(e, tcb[e], written[e], tcb[Peer(e)], written[Peer(e)],
                delivered[e], m)
<1> DEFINE p == Peer(e)
           t == tcb[e]
           q == tcb[p]
           w == written[e]
           wq == written[p]
<1>1. p \in Endpoints /\ Peer(p) = e /\ m \in net /\ m.src = p
  BY EndpointsDef DEF Arriving
<1>2. Sound(e, t, w, q, wq, delivered[e]) /\ Near(e, t, w, q, wq)
  BY SoundNow, NearNow
<1>3. Heard(m, q, wq)
  BY HeardNow
<1>4. ~NotOpened(q) /\ ~NotOpened(t) /\ t.state # "CLOSE"
  BY <1>3 DEF Heard, SegmentOK, NotOpened
<1>5. LastOK(t, q) /\ ClosedOK(t, w, q)
  BY <1>4 DEF Acknowledging
<1>6. LastOK(q, t)
  BY <1>1, <1>4 DEF Acknowledging
<1>7. WholeOK(q, m) /\ Cut(t, m.ackSeq) /\ FinOK(q, t, w, m)
  BY <1>1 DEF Acknowledging
<1> QED
  BY <1>2, <1>3, <1>4, <1>5, <1>6, <1>7 DEF Told

LEMMA HandledAck ==
    ASSUME Inductive, Inductive', Acknowledging, NEW e \in Endpoints,
           NEW m \in Arriving(e), NEW s, NEW r, HandledAs(s, e, m, r),
           Safe(e, tcb[e], written[e], tcb[Peer(e)], written[Peer(e)],
                delivered[e], r),
           Concludes(tcb[e], tcb[Peer(e)], written[Peer(e)], written[e], r)
    PROVE  Acknowledging'
<1>1. /\ Effect(e, r, After(m)) /\ Reaches(m, e) /\ UNCHANGED written
  BY DEF HandledAs
<1>2. tcb[e].state # "NONE"
  BY <1>1, ReachedBlock
<1>3. After(m) \in SUBSET net
  BY DEF After
<1> QED
  BY <1>1, <1>2, <1>3, EffectAck

LEMMA ReceiveAck ==
    ASSUME NoWrap, Inductive, Inductive', Acknowledging, NEW e \in Endpoints,
           NEW m \in Arriving(e),
           \/ HandledAs("SYN_RECV", e, m, OnSynRecv(tcb[e], m))
           \/ HandledAs("SYN_SENT", e, m, OnSynSent(tcb[e], m))
           \/ HandledAs("ESTABLISHED", e, m, OnEstablished(tcb[e], m))
           \/ HandledAs("FIN_WAIT1", e, m, OnFinWait1(tcb[e], m))
           \/ HandledAs("FIN_WAIT2", e, m, OnFinWait2(tcb[e], m))
           \/ HandledAs("CLOSE_WAIT", e, m, OnCloseWait(tcb[e], m))
           \/ HandledAs("CLOSING", e, m, OnClosing(tcb[e], m))
           \/ HandledAs("LAST_ACK", e, m, OnLastAck(tcb[e], m))
           \/ HandledAs("TIME_WAIT", e, m, OnTimeWait(tcb[e], m))
    PROVE  Acknowledging'
<1> DEFINE t == tcb[e]
           w == written[e]
           q == tcb[Peer(e)]
           wq == written[Peer(e)]
           d == delivered[e]
<1>1. Heard(m, q, wq)
  BY HeardNow
<1>2. t.state \notin {"NONE", "CLOSE"} =>
         Sound(e, t, w, q, wq, d) /\ Told(e, t, w, q, wq, d, m)
  BY SoundNow, ToldNow
<1>3. t.state \notin {"NONE", "CLOSE"} =>
         t \in Block(Endpoints, e) /\ ClosedOK(t, w, q)
  BY <1>2 DEF Told, Near
<1> HIDE DEF w, q, wq, d
<1>4. CASE HandledAs("SYN_RECV", e, m, OnSynRecv(t, m))
  <2>1. t.state = "SYN_RECV"
    BY <1>4 DEF HandledAs
  <2>2. Safe(e, t, w, q, wq, d, OnSynRecv(t, m))
    BY <1>1, <1>2, <2>1, OnSynRecvSafe
  <2>3. Concludes(t, q, wq, w, OnSynRecv(t, m))
    BY <1>2, <2>1, OnSynRecvConcludes
  <2> QED
    BY <1>4, <2>2, <2>3, HandledAck DEF w, q, wq, d
<1>5. CASE HandledAs("SYN_SENT", e, m, OnSynSent(t, m))
  <2>1. t.state = "SYN_SENT"
    BY <1>5 DEF HandledAs
  <2>2. Safe(e, t, w, q, wq, d, OnSynSent(t, m))
    BY <1>1, <1>2, <2>1, OnSynSentSafe
  <2>3. Concludes(t, q, wq, w, OnSynSent(t, m))
    BY <1>2, <2>1, OnSynSentConcludes
  <2> QED
    BY <1>5, <2>2, <2>3, HandledAck DEF w, q, wq, d
<1>6. CASE HandledAs("ESTABLISHED", e, m, OnEstablished(t, m))
  <2>1. t.state = "ESTABLISHED" /\ m.seq = t.recvNext
    BY <1>6 DEF HandledAs, InOrder
  <2>2. Safe(e, t, w, q, wq, d, OnEstablished(t, m))
    BY <1>1, <1>2, <2>1, OnEstablishedSafe
  <2>3. Concludes(t, q, wq, w, OnEstablished(t, m))
    BY <1>2, <2>1, OnEstablishedConcludes
  <2> QED
    BY <1>6, <2>2, <2>3, HandledAck DEF w, q, wq, d
<1>7. CASE HandledAs("FIN_WAIT1", e, m, OnFinWait1(t, m))
  <2>1. t.state = "FIN_WAIT1" /\ m.seq = t.recvNext
    BY <1>7 DEF HandledAs, InOrder
  <2>2. Safe(e, t, w, q, wq, d, OnFinWait1(t, m))
    BY <1>1, <1>2, <2>1, OnFinWait1Safe
  <2>3. Concludes(t, q, wq, w, OnFinWait1(t, m))
    BY <1>2, <2>1, OnFinWait1Concludes
  <2> QED
    BY <1>7, <2>2, <2>3, HandledAck DEF w, q, wq, d
<1>8. CASE HandledAs("FIN_WAIT2", e, m, OnFinWait2(t, m))
  <2>1. t.state = "FIN_WAIT2" /\ m.seq = t.recvNext
    BY <1>8 DEF HandledAs, InOrder
  <2>2. Safe(e, t, w, q, wq, d, OnFinWait2(t, m))
    BY <1>1, <1>2, <2>1, OnFinWait2Safe
  <2>3. Concludes(t, q, wq, w, OnFinWait2(t, m))
    BY <1>2, <2>1, OnFinWait2Concludes
  <2> QED
    BY <1>8, <2>2, <2>3, HandledAck DEF w, q, wq, d
<1>9. CASE HandledAs("CLOSE_WAIT", e, m, OnCloseWait(t, m))
  <2>1. t.state = "CLOSE_WAIT"
    BY <1>9 DEF HandledAs
  <2>2. Safe(e, t, w, q, wq, d, OnCloseWait(t, m))
    BY <1>2, <2>1, SilentSafe DEF OnCloseWait
  <2>3. Concludes(t, q, wq, w, OnCloseWait(t, m))
    BY <1>3, <2>1, LastHandlersConclude
  <2> QED
    BY <1>9, <2>2, <2>3, HandledAck DEF w, q, wq, d
<1>10. CASE HandledAs("CLOSING", e, m, OnClosing(t, m))
  <2>1. t.state = "CLOSING"
    BY <1>10 DEF HandledAs
  <2>2. Safe(e, t, w, q, wq, d, OnClosing(t, m))
    BY <1>2, <2>1, OnClosingSafe
  <2>3. Concludes(t, q, wq, w, OnClosing(t, m))
    BY <1>3, <2>1, LastHandlersConclude
  <2> QED
    BY <1>10, <2>2, <2>3, HandledAck DEF w, q, wq, d
<1>11. CASE HandledAs("LAST_ACK", e, m, OnLastAck(t, m))
  <2>1. t.state = "LAST_ACK"
    BY <1>11 DEF HandledAs
  <2>2. Safe(e, t, w, q, wq, d, OnLastAck(t, m))
    BY <1>2, <2>1, OnLastAckSafe
  <2>3. Concludes(t, q, wq, w, OnLastAck(t, m))
    BY <1>3, <2>1, LastHandlersConclude
  <2> QED
    BY <1>11, <2>2, <2>3, HandledAck DEF w, q, wq, d
<1>12. CASE HandledAs("TIME_WAIT", e, m, OnTimeWait(t, m))
  <2>1. t.state = "TIME_WAIT"
    BY <1>12 DEF HandledAs
  <2>2. Safe(e, t, w, q, wq, d, OnTimeWait(t, m))
    BY <1>2, <2>1, SilentSafe DEF OnTimeWait
  <2>3. Concludes(t, q, wq, w, OnTimeWait(t, m))
    BY <1>3, <2>1, LastHandlersConclude
  <2> QED
    BY <1>12, <2>2, <2>3, HandledAck DEF w, q, wq, d
<1> QED
  BY <1>4, <1>5, <1>6, <1>7, <1>8, <1>9, <1>10, <1>11, <1>12

LEMMA OutOfOrderAck ==
    ASSUME NoWrap, Inductive, Inductive', Acknowledging, NEW e \in Endpoints,
           ReceiveOutOfOrder(e)
    PROVE  Acknowledging'
<1>1. PICK m \in Arriving(e) :
          /\ Reaches(m, e)
          /\ Effect(e, OnOutOfOrder(tcb[e], m), After(m))
          /\ UNCHANGED <<registry, losses, written, delivered>>
  BY DEF ReceiveOutOfOrder
<1>2. tcb[e].state \notin {"NONE", "CLOSE"}
  BY <1>1, ReachedBlock
<1>3. Safe(e, tcb[e], written[e], tcb[Peer(e)], written[Peer(e)],
           delivered[e], OnOutOfOrder(tcb[e], m))
  BY <1>2, SoundNow, HeardNow, OnOutOfOrderSafe
<1>4. Concludes(tcb[e], tcb[Peer(e)], written[Peer(e)], written[e],
                OnOutOfOrder(tcb[e], m))
  BY <1>2, ToldNow, OnOutOfOrderConcludes
<1>5. After(m) \in SUBSET net
  BY DEF After
<1> QED
  BY <1>1, <1>2, <1>3, <1>4, <1>5, EffectAck

LEMMA CloseAck ==
    ASSUME NoWrap, Inductive, Inductive', Acknowledging, NEW e \in Endpoints,
           Close(e)
    PROVE  Acknowledging'
<1> DEFINE r == CloseTcb(tcb[e])
<1>1. tcb[e].state # "NONE"
  BY DEF Close, Inductive, NotOpened
<1>2. /\ Sound(e, tcb[e], written[e], tcb[Peer(e)], written[Peer(e)],
               delivered[e])
      /\ Near(e, tcb[e], written[e], tcb[Peer(e)], written[Peer(e)])
      /\ ClosedOK(tcb[e], written[e], tcb[Peer(e)])
  BY <1>1, SoundNow, NearNow DEF Acknowledging
<1>3. Safe(e, tcb[e], written[e], tcb[Peer(e)], written[Peer(e)],
           delivered[e], r)
  BY <1>2, CloseTcbSafe
<1>4. Concludes(tcb[e], tcb[Peer(e)], written[Peer(e)], written[e], r)
  BY <1>2, CloseTcbConcludes
<1>5. Effect(e, r, net) /\ UNCHANGED written /\ net \in SUBSET net
  BY DEF Close, Step
<1> HIDE DEF r
<1> QED
  BY <1>1, <1>3, <1>4, <1>5, EffectAck

LEMMA TimerAck ==
    ASSUME NoWrap, Inductive, Inductive', Acknowledging, NEW e \in Endpoints,
           Timer(e)
    PROVE  Acknowledging'
<1> DEFINE t == tcb[e]
           w == written[e]
           q == tcb[Peer(e)]
           wq == written[Peer(e)]
           d == delivered[e]
<1>1. t.state \notin {"NONE", "CLOSE"}
  BY DEF Timer, Timeout, TimedOut, TimeWaitExpire
<1>2. /\ Sound(e, t, w, q, wq, d) /\ Near(e, t, w, q, wq)
      /\ ClosedOK(t, w, q)
  BY <1>1, SoundNow, NearNow DEF Acknowledging
<1>3. CASE Timeout(e)
  <2> DEFINE r == Retransmit(t)
  <2>1. Effect(e, r, net) /\ UNCHANGED written /\ net \in SUBSET net
    BY <1>3 DEF Timeout, Step
  <2> HIDE DEF w, q, wq, d
  <2>2. Safe(e, t, w, q, wq, d, r)
    BY <1>1, <1>2, RetransmitSafe
  <2>3. Concludes(t, q, wq, w, r)
    BY <1>1, <1>2, RetransmitConcludes
  <2> HIDE DEF r
  <2> QED
    BY <1>1, <2>1, <2>2, <2>3, EffectAck DEF w, q, wq, d
<1>4. CASE TimeWaitExpire(e)
  <2> DEFINE c == [t EXCEPT !.state = "CLOSE"]
             r == Silent(c)
  <2>1. Effect(e, r, net) /\ UNCHANGED written /\ net \in SUBSET net
    BY <1>4 DEF TimeWaitExpire, Effect, Silent, Result, Inductive, TypeOK
  <2>2. t.state = "TIME_WAIT"
    BY <1>4 DEF TimeWaitExpire
  <2> HIDE DEF w, q, wq, d
  <2>3. Safe(e, t, w, q, wq, d, r)
    <3>1. Sound(e, c, w, q, wq, d) /\ Grows(t, w, c, w)
      BY <1>2, <2>2, StateSound DEF States, WriteStates
    <3> HIDE DEF c
    <3> QED
      BY <1>2, <3>1, SilentSafe, SafeOn DEF Sound, SenderSide
  <2>4. Concludes(t, q, wq, w, r)
    <3>1. t \in Block(Endpoints, e) /\ "CLOSE" \notin FinStates
      BY <1>2 DEF Near, FinStates
    <3> QED
      BY <1>1, <1>2, <3>1, StaysConcludes
  <2> HIDE DEF r
  <2> QED
    BY <1>1, <2>1, <2>3, <2>4, EffectAck DEF w, q, wq, d
<1> QED
  BY <1>3, <1>4 DEF Timer

\* tcp_send sends bytes that come after everything that was sent.
LEMMA WriteAck ==
    ASSUME NoWrap, Inductive, Inductive', Acknowledging, NEW e \in Endpoints,
           NEW n \in 1..MaxBytes[e], Write(e, n)
    PROVE  Acknowledging'
<1> DEFINE t == tcb[e]
           w == written[e]
           p == Peer(e)
           q == tcb[p]
           wq == written[p]
           d == delivered[e]
           k == Accepted(t, n)
           v == w + k
           u == WithBytes(t, w, k)
           r == MakeSureSendback(u)
<1>1. /\ t.state = "ESTABLISHED"
      /\ n \in Nat /\ w + n <= MaxBytes[e]
      /\ Effect(e, r, net) /\ written' = [written EXCEPT ![e] = v]
  BY WriteEffect
<1>2. Sound(e, t, w, q, wq, d) /\ Near(e, t, w, q, wq)
  BY <1>1, SoundNow, NearNow
<1>3. t \in Block(Endpoints, e) /\ w \in Nat /\ t.sendUnack <= t.sendNext
  BY <1>1, <1>2 DEF Near
<1>4. written'[e] = v /\ written'[p] = wq
  BY <1>1, EndpointsDef DEF Inductive, TypeOK
<1> HIDE DEF t, w
<1>5. /\ k \in Nat /\ Sound(e, u, v, q, wq, d) /\ Grows(t, w, u, v)
      /\ u.state = t.state
      /\ u.sendInit = t.sendInit /\ u.sendNext = t.sendNext
      /\ u.sendUnack = t.sendUnack /\ u.lastSeg = t.lastSeg
      /\ u.recvNext = t.recvNext
  BY <1>1, <1>2, BytesQueued
<1>6. v \in Nat /\ w <= v /\ u \in Block(Endpoints, e) /\ SenderSide(e, u, v)
  BY <1>3, <1>5 DEF Sound, SenderSide
<1> HIDE DEF k, v, u
<1>7. Safe(e, u, v, q, wq, d, r)
  BY <1>1, <1>5, AnswerSafe
<1>8. Concludes(t, q, wq, v, r)
  <2>1. Prepared(t, q, wq, u)
    BY <1>5 DEF Prepared
  <2>2. Knows(u, v, q)
    BY <1>1, <1>5 DEF Knows, FinStates
  <2> QED
    BY <1>1, <1>3, <1>5, <1>6, <2>1, <2>2, AnswerConcludes
<1> HIDE DEF r
<1>9. Goes(t, q, wq, r) /\ ClosedOK(r.tcb, v, q)
  BY <1>8 DEF Concludes
<1>10. r.tcb \in Block(Endpoints, e) /\ Grows(u, v, r.tcb, v)
  BY <1>7 DEF Safe, Sends, SenderSide
<1>11. Grows(t, w, r.tcb, v)
  BY <1>3, <1>5, <1>6, <1>10, GrowsChain
<1>12. tcb' = [tcb EXCEPT ![e] = r.tcb]
  BY <1>1 DEF Effect
<1>13. \A m \in net' : m \in net \/ (m \in r.out /\ m.src = e)
  BY <1>1, <1>7 DEF Effect, Safe, Sends
<1> QED
  BY <1>1, <1>4, <1>9, <1>11, <1>12, <1>13, EndGoes DEF t, w

LEMMA ReadAck ==
    ASSUME Inductive, Inductive', Acknowledging, NEW e \in Endpoints,
           NEW n \in 1..RecvCapacity, Read(e, n)
    PROVE  Acknowledging'
<1> DEFINE t == tcb[e]
           w == written[e]
           p == Peer(e)
           q == tcb[p]
           wq == written[p]
           taken == Min({n, Len(t.recvBuf)})
           rest == SubSeq(t.recvBuf, taken + 1, Len(t.recvBuf))
           u == [t EXCEPT !.recvBuf = rest]
           r == Silent(u)
<1>1. t.state # "NONE"
  BY DEF Read, Inductive, NotOpened
<1>2. Near(e, t, w, q, wq) /\ ClosedOK(t, w, q)
  BY <1>1, NearNow DEF Acknowledging
<1>3. t \in Block(Endpoints, e) /\ t \in TCB(Endpoints) /\ w \in Nat
  BY <1>2 DEF Near, Block
<1>4. tcb' = [tcb EXCEPT ![e] = u] /\ UNCHANGED <<net, written>>
  BY <1>3 DEF Read, Inductive, TypeOK
<1> HIDE DEF rest
<1>5. /\ u.state = t.state
      /\ u.sendInit = t.sendInit /\ u.sendNext = t.sendNext
      /\ u.sendUnack = t.sendUnack
      /\ u.sendBuf = t.sendBuf /\ u.lastSeg = t.lastSeg
      /\ u.recvInit = t.recvInit /\ u.recvNext = t.recvNext
  BY <1>3 DEF TCB
<1>6. r.tcb = u /\ r.out = {}
  BY DEF Silent, Result
<1> HIDE DEF u, t, w
<1>7. Grows(t, w, u, w)
  <2>1. t.sendNext \in Nat /\ t.recvNext \in Nat /\ w \in Nat
    BY <1>3, BlockFields
  <2> QED
    BY <1>1, <1>5, <2>1 DEF Grows, NotOpened
<1>8. Concludes(t, q, wq, w, r)
  <2>1. Prepared(t, q, wq, u)
    BY <1>5 DEF Prepared
  <2>2. ClosedOK(u, w, q)
    BY <1>2, <1>5 DEF ClosedOK, WaitingForAck, HasFin, NotOpened
  <2> QED
    BY <2>1, <2>2, SilentConcludes
<1> HIDE DEF r
<1>9. Goes(t, q, wq, r) /\ ClosedOK(r.tcb, w, q)
  BY <1>8 DEF Concludes
<1>10. /\ written'[e] = w /\ written'[p] = wq
       /\ tcb' = [tcb EXCEPT ![e] = r.tcb] /\ Grows(t, w, r.tcb, w)
       /\ \A m \in net' : m \in net
  BY <1>4, <1>6, <1>7 DEF w
<1> QED
  BY <1>1, <1>9, <1>10, EndGoes DEF t, w

\* The SYN that a new block sends or answers is the last segment of its sender.
LEMMA OpeningAck ==
    ASSUME NoWrap, Inductive, Inductive', Acknowledging, NEW e \in Endpoints,
           NEW init \in InitSeqs[e], NEW t \in Block(Endpoints, e),
           NEW underWay \in SUBSET net, Opens(e, init, t, underWay),
           t.state = "SYN_RECV" =>
              tcb[Peer(e)].sendNext = tcb[Peer(e)].sendInit + 1
    PROVE  Acknowledging'
<1> DEFINE r == SendCtrl(t, "syn")
           u == r.tcb
           m == u.lastSeg
           p == Peer(e)
           q == tcb[p]
           wq == written[p]
<1>1. p \in Endpoints /\ Peer(p) = e /\ p # e
  BY EndpointsDef
<1>2. /\ NotOpened(tcb[e]) /\ tcb[e].recvNext = 0 /\ written[e] = 0
  BY UnopenedBlock DEF Opens
<1>3. /\ u.state = t.state
      /\ u.sendInit = init /\ u.sendUnack = init /\ u.sendNext = init + 1
      /\ u.recvNext = t.recvNext
      /\ r.out = {m} /\ m.seq = init /\ SegLen(m) = 1
      /\ m.ackSeq = t.recvNext /\ ~m.fin
  BY OpeningSends DEF Opens
<1>4. tcb' = [tcb EXCEPT ![e] = u] /\ net' = underWay \cup {m}
      /\ UNCHANGED written
  BY <1>3 DEF Opens, Effect
<1>5. tcb'[e] = u /\ tcb'[p] = q
  BY <1>1, <1>4 DEF Inductive, TypeOK
<1>6. /\ BlockOK(p, q, tcb[e], wq, 0, delivered[p])
      /\ q \in Block(Endpoints, p) /\ init \in Nat
  BY <1>1, <1>2, TypeOKBlocks, TcpAssumption DEF Inductive, Endpoints
<1>7. q.recvNext = 0 /\ q.state \notin FinStates
  BY <1>2, <1>6 DEF BlockOK, ReceiverOK, FinStates
<1>8. /\ ~NotOpened(q) => LastOK(q, tcb[e])
      /\ \A x \in net : x.src = p => /\ WholeOK(q, x)
                                     /\ FinOK(q, tcb[e], 0, x)
  BY <1>1, <1>2 DEF Acknowledging
<1>9. /\ \A x \in net : x.src = p => x \in Segment(Endpoints) /\ SegmentOK(q, wq, x)
      /\ \A x \in net : x.src # e
  <2>1. \A x \in net : x.src = p => x \in Segment(Endpoints)
    BY DEF Inductive, TypeOK
  <2>2. \A x \in net : x.src = p => SegmentOK(q, wq, x)
    BY <1>1 DEF Inductive
  <2>3. \A x \in net : x.src = e => SegmentOK(tcb[e], written[e], x)
    BY DEF Inductive
  <2>4. \A x \in net : x.src # e
    BY ONLY <1>2, <2>3 DEF SegmentOK
  <2> QED
    BY ONLY <2>1, <2>2, <2>4
<1>10. /\ q.sendInit \in Nat /\ q.sendNext \in Nat /\ q.recvNext \in Nat
       /\ q.lastSeg.seq \in Nat
  BY <1>1, <1>6, BlockFields, SegmentFields
<1>11. \/ t.state = "SYN_SENT" /\ t.recvNext = 0
       \/ /\ t.state = "SYN_RECV" /\ ~NotOpened(q)
          /\ t.recvNext = q.sendInit + 1 /\ q.sendNext = q.sendInit + 1
  BY DEF Opens
<1> HIDE DEF u, m, q, wq, p
<1>12. LastOK(u, q)
  BY <1>3, <1>6, <1>7 DEF LastOK, m
<1>13. ~NotOpened(q) => LastOK(q, u)
  <2> SUFFICES ASSUME ~NotOpened(q) PROVE LastOK(q, u)
    OBVIOUS
  <2>1. /\ q.lastSeg.seq + SegLen(q.lastSeg) = q.sendNext
        /\ q.lastSeg.seq = q.sendInit
        /\ q.state # "CLOSE" => q.sendUnack \in {q.lastSeg.seq, q.sendNext}
    BY <1>2, <1>8 DEF LastOK
  <2> QED
    BY <1>3, <1>11, <2>1 DEF LastOK
<1>14. /\ WholeOK(u, m) /\ FinOK(u, q, wq, m)
       /\ Cut(q, m.ackSeq)
  BY <1>3, <1>10, <1>11 DEF WholeOK, FinOK, Cut, m
<1>15. \A x \in net' : x.src = e => /\ WholeOK(u, x) /\ Cut(q, x.ackSeq)
                                   /\ FinOK(u, q, wq, x)
  BY <1>4, <1>9, <1>14
<1>16. \A x \in net' : x.src = p => /\ WholeOK(q, x) /\ Cut(u, x.ackSeq)
                                   /\ FinOK(q, u, 0, x)
  <2> SUFFICES ASSUME NEW x \in net', x.src = p
               PROVE  WholeOK(q, x) /\ Cut(u, x.ackSeq) /\ FinOK(q, u, 0, x)
    OBVIOUS
  <2>1. m.src = e
    BY OpeningSends DEF Opens, Sends, SenderSide, m, u
  <2>2. x \in net
    BY <1>1, <1>4, <2>1
  <2>3. WholeOK(q, x) /\ ~x.fin
    BY <1>7, <1>8, <2>2 DEF FinOK
  <2>4. x.ackSeq = 0
    <3>1. x.ackSeq <= q.recvNext /\ x.ackSeq \in Nat
      BY <1>9, <2>2, SegmentFields DEF SegmentOK
    <3> QED
      BY <1>7, <3>1
  <2>5. Cut(u, x.ackSeq)
    BY <1>3, <1>6, <2>4 DEF Cut, m
  <2> QED
    BY <2>3, <2>5 DEF FinOK
<1>17. ClosedOK(u, 0, q) /\ ClosedOK(q, wq, u)
  BY <1>3, <1>7, <1>11 DEF ClosedOK, FinStates
<1>18. /\ tcb'[e] = u /\ tcb'[p] = q /\ written'[e] = 0 /\ written'[p] = wq
       /\ Peer(e) = p
  BY <1>2, <1>4, <1>5 DEF p, wq
<1> SUFFICES ASSUME NEW x \in Endpoints
             PROVE  /\ ~NotOpened(tcb'[x]) => LastOK(tcb'[x], tcb'[Peer(x)])
                    /\ ClosedOK(tcb'[x], written'[x], tcb'[Peer(x)])
                    /\ \A y \in net' : y.src = x =>
                          /\ WholeOK(tcb'[x], y)
                          /\ Cut(tcb'[Peer(x)], y.ackSeq)
                          /\ FinOK(tcb'[x], tcb'[Peer(x)], written'[Peer(x)], y)
  BY DEF Acknowledging
<1>19. CASE x = e
  BY <1>12, <1>15, <1>17, <1>18, <1>19
<1>20. CASE x = p
  BY <1>1, <1>13, <1>16, <1>17, <1>18, <1>20
<1> QED
  BY <1>1, <1>19, <1>20 DEF Endpoints, Peer, p

LEMMA ConnectAck ==
    ASSUME NoWrap, Inductive, Inductive', Acknowledging, NEW e \in Endpoints,
           Connect(e)
    PROVE  Acknowledging'
<1>1. PICK init \in InitSeqs[e], t \in Block(Endpoints, e) :
          t.state = "SYN_SENT" /\ Opens(e, init, t, net)
  BY ConnectOpens
<1> QED
  BY <1>1, OpeningAck

\* The SYN that is answered is all that its sender has sent.
LEMMA ReceiveSynAck ==
    ASSUME NoWrap, Inductive, Inductive', Acknowledging, NEW e \in Endpoints,
           ReceiveSyn(e)
    PROVE  Acknowledging'
<1>1. PICK init \in InitSeqs[e], t \in Block(Endpoints, e),
           underWay \in SUBSET net : Opens(e, init, t, underWay)
  BY ReceiveSynOpens
<1>2. PICK m \in Arriving(e) : IsSyn(m)
  BY DEF ReceiveSyn
<1> DEFINE p == Peer(e)
           q == tcb[p]
<1>3. p \in Endpoints /\ Peer(p) = e /\ m \in net /\ m.src = p /\ m.syn
  BY <1>2, EndpointsDef DEF Arriving, IsSyn
<1>4. Heard(m, q, written[p])
  BY HeardNow
<1>5. /\ ~NotOpened(q) /\ m \in Segment(Endpoints)
      /\ m.seq = q.sendInit /\ m.data = <<>> /\ ~m.fin
  BY <1>3, <1>4 DEF Heard, SegmentOK
<1>6. SegLen(m) = 1
  BY <1>3, <1>5 DEF SegLen, Flag
<1>7. tcb[e].recvNext = 0
  BY <1>1, UnopenedBlock DEF Opens
<1>8. LastOK(q, tcb[e]) /\ WholeOK(q, m)
  BY <1>3, <1>5 DEF Acknowledging
<1>9. q \in Block(Endpoints, p)
  BY <1>3, TypeOKBlocks DEF Inductive
<1>10. q.sendInit \in Nat /\ q.sendNext \in Nat
  BY <1>3, <1>9, BlockFields
<1> HIDE DEF q
<1>11. q.sendNext = q.sendInit + 1
  BY <1>5, <1>6, <1>7, <1>8, <1>10 DEF LastOK, WholeOK
<1> QED
  BY <1>1, <1>11, OpeningAck DEF q

\* The network forgets.
LEMMA NetShrinksAck ==
    ASSUME Acknowledging, net' \in SUBSET net, UNCHANGED <<tcb, written>>
    PROVE  Acknowledging'
  BY DEF Acknowledging

LEMMA InitAck == Init => Acknowledging
<1> SUFFICES ASSUME Init
             PROVE  Acknowledging
  OBVIOUS
<1>1. \A e : NoTcb(e).state = "NONE"
  BY DEF NoTcb
<1>2. \A e \in Endpoints : tcb[e] = NoTcb(e)
  BY DEF Init
<1>3. \A e \in Endpoints : tcb[e].state = "NONE"
  BY <1>1, <1>2
<1>4. net = {}
  BY DEF Init
<1> QED
  BY <1>3, <1>4 DEF Acknowledging, NotOpened, ClosedOK, FinStates

LEMMA NextAck ==
    ASSUME NoWrap, Inductive, Acknowledging, [Next]_vars
    PROVE  Acknowledging'
<1>1. Inductive'
  BY NextSafe
<1>2. ASSUME NEW e \in Endpoints, Receive(e)
      PROVE  Acknowledging'
  <2>1. CASE ReceiveSyn(e)
    BY <1>1, <2>1, ReceiveSynAck
  <2>2. CASE Discard(e)
    BY <1>1, <2>2, NetShrinksAck DEF Discard, After
  <2>3. CASE ReceiveOutOfOrder(e)
    BY <1>1, <2>3, OutOfOrderAck
  <2>4. CASE \/ ReceiveSynRecv(e) \/ ReceiveSynSent(e) \/ ReceiveEstablished(e)
             \/ ReceiveFinWait1(e) \/ ReceiveFinWait2(e) \/ ReceiveCloseWait(e)
             \/ ReceiveClosing(e) \/ ReceiveLastAck(e) \/ ReceiveTimeWait(e)
    BY <1>1, <2>4, ReceiveAck
       DEF ReceiveSynRecv, ReceiveSynSent, ReceiveEstablished, ReceiveFinWait1,
           ReceiveFinWait2, ReceiveCloseWait, ReceiveClosing, ReceiveLastAck,
           ReceiveTimeWait
  <2> QED
    BY <1>2, <2>1, <2>2, <2>3, <2>4 DEF Receive
<1>3. ASSUME NEW e \in Endpoints, User(e)
      PROVE  Acknowledging'
  BY <1>1, <1>3, ConnectAck, WriteAck, ReadAck, CloseAck DEF User
<1>4. ASSUME NEW e \in Endpoints, Timer(e)
      PROVE  Acknowledging'
  BY <1>1, <1>4, TimerAck
<1>5. CASE Lose
  BY <1>1, <1>5, NetShrinksAck DEF Lose
<1>6. CASE UNCHANGED vars
  BY <1>1, <1>6, NetShrinksAck DEF vars
<1> QED
  BY <1>2, <1>3, <1>4, <1>5, <1>6 DEF Next

-----------------------------------------------------------------------------
(* Where a stream ends, as long as no close() has failed.                  *)

\* The number that follows everything that t has sent or queued.
Total(t) == t.sendNext + Len(t.sendBuf)

\* A step of block t to u that is neither a write nor a close(): it stays able
\* to write, or adds nothing, and believes its stream taken only if it is.
Ends(t, q, u) ==
    IF t.state \in WriteStates
    THEN u.state \in WriteStates \cup {"CLOSE"}
    ELSE \/ u.state = "CLOSE"
         \/ /\ Total(u) = Total(t)
            /\ u.state \in {"FIN_WAIT2", "TIME_WAIT"} =>
                  \/ t.state \in {"FIN_WAIT2", "TIME_WAIT"}
                  \/ u.sendBuf = <<>> /\ q.recvNext = u.sendNext

LEMMA SameEnds ==
    ASSUME NEW t, NEW q, NEW u, u.state = t.state, Total(u) = Total(t)
    PROVE  Ends(t, q, u)
  BY DEF Ends

LEMMA EndsWell ==
    ASSUME NEW e \in Endpoints, NEW t \in Block(Endpoints, e), NEW w \in Nat,
           NEW q \in Block(Endpoints, Peer(e)), EndedOK(t, w, q),
           NEW u \in Block(Endpoints, e), ~NotOpened(u),
           u.sendInit = t.sendInit, t.state = "CLOSE" => u.state = "CLOSE",
           Ends(t, q, u)
    PROVE  EndedOK(u, w, q)
<1>1. Peer(e) \in Endpoints
  BY EndpointsDef
<1>2. /\ u.sendNext \in Nat /\ Len(u.sendBuf) \in Nat /\ u.sendBuf \in Seq(Item)
      /\ u.sendInit \in Nat /\ q.recvNext \in Nat
  BY <1>1, BlockFields
<1>3. CASE u.state \in WriteStates \cup {"CLOSE"}
  BY <1>3 DEF EndedOK, WriteStates
<1>4. CASE u.state \notin WriteStates \cup {"CLOSE"}
  <2>1. t.state \notin WriteStates
    BY <1>4 DEF Ends
  <2>2. /\ t.state # "CLOSE" /\ Total(u) = Total(t)
        /\ u.state \in {"FIN_WAIT2", "TIME_WAIT"} =>
              \/ t.state \in {"FIN_WAIT2", "TIME_WAIT"}
              \/ u.sendBuf = <<>> /\ q.recvNext = u.sendNext
    BY <1>4, <2>1 DEF Ends
  <2>3. Total(u) = u.sendInit + w + 2
    BY <2>1, <2>2 DEF EndedOK, Total
  <2>4. u.sendBuf = <<>> => Total(u) = u.sendNext
    BY <1>2 DEF Total
  <2>5. u.state \in {"FIN_WAIT2", "TIME_WAIT"} => HasFin(q, u, w)
    <3>1. t.state \in {"FIN_WAIT2", "TIME_WAIT"} => q.recvNext = u.sendInit + 2 + w
      BY DEF EndedOK, HasFin
    <3>2. q.recvNext = Total(u) => q.recvNext = u.sendInit + 2 + w
      BY <1>2, <2>3
    <3> QED
      BY <2>2, <2>4, <3>1, <3>2 DEF HasFin
  <2> QED
    BY <2>3, <2>5 DEF EndedOK, Total
<1> QED
  BY <1>3, <1>4

\* Block p waits for an acknowledgement or q has taken all that p has sent.
Level(e, p, q) ==
    /\ p \in Block(Endpoints, e)
    /\ p.sendUnack <= p.sendNext
    /\ Total(p) < SeqSpace
    /\ ~WaitingForAck(p) => q.recvNext = p.sendNext

LEMMA SoundIsLevel ==
    ASSUME NoWrap, NEW e \in Endpoints, NEW t, NEW w, NEW q, NEW wq, NEW d,
           Sound(e, t, w, q, wq, d), t.state # "CLOSE"
    PROVE  Level(e, t, q)
<1>1. /\ t \in Block(Endpoints, e) /\ w \in Nat /\ ~NotOpened(t)
      /\ SenderSide(e, t, w) /\ t.sendInit < t.sendNext
      /\ q \in Block(Endpoints, Peer(e)) /\ Peer(e) \in Endpoints
      /\ q.recvNext <= t.sendNext
  BY EndpointsDef DEF Sound, SenderSide, SenderOK
<1>2. /\ t.sendInit \in Nat /\ t.sendNext \in Nat /\ t.sendUnack \in Nat
      /\ Len(t.sendBuf) \in Nat /\ q.recvNext \in Nat
  BY <1>1, BlockFields
<1>3. /\ t.sendUnack <= t.sendNext
      /\ t.sendUnack > t.sendInit => t.sendUnack <= q.recvNext
  BY <1>1 DEF Sound, AckedOK, NotOpened
<1>4. Total(t) < SeqSpace
  <2>1. /\ t.sendInit + w + 3 < SeqSpace
        /\ t.sendNext + Len(t.sendBuf) <= t.sendInit + w + 2
    BY <1>1, SenderFits
  <2> DEFINE n == Len(t.sendBuf)
  <2>2. n \in Nat /\ w \in Nat /\ SeqSpace \in Nat
    BY <1>1, <1>2, TcbAssumption
  <2>3. Total(t) = t.sendNext + n
    BY DEF Total
  <2> HIDE DEF n
  <2>4. t.sendNext + n < SeqSpace
    BY <1>2, <2>1, <2>2 DEF n
  <2> QED
    BY <2>3, <2>4
<1>5. ~WaitingForAck(t) => q.recvNext = t.sendNext
  BY <1>1, <1>2, <1>3 DEF WaitingForAck
<1> QED
  BY <1>1, <1>3, <1>4, <1>5 DEF Level

\* Sending moves items from the buffer to the network, and stops with nothing
\* in the buffer or something under way.
LEMMA SendbackEnds ==
    ASSUME NEW e \in Endpoints, NEW p, NEW q, Level(e, p, q)
    PROVE  LET u == MakeSureSendback(p).tcb
           IN  /\ u \in Block(Endpoints, e)
               /\ u.state = p.state /\ Total(u) = Total(p)
               /\ \/ WaitingForAck(u)
                  \/ u.sendBuf = <<>> /\ q.recvNext = u.sendNext
<1>1. /\ p \in Block(Endpoints, e) /\ p \in TCB(Endpoints)
      /\ p.sendBuf \in Seq(Item)
      /\ Len(p.sendBuf) \in Nat /\ p.sendNext \in Nat /\ p.sendUnack \in Nat
      /\ p.sendUnack <= p.sendNext /\ Total(p) < SeqSpace
      /\ ~WaitingForAck(p) => q.recvNext = p.sendNext
  BY BlockFields DEF Level
<1>2. MakeSureSendback(p).tcb \in Block(Endpoints, e)
  BY <1>1, MakeSureSendbackType DEF Typed
<1>3. CASE WaitingForAck(p) \/ p.sendBuf = <<>>
  <2>1. MakeSureSendback(p).tcb = p
    BY <1>3 DEF MakeSureSendback, SendSegment, Silent, Result
  <2> QED
    BY <1>1, <1>3, <2>1
<1>4. CASE ~(WaitingForAck(p) \/ p.sendBuf = <<>>)
  <2> DEFINE m == NextSegment(p)
             l == SegLen(m)
             n == Len(p.sendBuf)
             next == Plus(p.sendNext, l)
             rest == SubSeq(p.sendBuf, l + 1, n)
             u == [p EXCEPT !.sendNext = next, !.sendBuf = rest,
                            !.lastSeg = m, !.retransCount = 0]
  <2>1. l \in 1..n
    BY <1>1, <1>4, NextSegmentType
  <2>2. MakeSureSendback(p).tcb = u
    BY <1>4 DEF MakeSureSendback, SendSegment, Result
  <2> HIDE DEF m, l, next, rest
  <2>3. /\ u.state = p.state /\ u.sendUnack = p.sendUnack
        /\ u.sendNext = next /\ u.sendBuf = rest
    BY <1>1 DEF TCB
  <2> HIDE DEF u
  <2>4. l \in Nat /\ l >= 1 /\ l <= n
    BY <1>1, <2>1
  <2>5. Len(rest) = n - l
    BY <1>1, <2>4, SubSeqProperties DEF rest
  <2> HIDE DEF n
  <2>6. p.sendNext + l < SeqSpace
    BY <1>1, <2>4, TcbAssumption DEF n, Total
  <2>7. next = p.sendNext + l
    BY <2>6 DEF Plus, next
  <2>8. Total(u) = Total(p)
    BY <1>1, <2>3, <2>4, <2>5, <2>7 DEF Total, n
  <2>9. WaitingForAck(u)
    BY <1>1, <2>3, <2>4, <2>7 DEF WaitingForAck
  <2> QED
    BY <1>2, <2>2, <2>3, <2>8, <2>9
<1> QED
  BY <1>3, <1>4

LEMMA SendbackState ==
    ASSUME NEW p \in TCB(Endpoints)
    PROVE  MakeSureSendback(p).tcb.state = p.state
<1> DEFINE m == NextSegment(p)
           next == Plus(p.sendNext, SegLen(m))
           rest == SubSeq(p.sendBuf, SegLen(m) + 1, Len(p.sendBuf))
           u == [p EXCEPT !.sendNext = next, !.sendBuf = rest,
                          !.lastSeg = m, !.retransCount = 0]
<1>1. MakeSureSendback(p).tcb \in {p, u}
  BY DEF MakeSureSendback, SendSegment, Silent, Result
<1> HIDE DEF m, next, rest
<1>2. u.state = p.state
  BY DEF TCB
<1> QED
  BY <1>1, <1>2

\* The acknowledgement update.
LEMMA AckEnds ==
    ASSUME NoWrap, NEW e \in Endpoints, NEW t, NEW w, NEW q, NEW wq, NEW d,
           NEW m, Told(e, t, w, q, wq, d, m)
    PROVE  LET a == Ack(t, m)
           IN  /\ Level(e, a, q) /\ a \in TCB(Endpoints)
               /\ a.state = t.state /\ Total(a) = Total(t)
               /\ Ends(t, q, a)
<1> DEFINE a == Ack(t, m)
<1>1. m \in Segment(Endpoints) /\ m.ackSeq <= q.recvNext /\ t.state # "CLOSE"
  BY DEF Told, Heard, SegmentOK
<1>2. /\ Sound(e, a, w, q, wq, d) /\ a.state = t.state
      /\ a.sendNext = t.sendNext /\ a.sendBuf = t.sendBuf
  BY <1>1, AckSafe DEF Told
<1> HIDE DEF a
<1>3. Level(e, a, q)
  BY <1>1, <1>2, SoundIsLevel
<1>4. Total(a) = Total(t)
  BY <1>2 DEF Total
<1>5. a \in TCB(Endpoints)
  BY <1>3 DEF Level, Block
<1> QED
  BY <1>2, <1>3, <1>4, <1>5, SameEnds DEF a

LEMMA OnOutOfOrderEnds ==
    ASSUME NoWrap, NEW e \in Endpoints, NEW t, NEW w, NEW q, NEW wq, NEW d,
           NEW m, Told(e, t, w, q, wq, d, m)
    PROVE  Ends(t, q, OnOutOfOrder(t, m).tcb)
<1> DEFINE a == Ack(t, m)
           u == MakeSureSendback(a).tcb
<1>1. Level(e, a, q) /\ a.state = t.state /\ Total(a) = Total(t)
  BY AckEnds
<1>2. u.state = a.state /\ Total(u) = Total(a)
  BY <1>1, SendbackEnds
<1>3. OnOutOfOrder(t, m).tcb = u
  BY DEF OnOutOfOrder
<1> HIDE DEF a, u
<1> QED
  BY <1>1, <1>2, <1>3, SameEnds

\* Before close() the handlers lead to states before close().
LEMMA OpenHandlersEnd ==
    ASSUME NoWrap, NEW e \in Endpoints, NEW t, NEW w, NEW q, NEW wq, NEW d,
           NEW m, Told(e, t, w, q, wq, d, m), t.state \in WriteStates
    PROVE  /\ Ends(t, q, OnSynRecv(t, m).tcb)
           /\ Ends(t, q, OnSynSent(t, m).tcb)
           /\ Ends(t, q, OnEstablished(t, m).tcb)
<1> DEFINE a == Ack(t, m)
<1>1. /\ a \in TCB(Endpoints) /\ a.state = t.state /\ m \in Segment(Endpoints)
  BY AckEnds DEF Told, Heard
<1>2. \A x : x.state \in WriteStates => Ends(t, q, x)
  BY DEF Ends
<1>3. {"ESTABLISHED", "CLOSE_WAIT"} \subseteq WriteStates
  BY DEF WriteStates
<1>4. OnSynRecv(t, m).tcb.state \in WriteStates
  <2> DEFINE u == [a EXCEPT !.state = "ESTABLISHED"]
  <2>1. OnSynRecv(t, m).tcb \in {u, t}
    BY DEF OnSynRecv, Silent, Result
  <2> HIDE DEF a
  <2>2. u.state = "ESTABLISHED"
    BY <1>1 DEF TCB
  <2> QED
    BY <1>3, <2>1, <2>2
<1>5. OnSynSent(t, m).tcb.state \in WriteStates
  <2> DEFINE next == Plus(m.seq, 1)
             u == [a EXCEPT !.recvInit = m.seq, !.recvNext = next,
                            !.state = "ESTABLISHED"]
  <2>1. OnSynSent(t, m).tcb \in {MakeSureSendback(u).tcb, t}
    BY DEF OnSynSent, Silent, Result
  <2>2. m.seq \in Nat /\ next \in Nat
    BY <1>1, SegmentFields, PlusType
  <2> HIDE DEF a, next
  <2>3. u \in TCB(Endpoints) /\ u.state = "ESTABLISHED"
    BY <1>1, <2>2 DEF TCB, States
  <2> HIDE DEF u
  <2>4. MakeSureSendback(u).tcb.state = "ESTABLISHED"
    BY <2>3, SendbackState
  <2> QED
    BY <1>3, <2>1, <2>4
<1>6. OnEstablished(t, m).tcb.state \in WriteStates
  <2> DEFINE next == Plus(a.recvNext, Len(m.data) + Flag(m.fin))
             buf == a.recvBuf \o m.data
             s == IF m.fin THEN "CLOSE_WAIT" ELSE a.state
             u == Take(a, m)
  <2>1. OnEstablished(t, m).tcb \in {a, u, MakeSureSendback(u).tcb}
    BY DEF OnEstablished, Silent, Result
  <2>2. next \in Nat /\ buf \in Seq(Nat) /\ s \in WriteStates
    <3>1. a.recvNext \in Nat /\ a.recvBuf \in Seq(Nat) /\ a.state \in WriteStates
      BY <1>1 DEF TCB
    <3>2. Len(m.data) \in Nat /\ m.data \in Seq(Nat) /\ Flag(m.fin) \in Nat
      BY <1>1, SegmentFields DEF Flag
    <3> HIDE DEF a
    <3>3. Len(m.data) + Flag(m.fin) \in Nat
      BY <3>2
    <3>4. next \in Nat
      BY <3>1, <3>3, PlusType
    <3>5. buf \in Seq(Nat)
      BY <3>1, <3>2
    <3> QED
      BY <1>3, <3>1, <3>4, <3>5
  <2> HIDE DEF a
  <2>3. u = [a EXCEPT !.recvBuf = buf, !.recvNext = next, !.state = s]
    BY <1>1 DEF Take, TCB
  <2> HIDE DEF u, next, buf, s
  <2>4. u \in TCB(Endpoints) /\ u.state = s
    BY <1>1, <2>2, <2>3 DEF TCB, WriteStates, States
  <2>5. MakeSureSendback(u).tcb.state = s
    BY <2>4, SendbackState
  <2> QED
    BY <1>1, <2>1, <2>2, <2>4, <2>5
<1> QED
  BY <1>2, <1>4, <1>5, <1>6

LEMMA OnFinWait1Ends ==
    ASSUME NoWrap, NEW e \in Endpoints, NEW t, NEW w, NEW q, NEW wq, NEW d,
           NEW m, Told(e, t, w, q, wq, d, m), t.state = "FIN_WAIT1"
    PROVE  Ends(t, q, OnFinWait1(t, m).tcb)
<1> DEFINE a == Ack(t, m)
           next == Plus(a.recvNext, 1)
           v == [a EXCEPT !.recvNext = next]
           x == MakeSureSendback(v).tcb
           s == IF WaitingForAck(x) THEN "CLOSING" ELSE "TIME_WAIT"
           u == [x EXCEPT !.state = s]
           z == [a EXCEPT !.state = "FIN_WAIT2"]
<1>1. /\ Level(e, a, q) /\ a \in TCB(Endpoints) /\ Total(a) = Total(t)
      /\ a.state = "FIN_WAIT1" /\ Ends(t, q, a)
  BY AckEnds
<1>2. t.state \notin WriteStates \cup {"CLOSE"}
  BY DEF WriteStates
<1>3. /\ OnFinWait1(t, m).tcb \in {a, u, z}
      /\ OnFinWait1(t, m).tcb = z => FinAcked(a) \/ z = u \/ z = a
  <2>1. v = [a EXCEPT !.recvNext = Plus(@, 1)]
    BY <1>1 DEF TCB
  <2> QED
    BY <2>1 DEF OnFinWait1, Silent, Result, IsPureAck, NeedToAck
<1>4. Ends(t, q, u)
  <2>1. next \in Nat /\ a \in Block(Endpoints, e)
    BY <1>1, PlusType DEF TCB, Level
  <2> HIDE DEF a, next
  <2>2. v \in Block(Endpoints, e)
    BY <2>1, SettingType
  <2>3. v.sendUnack = a.sendUnack /\ v.sendNext = a.sendNext /\ v.sendBuf = a.sendBuf
    BY <1>1 DEF TCB
  <2> HIDE DEF v
  <2>4. Level(e, v, q) /\ Total(v) = Total(t)
    BY <1>1, <2>2, <2>3 DEF Level, Total, WaitingForAck
  <2>5. /\ x \in Block(Endpoints, e) /\ Total(x) = Total(v)
        /\ \/ WaitingForAck(x)
           \/ x.sendBuf = <<>> /\ q.recvNext = x.sendNext
    BY ONLY <2>4, SendbackEnds, e \in Endpoints
  <2> HIDE DEF x
  <2>6. u.state = s /\ u.sendNext = x.sendNext /\ u.sendBuf = x.sendBuf
    BY <2>5 DEF TCB, Block
  <2> HIDE DEF u
  <2>7. Total(u) = Total(t)
    BY <2>4, <2>5, <2>6 DEF Total
  <2> QED
    BY <1>2, <2>5, <2>6, <2>7 DEF Ends
<1>5. FinAcked(a) => Ends(t, q, z)
  <2> HIDE DEF a
  <2>1. z.sendNext = a.sendNext /\ z.sendBuf = a.sendBuf
    BY <1>1 DEF TCB
  <2> HIDE DEF z
  <2>2. Total(z) = Total(t)
    BY <1>1, <2>1 DEF Total
  <2> QED
    BY <1>1, <1>2, <2>1, <2>2 DEF FinAcked, Level, Ends
<1> QED
  BY <1>1, <1>3, <1>4, <1>5

LEMMA OnFinWait2Ends ==
    ASSUME NoWrap, NEW e \in Endpoints, NEW t, NEW w, NEW q, NEW wq, NEW d,
           NEW m, Told(e, t, w, q, wq, d, m), t.state = "FIN_WAIT2"
    PROVE  Ends(t, q, OnFinWait2(t, m).tcb)
<1> DEFINE a == Ack(t, m)
           next == Plus(a.recvNext, 1)
           v == [a EXCEPT !.recvNext = next, !.state = "TIME_WAIT"]
           x == MakeSureSendback(v).tcb
<1>1. /\ Level(e, a, q) /\ a \in TCB(Endpoints) /\ Total(a) = Total(t)
      /\ Ends(t, q, a)
  BY AckEnds
<1>2. OnFinWait2(t, m).tcb \in {a, x}
  <2>1. v = [a EXCEPT !.recvNext = Plus(@, 1), !.state = "TIME_WAIT"]
    BY <1>1 DEF TCB
  <2> QED
    BY <2>1 DEF OnFinWait2, Silent, Result
<1>3. Ends(t, q, x)
  <2>1. next \in Nat /\ a \in Block(Endpoints, e)
    BY <1>1, PlusType DEF TCB, Level
  <2> HIDE DEF a, next
  <2>2. v \in Block(Endpoints, e)
    BY <2>1 DEF TCB, Block, Fits, States
  <2>3. v.sendUnack = a.sendUnack /\ v.sendNext = a.sendNext /\ v.sendBuf = a.sendBuf
    BY <1>1 DEF TCB
  <2> HIDE DEF v
  <2>4. Level(e, v, q) /\ Total(v) = Total(t)
    BY <1>1, <2>2, <2>3 DEF Level, Total, WaitingForAck
  <2>5. Total(x) = Total(v)
    BY <2>4, SendbackEnds
  <2> HIDE DEF x
  <2> QED
    BY <2>4, <2>5 DEF Ends, WriteStates
<1> QED
  BY <1>1, <1>2, <1>3

\* An end in LAST_ACK whose peer has taken all that it sent has nothing left to
\* send.
LEMMA TakenMeansAll ==
    ASSUME NoWrap, NEW e \in Endpoints, NEW t, NEW w, NEW q, NEW wq,
           SenderSide(e, t, w), Near(e, t, w, q, wq), ClosedOK(t, w, q),
           t.state \in {"CLOSING", "LAST_ACK"}, q.recvNext >= t.sendNext
    PROVE  t.sendBuf = <<>> /\ q.recvNext = t.sendNext
<1>1. /\ t.sendUnack \in Nat /\ t.sendNext \in Nat /\ w \in Nat
      /\ t.sendInit \in Nat /\ t.sendBuf \in Seq(Item)
      /\ Len(t.sendBuf) \in Nat /\ q.recvNext \in Nat
  BY EndpointsDef, BlockFields DEF Near
<1>2. q.recvNext = t.sendNext
  BY <1>1 DEF Near
<1>3. /\ t.sendBuf = <<>> \/ t.sendUnack < t.sendNext
      /\ t.sendUnack = q.recvNext \/ q.recvNext = t.sendInit + 2 + w
  BY DEF ClosedOK, FinStates, WaitingForAck, HasFin
<1>4. t.sendNext + Len(t.sendBuf) <= t.sendInit + w + 2
  BY SenderFits
<1>5. CASE t.sendUnack = q.recvNext
  BY <1>1, <1>2, <1>3, <1>5
<1>6. CASE q.recvNext = t.sendInit + 2 + w
  <2>1. Len(t.sendBuf) = 0
    BY <1>1, <1>2, <1>4, <1>6
  <2> QED
    BY <1>1, <1>2, <2>1
<1> QED
  BY <1>3, <1>5, <1>6

\* The last handlers.
LEMMA LastHandlersEnd ==
    ASSUME NoWrap, NEW e \in Endpoints, NEW t, NEW w, NEW q, NEW wq, NEW d,
           NEW m, Told(e, t, w, q, wq, d, m)
    PROVE  /\ Ends(t, q, OnCloseWait(t, m).tcb)
           /\ Ends(t, q, OnTimeWait(t, m).tcb)
           /\ t.state = "CLOSING" => Ends(t, q, OnClosing(t, m).tcb)
           /\ t.state = "LAST_ACK" => Ends(t, q, OnLastAck(t, m).tcb)
<1>1. t \in TCB(Endpoints) /\ Ends(t, q, t)
  BY SameEnds DEF Told, Near, Block
<1>2. Ends(t, q, OnCloseWait(t, m).tcb) /\ Ends(t, q, OnTimeWait(t, m).tcb)
  BY <1>1 DEF OnCloseWait, OnTimeWait, Silent, Result
<1>3. ASSUME t.state = "CLOSING"
      PROVE  Ends(t, q, OnClosing(t, m).tcb)
  <2> DEFINE u == [t EXCEPT !.state = "TIME_WAIT"]
  <2>1. \/ OnClosing(t, m).tcb = t
        \/ OnClosing(t, m).tcb = u /\ m.ackSeq = t.sendNext
    BY DEF OnClosing, Silent, Result
  <2>2. u.sendNext = t.sendNext /\ u.sendBuf = t.sendBuf
    BY <1>1 DEF TCB
  <2> HIDE DEF u
  <2>3. m.ackSeq = t.sendNext => t.sendBuf = <<>> /\ q.recvNext = t.sendNext
    <3> SUFFICES ASSUME m.ackSeq = t.sendNext
                 PROVE  t.sendBuf = <<>> /\ q.recvNext = t.sendNext
      OBVIOUS
    <3>1. t.sendNext <= q.recvNext
      BY DEF Told, Heard, SegmentOK
    <3>2. q.recvNext \in Nat /\ t.sendNext \in Nat
      BY EndpointsDef, BlockFields DEF Told, Near
    <3>3. q.recvNext >= t.sendNext
      BY <3>1, <3>2
    <3> QED
      BY <1>3, <3>3, TakenMeansAll DEF Told, Sound
  <2>4. Total(u) = Total(t) /\ t.state \notin WriteStates
    BY <1>3, <2>2 DEF Total, WriteStates
  <2> QED
    BY <1>1, <2>1, <2>2, <2>3, <2>4 DEF Ends
<1>4. ASSUME t.state = "LAST_ACK"
      PROVE  Ends(t, q, OnLastAck(t, m).tcb)
  <2> DEFINE next == Plus(t.sendUnack, 1)
             u == [t EXCEPT !.state = "CLOSE", !.sendUnack = next]
  <2>1. OnLastAck(t, m).tcb \in {u, t}
    BY <1>1 DEF OnLastAck, TCB, Silent, Result
  <2> HIDE DEF next
  <2>2. u.state = "CLOSE"
    BY <1>1 DEF TCB
  <2> HIDE DEF u
  <2> QED
    BY <1>1, <1>4, <2>1, <2>2 DEF Ends, WriteStates
<1> QED
  BY <1>2, <1>3, <1>4

LEMMA RetransmitEnds ==
    ASSUME NEW t \in TCB(Endpoints), NEW q
    PROVE  /\ Ends(t, q, Retransmit(t).tcb)
           /\ Ends(t, q, [t EXCEPT !.state = "CLOSE"])
<1> DEFINE m == [t.lastSeg EXCEPT !.ackSeq = t.recvNext]
           n == t.retransCount + 1
           u == [t EXCEPT !.lastSeg = m, !.retransCount = n]
           c == [t EXCEPT !.state = "CLOSE"]
<1>1. Retransmit(t).tcb \in {u, c}
  BY DEF Retransmit, Silent, Result, TCB
<1> HIDE DEF m, n
<1>2. u.state = t.state /\ u.sendNext = t.sendNext /\ u.sendBuf = t.sendBuf
  BY DEF TCB
<1>3. c.state = "CLOSE"
  BY DEF TCB
<1> HIDE DEF u, c
<1>4. Ends(t, q, u)
  BY <1>2, SameEnds DEF Total
<1>5. Ends(t, q, c)
  BY <1>3 DEF Ends
<1> QED
  BY <1>1, <1>4, <1>5 DEF c

\* A close() that does not fail puts the FIN behind everything.
LEMMA CloseEnds ==
    ASSUME NoWrap, NEW e \in Endpoints, NEW t, NEW w, NEW q, NEW wq, NEW d,
           Sound(e, t, w, q, wq, d), EndedOK(t, w, q), ~CloseFails(t)
    PROVE  EndedOK(CloseTcb(t).tcb, w, q)
<1>1. /\ t \in Block(Endpoints, e) /\ t \in TCB(Endpoints) /\ w \in Nat
      /\ SenderOK(e, t, w) /\ ~NotOpened(t)
  BY DEF Sound, SenderSide, Block
<1>2. ASSUME NEW s, Closes(t, s)
      PROVE  EndedOK(SendCtrl([t EXCEPT !.state = s], "fin").tcb, w, q)
  <2> DEFINE v == WithFin(t, s)
             u == MakeSureSendback(v).tcb
  <2>1. Len(t.sendBuf) # SendCapacity
    BY <1>2 DEF CloseFails, Closes, SendBufFull
  <2>2. SendCtrl([t EXCEPT !.state = s], "fin").tcb = u
    BY <1>1, <2>1, FinSent
  <2>3. /\ Sound(e, v, w, q, wq, d) /\ v.state = s
        /\ v.sendInit = t.sendInit /\ v.sendNext = t.sendNext
        /\ Len(v.sendBuf) = Len(t.sendBuf) + 1
    BY <1>2, <2>1, FinQueued
  <2> HIDE DEF v
  <2>4. s \in {"FIN_WAIT1", "LAST_ACK"} /\ t.state \in WriteStates
    BY <1>2 DEF Closes, WriteStates
  <2>5. Level(e, v, q)
    BY <2>3, <2>4, SoundIsLevel
  <2>6. u.state = s /\ Total(u) = Total(v)
    BY <2>3, <2>5, SendbackEnds
  <2>7. u.sendInit = t.sendInit
    BY <2>3, SendbackSafe DEF Sound, SameButSent
  <2> HIDE DEF u
  <2>8. t.sendNext + Len(t.sendBuf) = t.sendInit + w + 1
    BY <1>1, <2>4 DEF SenderOK, Queue
  <2>9. Total(v) = t.sendInit + w + 2
    <3> DEFINE n == Len(t.sendBuf)
    <3>1. /\ t.sendNext \in Nat /\ t.sendInit \in Nat /\ n \in Nat
      BY <1>1, BlockFields
    <3>2. Total(v) = t.sendNext + (n + 1)
      BY <2>3 DEF Total
    <3>3. t.sendNext + n = t.sendInit + w + 1
      BY <2>8
    <3> HIDE DEF n
    <3> QED
      BY <1>1, <3>1, <3>2, <3>3
  <2>10. EndedOK(u, w, q)
    BY <2>4, <2>6, <2>7, <2>9 DEF EndedOK, Total
  <2> QED
    BY <2>2, <2>10
<1>3. CASE t.state = "SYN_SENT"
  <2>1. CloseTcb(t).tcb = [t EXCEPT !.state = "CLOSE"]
    BY <1>3 DEF CloseTcb, Silent, Result
  <2>2. CloseTcb(t).tcb.state = "CLOSE"
    BY <1>1, <2>1 DEF TCB
  <2> QED
    BY <2>2 DEF EndedOK
<1>4. CASE t.state \in {"SYN_RECV", "ESTABLISHED"}
  <2>1. CloseTcb(t) = SendCtrl([t EXCEPT !.state = "FIN_WAIT1"], "fin")
    BY <1>4 DEF CloseTcb
  <2> QED
    BY <1>2, <1>4, <2>1 DEF Closes
<1>5. CASE t.state = "CLOSE_WAIT"
  <2>1. CloseTcb(t) = SendCtrl([t EXCEPT !.state = "LAST_ACK"], "fin")
    BY <1>5 DEF CloseTcb
  <2> QED
    BY <1>2, <1>5, <2>1 DEF Closes
<1>6. CASE t.state \notin {"SYN_SENT", "SYN_RECV", "ESTABLISHED", "CLOSE_WAIT"}
  BY <1>6 DEF CloseTcb, Silent, Result
<1> QED
  BY <1>3, <1>4, <1>5, <1>6

\* A step of one end that leaves its own stream as it should be.
LEMMA EndEnds ==
    ASSUME NoWrap, Inductive, Inductive', Ended, NEW e \in Endpoints, NEW u,
           tcb' = [tcb EXCEPT ![e] = u],
           written'[Peer(e)] = written[Peer(e)],
           tcb[e].recvNext <= u.recvNext,
           EndedOK(u, written'[e], tcb[Peer(e)])
    PROVE  Ended'
<1> DEFINE p == Peer(e)
           t == tcb[e]
           q == tcb[p]
           wq == written[p]
<1>1. p \in Endpoints /\ Peer(p) = e /\ p # e
  BY EndpointsDef
<1>2. tcb'[e] = u /\ tcb'[p] = q /\ written'[p] = wq
  BY <1>1 DEF Inductive, TypeOK
<1>3. EndedOK(q, wq, t)
  BY <1>1 DEF Ended
<1>4. ASSUME q.state \in {"FIN_WAIT2", "TIME_WAIT"}
      PROVE  HasFin(u, q, wq)
  <2>1. q.state # "NONE"
    BY <1>4
  <2>2. /\ SenderSide(p, q, wq) /\ q \in Block(Endpoints, p) /\ wq \in Nat
        /\ t \in Block(Endpoints, e)
    BY <1>1, <2>1, SoundNow DEF Sound, SenderSide
  <2>3. u \in Block(Endpoints, e) /\ u.recvNext <= q.sendNext
    BY <1>1, <1>2, <2>1, NearNext DEF Near
  <2>4. q.sendNext + Len(q.sendBuf) <= q.sendInit + wq + 2
    BY <1>1, <2>2, SenderFits
  <2>5. /\ q.sendNext \in Nat /\ q.sendInit \in Nat /\ Len(q.sendBuf) \in Nat
        /\ t.recvNext \in Nat /\ u.recvNext \in Nat
    BY <1>1, <2>2, <2>3, BlockFields
  <2>6. ~NotOpened(q) /\ t.recvNext = q.sendInit + 2 + wq
    BY <1>3, <1>4 DEF EndedOK, HasFin
  <2> DEFINE n == Len(q.sendBuf)
  <2>7. n \in Nat /\ q.sendNext + n <= q.sendInit + wq + 2
    BY <2>4, <2>5
  <2>8. t.recvNext <= u.recvNext
    OBVIOUS
  <2> HIDE DEF n, t, q, wq
  <2>9. u.recvNext = q.sendInit + 2 + wq
    <3>1. u.recvNext <= q.sendInit + wq + 2
      BY ONLY <2>2, <2>3, <2>5, <2>7
    <3> QED
      BY ONLY <2>2, <2>5, <2>6, <2>8, <3>1
  <2> QED
    BY <2>6, <2>9 DEF HasFin
<1>5. EndedOK(q, wq, u)
  BY <1>3, <1>4 DEF EndedOK
<1> SUFFICES ASSUME NEW x \in Endpoints
             PROVE  EndedOK(tcb'[x], written'[x], tcb'[Peer(x)])
  BY DEF Ended
<1>6. CASE x = e
  BY <1>2, <1>6
<1>7. CASE x = p
  BY <1>1, <1>2, <1>5, <1>7
<1> QED
  BY <1>1, <1>6, <1>7 DEF Endpoints, Peer

\* A step of one end that neither writes nor closes.
LEMMA EffectEnds ==
    ASSUME NoWrap, Inductive, Inductive', Ended, NEW e \in Endpoints,
           tcb[e].state # "NONE", NEW u,
           tcb' = [tcb EXCEPT ![e] = u], UNCHANGED written,
           tcb[e].state = "CLOSE" => u.state = "CLOSE",
           Grows(tcb[e], written[e], u, written[e]),
           Ends(tcb[e], tcb[Peer(e)], u)
    PROVE  Ended'
<1> DEFINE t == tcb[e]
           q == tcb[Peer(e)]
<1>1. /\ t \in Block(Endpoints, e) /\ written[e] \in Nat
      /\ q \in Block(Endpoints, Peer(e)) /\ ~NotOpened(t)
  BY NearNow DEF Near
<1>2. tcb'[e] = u
  BY DEF Inductive, TypeOK
<1>3. /\ ~NotOpened(u) /\ u.sendInit = t.sendInit
      /\ t.recvNext <= u.recvNext
  BY <1>1 DEF Grows
<1>4. u \in Block(Endpoints, e)
  BY <1>2, <1>3, NearNext DEF Near, NotOpened
<1>5. EndedOK(t, written[e], q)
  BY DEF Ended
<1>6. EndedOK(u, written[e], q)
  BY <1>1, <1>3, <1>4, <1>5, EndsWell
<1> QED
  BY <1>3, <1>6, EndEnds

LEMMA HandledEnds ==
    ASSUME NoWrap, Inductive, Inductive', Acknowledging, Ended,
           NEW e \in Endpoints, NEW m \in Arriving(e), NEW s, NEW r,
           HandledAs(s, e, m, r),
           Safe(e, tcb[e], written[e], tcb[Peer(e)], written[Peer(e)],
                delivered[e], r),
           Ends(tcb[e], tcb[Peer(e)], r.tcb)
    PROVE  Ended'
<1>1. /\ Effect(e, r, After(m)) /\ Reaches(m, e) /\ UNCHANGED written
  BY DEF HandledAs
<1>2. tcb[e].state \notin {"NONE", "CLOSE"}
  BY <1>1, ReachedBlock
<1>3. tcb' = [tcb EXCEPT ![e] = r.tcb]
  BY <1>1 DEF Effect
<1>4. Grows(tcb[e], written[e], r.tcb, written[e])
  BY DEF Safe
<1> QED
  BY <1>1, <1>2, <1>3, <1>4, EffectEnds

LEMMA ReceiveEnds ==
    ASSUME NoWrap, Inductive, Inductive', Acknowledging, Ended,
           NEW e \in Endpoints, NEW m \in Arriving(e),
           \/ HandledAs("SYN_RECV", e, m, OnSynRecv(tcb[e], m))
           \/ HandledAs("SYN_SENT", e, m, OnSynSent(tcb[e], m))
           \/ HandledAs("ESTABLISHED", e, m, OnEstablished(tcb[e], m))
           \/ HandledAs("FIN_WAIT1", e, m, OnFinWait1(tcb[e], m))
           \/ HandledAs("FIN_WAIT2", e, m, OnFinWait2(tcb[e], m))
           \/ HandledAs("CLOSE_WAIT", e, m, OnCloseWait(tcb[e], m))
           \/ HandledAs("CLOSING", e, m, OnClosing(tcb[e], m))
           \/ HandledAs("LAST_ACK", e, m, OnLastAck(tcb[e], m))
           \/ HandledAs("TIME_WAIT", e, m, OnTimeWait(tcb[e], m))
    PROVE  Ended'
<1> DEFINE t == tcb[e]
           w == written[e]
           q == tcb[Peer(e)]
           wq == written[Peer(e)]
           d == delivered[e]
<1>1. Heard(m, q, wq)
  BY HeardNow
<1>2. t.state \notin {"NONE", "CLOSE"} =>
         Sound(e, t, w, q, wq, d) /\ Told(e, t, w, q, wq, d, m)
  BY SoundNow, ToldNow
<1> HIDE DEF w, q, wq, d
<1>3. {"SYN_RECV", "SYN_SENT", "ESTABLISHED"} \subseteq WriteStates
  BY DEF WriteStates
<1>4. CASE HandledAs("SYN_RECV", e, m, OnSynRecv(t, m))
  <2>1. t.state = "SYN_RECV"
    BY <1>4 DEF HandledAs
  <2>2. Safe(e, t, w, q, wq, d, OnSynRecv(t, m))
    BY <1>1, <1>2, <2>1, OnSynRecvSafe
  <2>3. Ends(t, q, OnSynRecv(t, m).tcb)
    BY <1>2, <1>3, <2>1, OpenHandlersEnd
  <2> QED
    BY <1>4, <2>2, <2>3, HandledEnds DEF w, q, wq, d
<1>5. CASE HandledAs("SYN_SENT", e, m, OnSynSent(t, m))
  <2>1. t.state = "SYN_SENT"
    BY <1>5 DEF HandledAs
  <2>2. Safe(e, t, w, q, wq, d, OnSynSent(t, m))
    BY <1>1, <1>2, <2>1, OnSynSentSafe
  <2>3. Ends(t, q, OnSynSent(t, m).tcb)
    BY <1>2, <1>3, <2>1, OpenHandlersEnd
  <2> QED
    BY <1>5, <2>2, <2>3, HandledEnds DEF w, q, wq, d
<1>6. CASE HandledAs("ESTABLISHED", e, m, OnEstablished(t, m))
  <2>1. t.state = "ESTABLISHED" /\ m.seq = t.recvNext
    BY <1>6 DEF HandledAs, InOrder
  <2>2. Safe(e, t, w, q, wq, d, OnEstablished(t, m))
    BY <1>1, <1>2, <2>1, OnEstablishedSafe
  <2>3. Ends(t, q, OnEstablished(t, m).tcb)
    BY <1>2, <1>3, <2>1, OpenHandlersEnd
  <2> QED
    BY <1>6, <2>2, <2>3, HandledEnds DEF w, q, wq, d
<1>7. CASE HandledAs("FIN_WAIT1", e, m, OnFinWait1(t, m))
  <2>1. t.state = "FIN_WAIT1" /\ m.seq = t.recvNext
    BY <1>7 DEF HandledAs, InOrder
  <2>2. Safe(e, t, w, q, wq, d, OnFinWait1(t, m))
    BY <1>1, <1>2, <2>1, OnFinWait1Safe
  <2>3. Ends(t, q, OnFinWait1(t, m).tcb)
    BY <1>2, <2>1, OnFinWait1Ends
  <2> QED
    BY <1>7, <2>2, <2>3, HandledEnds DEF w, q, wq, d
<1>8. CASE HandledAs("FIN_WAIT2", e, m, OnFinWait2(t, m))
  <2>1. t.state = "FIN_WAIT2" /\ m.seq = t.recvNext
    BY <1>8 DEF HandledAs, InOrder
  <2>2. Safe(e, t, w, q, wq, d, OnFinWait2(t, m))
    BY <1>1, <1>2, <2>1, OnFinWait2Safe
  <2>3. Ends(t, q, OnFinWait2(t, m).tcb)
    BY <1>2, <2>1, OnFinWait2Ends
  <2> QED
    BY <1>8, <2>2, <2>3, HandledEnds DEF w, q, wq, d
<1>9. CASE HandledAs("CLOSE_WAIT", e, m, OnCloseWait(t, m))
  <2>1. t.state = "CLOSE_WAIT"
    BY <1>9 DEF HandledAs
  <2>2. Safe(e, t, w, q, wq, d, OnCloseWait(t, m))
    BY <1>2, <2>1, SilentSafe DEF OnCloseWait
  <2>3. Ends(t, q, OnCloseWait(t, m).tcb)
    BY <1>2, <2>1, LastHandlersEnd
  <2> QED
    BY <1>9, <2>2, <2>3, HandledEnds DEF w, q, wq, d
<1>10. CASE HandledAs("CLOSING", e, m, OnClosing(t, m))
  <2>1. t.state = "CLOSING"
    BY <1>10 DEF HandledAs
  <2>2. Safe(e, t, w, q, wq, d, OnClosing(t, m))
    BY <1>2, <2>1, OnClosingSafe
  <2>3. Ends(t, q, OnClosing(t, m).tcb)
    BY <1>2, <2>1, LastHandlersEnd
  <2> QED
    BY <1>10, <2>2, <2>3, HandledEnds DEF w, q, wq, d
<1>11. CASE HandledAs("LAST_ACK", e, m, OnLastAck(t, m))
  <2>1. t.state = "LAST_ACK"
    BY <1>11 DEF HandledAs
  <2>2. Safe(e, t, w, q, wq, d, OnLastAck(t, m))
    BY <1>2, <2>1, OnLastAckSafe
  <2>3. Ends(t, q, OnLastAck(t, m).tcb)
    BY <1>2, <2>1, LastHandlersEnd
  <2> QED
    BY <1>11, <2>2, <2>3, HandledEnds DEF w, q, wq, d
<1>12. CASE HandledAs("TIME_WAIT", e, m, OnTimeWait(t, m))
  <2>1. t.state = "TIME_WAIT"
    BY <1>12 DEF HandledAs
  <2>2. Safe(e, t, w, q, wq, d, OnTimeWait(t, m))
    BY <1>2, <2>1, SilentSafe DEF OnTimeWait
  <2>3. Ends(t, q, OnTimeWait(t, m).tcb)
    BY <1>2, <2>1, LastHandlersEnd
  <2> QED
    BY <1>12, <2>2, <2>3, HandledEnds DEF w, q, wq, d
<1> QED
  BY <1>4, <1>5, <1>6, <1>7, <1>8, <1>9, <1>10, <1>11, <1>12

LEMMA OutOfOrderEnds ==
    ASSUME NoWrap, Inductive, Inductive', Acknowledging, Ended,
           NEW e \in Endpoints, ReceiveOutOfOrder(e)
    PROVE  Ended'
<1>1. PICK m \in Arriving(e) :
          /\ Reaches(m, e)
          /\ Effect(e, OnOutOfOrder(tcb[e], m), After(m))
          /\ UNCHANGED <<registry, losses, written, delivered>>
  BY DEF ReceiveOutOfOrder
<1> DEFINE r == OnOutOfOrder(tcb[e], m)
<1>2. tcb[e].state \notin {"NONE", "CLOSE"}
  BY <1>1, ReachedBlock
<1>3. Safe(e, tcb[e], written[e], tcb[Peer(e)], written[Peer(e)],
           delivered[e], r)
  BY <1>2, SoundNow, HeardNow, OnOutOfOrderSafe
<1>4. Ends(tcb[e], tcb[Peer(e)], r.tcb)
  BY <1>2, ToldNow, OnOutOfOrderEnds
<1>5. tcb' = [tcb EXCEPT ![e] = r.tcb] /\ UNCHANGED written
  BY <1>1 DEF Effect
<1> HIDE DEF r
<1>6. Grows(tcb[e], written[e], r.tcb, written[e])
  BY <1>3 DEF Safe
<1> QED
  BY <1>2, <1>4, <1>5, <1>6, EffectEnds

\* Opening a connection ends nothing.
LEMMA OpeningEnds ==
    ASSUME NoWrap, Inductive, Inductive', Ended, NEW e \in Endpoints,
           NEW init \in InitSeqs[e], NEW t \in Block(Endpoints, e),
           NEW underWay \in SUBSET net, Opens(e, init, t, underWay)
    PROVE  Ended'
<1> DEFINE u == SendCtrl(t, "syn").tcb
<1>1. tcb[e].recvNext = 0
  BY UnopenedBlock DEF Opens
<1>2. u.state = t.state /\ u.recvNext = t.recvNext
  BY OpeningSends DEF Opens
<1>3. /\ tcb' = [tcb EXCEPT ![e] = u] /\ UNCHANGED written
      /\ t.state \in {"SYN_SENT", "SYN_RECV"}
  BY DEF Opens, Effect
<1> HIDE DEF u
<1>4. EndedOK(u, written'[e], tcb[Peer(e)])
  BY <1>2, <1>3 DEF EndedOK, WriteStates
<1>5. tcb[e].recvNext <= u.recvNext
  BY <1>1, <1>2, BlockFields
<1> QED
  BY <1>3, <1>4, <1>5, EndEnds

LEMMA CloseStepEnds ==
    ASSUME NoWrap, Inductive, Inductive', Ended, NoneLost',
           NEW e \in Endpoints, Close(e)
    PROVE  Ended'
<1> DEFINE r == CloseTcb(tcb[e])
<1>1. tcb[e].state # "NONE"
  BY DEF Close, Inductive, NotOpened
<1>2. /\ Sound(e, tcb[e], written[e], tcb[Peer(e)], written[Peer(e)],
               delivered[e])
      /\ EndedOK(tcb[e], written[e], tcb[Peer(e)])
  BY <1>1, SoundNow DEF Ended
<1>3. ~CloseFails(tcb[e])
  BY DEF Close, NoneLost, Inductive, TypeOK
<1>4. EndedOK(r.tcb, written[e], tcb[Peer(e)])
  BY <1>2, <1>3, CloseEnds
<1>5. Safe(e, tcb[e], written[e], tcb[Peer(e)], written[Peer(e)],
           delivered[e], r)
  BY <1>2, CloseTcbSafe
<1>6. tcb' = [tcb EXCEPT ![e] = r.tcb] /\ UNCHANGED written
  BY DEF Close, Step, Effect
<1> HIDE DEF r
<1>7. tcb[e].recvNext <= r.tcb.recvNext
  BY <1>5 DEF Safe, Grows
<1> QED
  BY <1>4, <1>6, <1>7, EndEnds

LEMMA TimerEnds ==
    ASSUME NoWrap, Inductive, Inductive', Ended, NEW e \in Endpoints, Timer(e)
    PROVE  Ended'
<1> DEFINE t == tcb[e]
           w == written[e]
           q == tcb[Peer(e)]
           wq == written[Peer(e)]
           d == delivered[e]
<1>1. t.state \notin {"NONE", "CLOSE"}
  BY DEF Timer, Timeout, TimedOut, TimeWaitExpire
<1>2. Sound(e, t, w, q, wq, d) /\ t \in TCB(Endpoints)
  BY <1>1, SoundNow DEF Sound, SenderSide, Block
<1>3. CASE Timeout(e)
  <2> DEFINE r == Retransmit(t)
  <2>1. tcb' = [tcb EXCEPT ![e] = r.tcb] /\ UNCHANGED written
    BY <1>3 DEF Timeout, Step, Effect
  <2> HIDE DEF w, q, wq, d
  <2>2. Grows(t, w, r.tcb, w)
    BY <1>1, <1>2, RetransmitSafe DEF Safe
  <2>3. Ends(t, q, r.tcb)
    BY <1>2, RetransmitEnds
  <2> HIDE DEF r
  <2> QED
    BY <1>1, <2>1, <2>2, <2>3, EffectEnds DEF w, q, wq, d
<1>4. CASE TimeWaitExpire(e)
  <2> DEFINE c == [t EXCEPT !.state = "CLOSE"]
  <2>1. /\ tcb' = [tcb EXCEPT ![e] = c] /\ UNCHANGED written
        /\ t.state = "TIME_WAIT"
    BY <1>4 DEF TimeWaitExpire
  <2> HIDE DEF w, q, wq, d
  <2>2. Grows(t, w, c, w)
    BY <1>2, <2>1, StateSound DEF States, WriteStates
  <2>3. Ends(t, q, c)
    BY <1>2, RetransmitEnds
  <2> HIDE DEF c
  <2> QED
    BY <1>1, <2>1, <2>2, <2>3, EffectEnds DEF w, q, wq, d
<1> QED
  BY <1>3, <1>4 DEF Timer

LEMMA WriteEnds ==
    ASSUME NoWrap, Inductive, Inductive', Ended, NEW e \in Endpoints,
           NEW n \in 1..MaxBytes[e], Write(e, n)
    PROVE  Ended'
<1> DEFINE t == tcb[e]
           w == written[e]
           p == Peer(e)
           k == Accepted(t, n)
           u == WithBytes(t, w, k)
           x == MakeSureSendback(u).tcb
<1>1. /\ t.state = "ESTABLISHED"
      /\ n \in Nat /\ w + n <= MaxBytes[e]
      /\ tcb' = [tcb EXCEPT ![e] = x]
      /\ written' = [written EXCEPT ![e] = w + k]
  BY WriteEffect DEF Effect
<1>2. Sound(e, t, w, tcb[p], written[p], delivered[e])
  BY <1>1, SoundNow
<1>3. written'[p] = written[p]
  BY <1>1, EndpointsDef DEF Inductive, TypeOK
<1> HIDE DEF t, w
<1>4. u.state = t.state /\ u.recvNext = t.recvNext
  BY <1>1, <1>2, BytesQueued
<1>5. Sound(e, u, w + k, tcb[p], written[p], delivered[e])
  BY <1>1, <1>2, BytesQueued
<1> HIDE DEF u, k
<1>6. x.state = u.state /\ x.recvNext = u.recvNext
  BY <1>5, SendbackSafe DEF Sound, SameButSent
<1> HIDE DEF x
<1>7. EndedOK(x, written'[e], tcb[p])
  BY <1>1, <1>4, <1>6 DEF EndedOK, WriteStates
<1>8. t.recvNext <= x.recvNext
  <2>1. t.recvNext \in Nat
    BY <1>2, BlockFields DEF Sound, SenderSide
  <2> QED
    BY <1>4, <1>6, <2>1
<1> QED
  BY <1>1, <1>3, <1>7, <1>8, EndEnds DEF t

LEMMA ReadEnds ==
    ASSUME NoWrap, Inductive, Inductive', Ended, NEW e \in Endpoints,
           NEW n \in 1..RecvCapacity, Read(e, n)
    PROVE  Ended'
<1> DEFINE t == tcb[e]
           w == written[e]
           taken == Min({n, Len(t.recvBuf)})
           rest == SubSeq(t.recvBuf, taken + 1, Len(t.recvBuf))
           u == [t EXCEPT !.recvBuf = rest]
<1>1. t.state # "NONE"
  BY DEF Read, Inductive, NotOpened
<1>2. /\ t \in Block(Endpoints, e) /\ t \in TCB(Endpoints) /\ w \in Nat
      /\ ~NotOpened(t)
  BY <1>1, NearNow DEF Near, Block
<1>3. tcb' = [tcb EXCEPT ![e] = u] /\ UNCHANGED written
  BY <1>2 DEF Read, Inductive, TypeOK
<1> HIDE DEF rest
<1>4. /\ u.state = t.state
      /\ u.sendInit = t.sendInit /\ u.sendNext = t.sendNext
      /\ u.sendBuf = t.sendBuf /\ u.recvNext = t.recvNext
  BY <1>2 DEF TCB
<1> HIDE DEF u
<1>5. Grows(t, w, u, w)
  <2>1. t.sendNext \in Nat /\ t.recvNext \in Nat /\ w \in Nat
    BY <1>2, BlockFields
  <2> HIDE DEF t, w
  <2> QED
    BY <1>2, <1>4, <2>1 DEF Grows, NotOpened
<1>6. Ends(t, tcb[Peer(e)], u)
  <2>1. Total(u) = Total(t)
    BY <1>4 DEF Total
  <2> QED
    BY <1>4, <2>1, SameEnds
<1> QED
  BY <1>1, <1>3, <1>4, <1>5, <1>6, EffectEnds

LEMMA StillEnded ==
    ASSUME Ended, UNCHANGED <<tcb, written>>
    PROVE  Ended'
  BY DEF Ended

LEMMA InitEnds == Init => Ended
<1> SUFFICES ASSUME Init
             PROVE  Ended
  OBVIOUS
<1>1. \A e : NoTcb(e).state = "NONE"
  BY DEF NoTcb
<1>2. \A e \in Endpoints : tcb[e].state = "NONE"
  BY <1>1 DEF Init
<1> QED
  BY <1>2 DEF Ended, EndedOK, WriteStates

LEMMA NextEnds ==
    ASSUME NoWrap, Inductive, Acknowledging, Ended, NoneLost', [Next]_vars
    PROVE  Ended'
<1>1. Inductive'
  BY NextSafe
<1>2. ASSUME NEW e \in Endpoints, Receive(e)
      PROVE  Ended'
  <2>1. CASE ReceiveSyn(e)
    BY <1>1, <2>1, ReceiveSynOpens, OpeningEnds
  <2>2. CASE Discard(e)
    BY <2>2, StillEnded DEF Discard
  <2>3. CASE ReceiveOutOfOrder(e)
    BY <1>1, <2>3, OutOfOrderEnds
  <2>4. CASE \/ ReceiveSynRecv(e) \/ ReceiveSynSent(e) \/ ReceiveEstablished(e)
             \/ ReceiveFinWait1(e) \/ ReceiveFinWait2(e) \/ ReceiveCloseWait(e)
             \/ ReceiveClosing(e) \/ ReceiveLastAck(e) \/ ReceiveTimeWait(e)
    BY <1>1, <2>4, ReceiveEnds
       DEF ReceiveSynRecv, ReceiveSynSent, ReceiveEstablished, ReceiveFinWait1,
           ReceiveFinWait2, ReceiveCloseWait, ReceiveClosing, ReceiveLastAck,
           ReceiveTimeWait
  <2> QED
    BY <1>2, <2>1, <2>2, <2>3, <2>4 DEF Receive
<1>3. ASSUME NEW e \in Endpoints, User(e)
      PROVE  Ended'
  <2>1. CASE Connect(e)
    BY <1>1, <2>1, ConnectOpens, OpeningEnds
  <2>2. CASE \E n \in 1..MaxBytes[e] : Write(e, n)
    BY <1>1, <2>2, WriteEnds
  <2>3. CASE \E n \in 1..RecvCapacity : Read(e, n)
    BY <1>1, <2>3, ReadEnds
  <2>4. CASE Close(e)
    BY <1>1, <2>4, CloseStepEnds
  <2> QED
    BY <1>3, <2>1, <2>2, <2>3, <2>4 DEF User
<1>4. ASSUME NEW e \in Endpoints, Timer(e)
      PROVE  Ended'
  BY <1>1, <1>4, TimerEnds
<1>5. CASE Lose
  BY <1>5, StillEnded DEF Lose
<1>6. CASE UNCHANGED vars
  BY <1>6, StillEnded DEF vars
<1> QED
  BY <1>2, <1>3, <1>4, <1>5, <1>6 DEF Next

-----------------------------------------------------------------------------
(* The theorems.                                                           *)

\* Both ends agree, up to the segment under way, on how far each has come, and
\* once a FIN has been taken, on where the connection ends.
THEOREM AcknowledgingHolds ==
    ASSUME NoWrap
    PROVE  Spec => [](Inductive /\ Acknowledging)
<1>1. Init => Inductive /\ Acknowledging
  BY InitSafe, InitAck
<1>2. Inductive /\ Acknowledging /\ [Next]_vars => (Inductive /\ Acknowledging)'
  <2> SUFFICES ASSUME Inductive, Acknowledging, [Next]_vars
               PROVE  Inductive' /\ Acknowledging'
    OBVIOUS
  <2> QED
    BY NextSafe, NextAck
<1> QED
  BY <1>1, <1>2, PTL DEF Spec

\* Only the last segment can be outstanding.
LEMMA LastIsOutstanding ==
    NoWrap => (Inductive /\ Acknowledging => OutstandingIsLastSegment)
<1> SUFFICES ASSUME NoWrap, Inductive, Acknowledging, NEW e \in Endpoints,
                    Open(e), WaitingForAck(tcb[e])
             PROVE  /\ tcb[e].lastSeg.seq = tcb[e].sendUnack
                    /\ Plus(tcb[e].lastSeg.seq, SegLen(tcb[e].lastSeg))
                          = tcb[e].sendNext
  BY DEF OutstandingIsLastSegment
<1> DEFINE t == tcb[e]
           w == written[e]
<1>1. t.state \notin {"NONE", "CLOSE"} /\ t.sendUnack < t.sendNext
  BY DEF Open, WaitingForAck
<1>2. SenderSide(e, t, w) /\ t \in Block(Endpoints, e)
  BY <1>1, SoundNow DEF Sound, SenderSide
<1>3. LastOK(t, tcb[Peer(e)])
  BY <1>1 DEF Acknowledging, NotOpened
<1>4. /\ t.sendUnack \in Nat /\ t.sendNext \in Nat /\ w \in Nat
      /\ t.sendInit \in Nat /\ Len(t.sendBuf) \in Nat
      /\ t.lastSeg.seq \in Nat /\ SegLen(t.lastSeg) \in Nat
  BY <1>2, BlockFields, SegmentFields DEF SenderSide
<1> HIDE DEF t, w
<1>5. /\ t.lastSeg.seq + SegLen(t.lastSeg) = t.sendNext
      /\ t.sendUnack \in {t.lastSeg.seq, t.sendNext}
  BY <1>1, <1>3 DEF LastOK
<1>6. t.sendNext < SeqSpace
  <2>1. /\ t.sendInit + w + 3 < SeqSpace
        /\ t.sendNext + Len(t.sendBuf) <= t.sendInit + w + 2
    BY <1>2, SenderFits
  <2> QED
    BY <1>4, <2>1, TcbAssumption
<1>7. Plus(t.lastSeg.seq, SegLen(t.lastSeg)) = t.sendNext
  BY <1>5, <1>6 DEF Plus
<1> QED
  BY <1>1, <1>4, <1>5, <1>7 DEF t

\* What takes a block from LAST_ACK to CLOSE: an acknowledgement of all that
\* was sent, or giving up.
LEMMA LastAckStep ==
    ASSUME NoWrap, Inductive, [Next]_vars, NEW e \in Endpoints,
           tcb[e].state = "LAST_ACK", tcb'[e].state = "CLOSE"
    PROVE  \/ tcb[e].retransCount >= MaxRetrans
           \/ \E m \in Arriving(e) : m.ackSeq = tcb[e].sendNext
<1> DEFINE t == tcb[e]
           p == Peer(e)
           Why == \/ t.retransCount >= MaxRetrans
                  \/ \E m \in Arriving(e) : m.ackSeq = t.sendNext
<1>1. /\ Sound(e, t, written[e], tcb[p], written[p], delivered[e])
      /\ t \in Block(Endpoints, e) /\ t \in TCB(Endpoints)
      /\ registry[e] # "none" /\ tcb'[e] # t
  <2>1. Sound(e, t, written[e], tcb[p], written[p], delivered[e])
    BY SoundNow
  <2> QED
    BY <2>1 DEF Sound, SenderSide, Block, Inductive, NotOpened
<1>2. \A x \in Endpoints : x = e \/ x = p
  BY EndpointsDef
<1>3. ASSUME NEW x \in Endpoints, NEW r, NEW underWay, Effect(x, r, underWay)
      PROVE  x = e /\ r.tcb.state = "CLOSE"
  <2>1. tcb' = [tcb EXCEPT ![x] = r.tcb]
    BY <1>3 DEF Effect
  <2>2. x = e
    BY <1>1, <2>1 DEF Inductive, TypeOK
  <2> QED
    BY <2>1, <2>2 DEF Inductive, TypeOK
<1>4. ASSUME NEW x \in Endpoints, Receive(x)
      PROVE  Why
  <2>1. CASE ReceiveSyn(x)
    BY <1>1, <1>3, <2>1 DEF ReceiveSyn
  <2>2. CASE Discard(x)
    BY <1>1, <2>2 DEF Discard
  <2>3. CASE ReceiveOutOfOrder(x)
    <3>1. PICK m \in Arriving(x) : Effect(x, OnOutOfOrder(tcb[x], m), After(m))
      BY <2>3 DEF ReceiveOutOfOrder
    <3>2. x = e /\ OnOutOfOrder(t, m).tcb.state = "CLOSE"
      BY <1>3, <3>1
    <3>3. m \in Segment(Endpoints) /\ m.ackSeq <= tcb[p].recvNext
      BY <3>1, <3>2, HeardNow DEF Heard, SegmentOK
    <3>4. /\ Ack(t, m).state = "LAST_ACK"
          /\ Sound(e, Ack(t, m), written[e], tcb[p], written[p], delivered[e])
      BY <1>1, <3>3, AckSafe
    <3>5. MakeSureSendback(Ack(t, m)).tcb.state = "LAST_ACK"
      BY <3>4, SendbackSafe DEF Sound, SameButSent
    <3> QED
      BY <3>2, <3>5 DEF OnOutOfOrder
  <2>4. ASSUME NEW m \in Arriving(x), NEW s, NEW r, HandledAs(s, x, m, r)
        PROVE  x = e /\ s = "LAST_ACK" /\ r.tcb.state = "CLOSE"
    BY <1>3, <2>4 DEF HandledAs
  <2>5. CASE ReceiveLastAck(x)
    <3>1. PICK m \in Arriving(x) :
             HandledAs("LAST_ACK", x, m, OnLastAck(tcb[x], m))
      BY <2>5 DEF ReceiveLastAck
    <3>2. x = e /\ OnLastAck(t, m).tcb.state = "CLOSE"
      BY <2>4, <3>1
    <3>3. m.ackSeq = t.sendNext
      BY <3>2 DEF OnLastAck, Silent, Result
    <3> QED
      BY <3>1, <3>2, <3>3
  <2> QED
    BY <1>4, <2>1, <2>2, <2>3, <2>4, <2>5
       DEF Receive, ReceiveSynRecv, ReceiveSynSent, ReceiveEstablished,
           ReceiveFinWait1, ReceiveFinWait2, ReceiveCloseWait, ReceiveClosing,
           ReceiveTimeWait
<1>5. ASSUME NEW x \in Endpoints, User(x)
      PROVE  Why
  <2>1. CASE Connect(x)
    BY <1>1, <1>3, <2>1 DEF Connect, Step
  <2>2. CASE \E n \in 1..MaxBytes[x] : Write(x, n)
    BY <1>3, <2>2 DEF Write, Step
  <2>3. CASE \E n \in 1..RecvCapacity : Read(x, n)
    <3>1. PICK b : tcb' = [tcb EXCEPT ![x] = [tcb[x] EXCEPT !.recvBuf = b]]
      BY <2>3 DEF Read
    <3>2. tcb'[e] = t \/ tcb'[e] = [t EXCEPT !.recvBuf = b]
      BY <3>1 DEF Inductive, TypeOK
    <3> QED
      BY <1>1, <3>2 DEF TCB
  <2>4. CASE Close(x)
    <3>1. x = e /\ CloseTcb(t).tcb.state = "CLOSE"
      BY <1>3, <2>4 DEF Close, Step
    <3> QED
      BY <3>1 DEF CloseTcb, Silent, Result
  <2> QED
    BY <1>5, <2>1, <2>2, <2>3, <2>4 DEF User
<1>6. ASSUME NEW x \in Endpoints, Timer(x)
      PROVE  Why
  <2>1. CASE Timeout(x)
    <3>1. x = e /\ Retransmit(t).tcb.state = "CLOSE"
      BY <1>3, <2>1 DEF Timeout, Step
    <3>2. t.retransCount >= MaxRetrans
      BY <1>1, <3>1 DEF Retransmit, Result, TCB
    <3> QED
      BY <3>2
  <2>2. CASE TimeWaitExpire(x)
    BY <1>1, <2>2 DEF TimeWaitExpire, Inductive, TypeOK
  <2> QED
    BY <1>6, <2>1, <2>2 DEF Timer
<1>7. CASE Lose
  BY <1>1, <1>7 DEF Lose
<1>8. CASE UNCHANGED vars
  BY <1>1, <1>8 DEF vars
<1> QED
  BY <1>4, <1>5, <1>6, <1>7, <1>8 DEF Next

\* An end that waits for an acknowledgement still has the segment it waits for,
\* whole, as last_seg: the timer repeats all that is unacknowledged.
THEOREM OneSegmentOutstanding ==
    ASSUME NoWrap
    PROVE  Spec => []OutstandingIsLastSegment
<1>1. Inductive /\ Acknowledging => OutstandingIsLastSegment
  BY LastIsOutstanding
<1> QED
  BY <1>1, AcknowledgingHolds, PTL

\* The passive side that leaves LAST_ACK, other than by giving up, has nothing
\* left to send, and its peer has taken all of it.
THEOREM LastAckIsTheEnd ==
    ASSUME NoWrap
    PROVE  Spec => LastAckMeansDone
<1> DEFINE Done == \A e \in Endpoints :
                      tcb[e].state = "LAST_ACK" /\ tcb'[e].state = "CLOSE" =>
                          \/ tcb[e].retransCount = MaxRetrans
                          \/ /\ tcb[e].sendBuf = <<>>
                             /\ tcb[Peer(e)].recvNext = tcb[e].sendNext
<1>1. ASSUME Inductive, Acknowledging, [Next]_vars
      PROVE  Done
  <2> SUFFICES ASSUME NEW e \in Endpoints,
                      tcb[e].state = "LAST_ACK", tcb'[e].state = "CLOSE"
               PROVE  \/ tcb[e].retransCount = MaxRetrans
                      \/ /\ tcb[e].sendBuf = <<>>
                         /\ tcb[Peer(e)].recvNext = tcb[e].sendNext
    OBVIOUS
  <2> DEFINE t == tcb[e]
             q == tcb[Peer(e)]
  <2>1. CASE t.retransCount >= MaxRetrans
    <3>1. t.retransCount \in Nat /\ t.retransCount <= MaxRetrans
      BY <1>1 DEF Inductive, TypeOK, TCB
    <3> QED
      BY <2>1, <3>1, TcbAssumption
  <2>2. CASE \E m \in Arriving(e) : m.ackSeq = t.sendNext
    <3>1. PICK m \in Arriving(e) : m.ackSeq = t.sendNext
      BY <2>2
    <3>2. t.sendNext <= q.recvNext
      BY <1>1, <3>1, HeardNow DEF Heard, SegmentOK
    <3>3. /\ SenderSide(e, t, written[e])
          /\ Near(e, t, written[e], q, written[Peer(e)])
          /\ ClosedOK(t, written[e], q)
      BY <1>1, SoundNow, NearNow DEF Sound, Acknowledging
    <3>4. q.recvNext >= t.sendNext
      <4>1. q.recvNext \in Nat /\ t.sendNext \in Nat
        BY <3>3, EndpointsDef, BlockFields DEF Near
      <4> QED
        BY <3>2, <4>1
    <3> QED
      BY <3>3, <3>4, TakenMeansAll
  <2> QED
    BY <1>1, <2>1, <2>2, LastAckStep
<1>2. Inductive /\ Acknowledging /\ [Next]_vars => [Done]_vars
  BY <1>1
<1> QED
  BY <1>2, AcknowledgingHolds, PTL DEF Spec, LastAckMeansDone

\* Who has all that its peer wrote, and the FIN, is in a state that says so.
LEMMA EndedMeansTaken == Inductive /\ Ended => FinAckedMeansTaken
<1> SUFFICES ASSUME Inductive, Ended, NEW e \in Endpoints,
                    tcb[e].state \in {"FIN_WAIT2", "TIME_WAIT"}
             PROVE  FinTaken(Peer(e)) \/ tcb[Peer(e)].state = "CLOSE"
  BY DEF FinAckedMeansTaken
<1> DEFINE t == tcb[e]
           w == written[e]
           p == Peer(e)
           q == tcb[p]
           dq == delivered[p]
<1>1. p \in Endpoints /\ Peer(p) = e
  BY EndpointsDef
<1>2. HasFin(q, t, w)
  BY DEF Ended, EndedOK
<1>3. ReceiverOK(q, t, w, dq) /\ dq \in Seq(Nat)
  BY <1>1 DEF Inductive, BlockOK, TypeOK
<1>4. t \in Block(Endpoints, e) /\ q \in Block(Endpoints, p) /\ w \in Nat
  BY <1>1, TypeOKBlocks DEF Inductive
<1>5. t.sendInit \in Nat /\ q.recvNext \in Nat /\ q.recvBuf \in Seq(Nat)
  BY <1>1, <1>4, BlockFields
<1>6. Len(dq) \in Nat /\ Len(q.recvBuf) \in Nat
  BY <1>3, <1>5
<1>7. q.recvNext = t.sendInit + 2 + w
  BY <1>2 DEF HasFin
<1>8. q.recvNext # 0
  BY <1>4, <1>5, <1>7
<1>9. /\ Len(dq) + Len(q.recvBuf) <= w
      /\ \/ q.recvNext = t.sendInit + 1 + Len(dq) + Len(q.recvBuf)
         \/ q.state \in FinStates \cup {"CLOSE"}
  BY <1>3, <1>8 DEF ReceiverOK
<1> DEFINE x == Len(dq)
           y == Len(q.recvBuf)
<1>10. x \in Nat /\ y \in Nat /\ x + y <= w
  BY <1>6, <1>9
<1>11. \/ q.recvNext = t.sendInit + 1 + x + y
       \/ q.state \in FinStates \cup {"CLOSE"}
  BY <1>9
<1> HIDE DEF x, y, q, t, w
<1>12. q.recvNext # t.sendInit + 1 + x + y
  BY <1>4, <1>5, <1>7, <1>10
<1> QED
  BY <1>11, <1>12 DEF FinTaken, q

\* As long as no close() has failed, an end that believes its FIN acknowledged
\* is right: the peer has taken it, or has given the connection up since.
THEOREM FinAckedIsTaken ==
    ASSUME NoWrap
    PROVE  Spec /\ []NoneLost => []FinAckedMeansTaken
<1>1. Init => Ended
  BY InitEnds
<1>2. Inductive /\ Acknowledging /\ NoneLost' /\ [Next]_vars /\ Ended => Ended'
  BY NextEnds
<1>3. Inductive /\ Ended => FinAckedMeansTaken
  BY EndedMeansTaken
<1> QED
  BY <1>1, <1>2, <1>3, AcknowledgingHolds, PTL DEF Spec

-----------------------------------------------------------------------------
(* The steps of a block as a host sees it.                                 *)

\* A host's block in state s, with w: a segment is unacknowledged, n items to
\* send, and k bytes to read.
Seen(s, w, n, k) ==
    [state |-> s, waiting |-> w, unsent |-> n, unread |-> k]

\* Sending leaves x and y of w and n.
SendsOn(w, n, x, y) == IF w \/ n = 0 THEN x = w /\ y = n
                                     ELSE x = TRUE /\ y \in 0 .. n - 1

LEMMA ViewIsSeen ==
    ASSUME NEW t
    PROVE  View(t) = Seen(t.state, WaitingForAck(t), Len(t.sendBuf),
                          Len(t.recvBuf))
  BY DEF View, Seen

LEMMA FieldsSeen ==
    ASSUME NEW s, NEW w, NEW n, NEW k
    PROVE  LET b == Seen(s, w, n, k)
           IN  b.state = s /\ b.unsent = n /\ b.unread = k
  BY DEF Seen

LEMMA WaitingSeen ==
    ASSUME NEW s, NEW w, NEW n, NEW k, NEW v
    PROVE  [Seen(s, w, n, k) EXCEPT !.waiting = v] = Seen(s, v, n, k)
  BY DEF Seen

LEMMA SendingSeen ==
    ASSUME NEW s, NEW w, NEW n, NEW k, NEW v, NEW i
    PROVE  [Seen(s, w, n, k) EXCEPT !.waiting = v, !.unsent = i]
              = Seen(s, v, i, k)
<1>1. [Seen(s, w, n, k) EXCEPT !.waiting = v] = Seen(s, v, n, k)
  BY DEF Seen
<1>2. [Seen(s, v, n, k) EXCEPT !.unsent = i] = Seen(s, v, i, k)
  BY DEF Seen
<1> QED
  BY <1>1, <1>2, Zenon

LEMMA SendbackSeen ==
    ASSUME NEW s, NEW w \in BOOLEAN, NEW n \in Nat, NEW k,
           NEW x \in BOOLEAN, NEW y \in Nat, SendsOn(w, n, x, y)
    PROVE  Seen(s, x, y, k) \in Host!Sendback(Seen(s, w, n, k))
<1> DEFINE b == Seen(s, w, n, k)
<1>1. b.waiting = w /\ b.unsent = n
  BY DEF Seen
<1>2. CASE w \/ n = 0
  BY <1>1, <1>2, Zenon DEF SendsOn, Host!Sendback
<1>3. CASE ~(w \/ n = 0)
  <2>1. x = TRUE /\ y \in 0 .. n - 1
    BY <1>3 DEF SendsOn
  <2> DEFINE i == n - y
             left == n - i
  <2>2. i \in 1 .. n /\ left = y
    BY <2>1
  <2>3. [b EXCEPT !.waiting = TRUE, !.unsent = left] = Seen(s, x, left, k)
    <3>1. [b EXCEPT !.waiting = x] = Seen(s, x, n, k)
      BY DEF Seen
    <3> HIDE DEF b, left
    <3>2. [Seen(s, x, n, k) EXCEPT !.unsent = left] = Seen(s, x, left, k)
      BY DEF Seen
    <3> QED
      BY ONLY <2>1, <3>1, <3>2, Zenon
  <2>4. Host!Sendback(b) = {[b EXCEPT !.waiting = TRUE, !.unsent = n - j] :
                               j \in 1 .. n}
    BY <1>1, <1>3, Zenon DEF Host!Sendback
  <2> HIDE DEF b, i
  <2>5. [b EXCEPT !.waiting = TRUE, !.unsent = left] \in Host!Sendback(b)
    BY <2>2, <2>4, Zenon
  <2> HIDE DEF left
  <2> QED
    BY <2>2, <2>3, <2>5 DEF b
<1> QED
  BY <1>2, <1>3

LEMMA AckedSeen ==
    ASSUME NEW s, NEW w \in BOOLEAN, NEW n \in Nat, NEW k, NEW z \in {w, FALSE}
    PROVE  /\ Seen(s, z, n, k) \in Host!Acked(Seen(s, w, n, k))
           /\ \A x \in BOOLEAN, y \in Nat :
                 SendsOn(z, n, x, y) =>
                    Seen(s, x, y, k) \in Host!AckedSendback(Seen(s, w, n, k))
<1> DEFINE b == Seen(s, w, n, k)
           a == Seen(s, z, n, k)
<1>1. a \in Host!Acked(b)
  <2>1. [b EXCEPT !.waiting = FALSE] = Seen(s, FALSE, n, k)
    <3>1. PICK false : false = FALSE
      OBVIOUS
    <3>2. [b EXCEPT !.waiting = false] = Seen(s, false, n, k)
      BY WaitingSeen
    <3> QED
      BY ONLY <3>1, <3>2, Zenon
  <2> QED
    BY <2>1 DEF Host!Acked
<1>2. ASSUME NEW x \in BOOLEAN, NEW y \in Nat, SendsOn(z, n, x, y)
      PROVE  Seen(s, x, y, k) \in Host!AckedSendback(b)
  <2>1. Seen(s, x, y, k) \in Host!Sendback(a)
    BY <1>2, SendbackSeen
  <2> HIDE DEF a, b
  <2> QED
    BY <1>1, <2>1 DEF Host!AckedSendback
<1> QED
  BY <1>1, <1>2

\* A change of state on the way makes no difference to what is sent.
LEMMA InSeen ==
    ASSUME NEW s, NEW r, NEW w, NEW n, NEW k, NEW B, Seen(s, w, n, k) \in B
    PROVE  Seen(r, w, n, k) \in Host!In(r, B)
<1>1. [Seen(s, w, n, k) EXCEPT !.state = r] = Seen(r, w, n, k)
  BY DEF Seen
<1> QED
  BY <1>1 DEF Host!In

LEMMA FilledSeen ==
    ASSUME NEW s, NEW w, NEW n, NEW k \in Nat, NEW i \in k .. RecvCapacity,
           NEW B, Seen(s, w, n, k) \in B
    PROVE  Seen(s, w, n, i) \in Host!AllFilled(B)
<1> DEFINE b == Seen(s, w, n, k)
<1>1. [b EXCEPT !.unread = i] = Seen(s, w, n, i) /\ b.unread = k
  BY DEF Seen
<1>2. Seen(s, w, n, i) \in Host!Filled(b)
  BY <1>1 DEF Host!Filled
<1> QED
  BY <1>2 DEF Host!AllFilled

\* What a segment that brings no news of its own may do.
LEMMA AnySegmentSeen ==
    ASSUME NEW s, s \notin {"CLOSE", "SYN_SENT"}, NEW w \in BOOLEAN,
           NEW n \in Nat, NEW k, NEW z \in {w, FALSE}
    PROVE  LET b == Seen(s, w, n, k)
           IN  /\ Seen(s, z, n, k) \in Host!OnSegment(b)
               /\ \A x \in BOOLEAN, y \in Nat :
                     SendsOn(z, n, x, y) =>
                        Seen(s, x, y, k) \in Host!OnSegment(b)
<1> DEFINE b == Seen(s, w, n, k)
<1>1. b.state = s
  BY DEF Seen
<1>2. \A v \in Host!Acked(b) \cup Host!AckedSendback(b) : v \in Host!OnSegment(b)
  <2> HIDE DEF b
  <2> QED
    BY <1>1 DEF Host!OnSegment
<1> QED
  BY <1>2, AckedSeen

\* What a segment in order may do besides.
LEMMA SynSegmentSeen ==
    ASSUME NEW w \in BOOLEAN, NEW n \in Nat, NEW k
    PROVE  /\ Seen("ESTABLISHED", FALSE, n, k)
                 \in Host!OnSegment(Seen("SYN_RECV", w, n, k))
           /\ \A x \in BOOLEAN, y \in Nat :
                 SendsOn(FALSE, n, x, y) =>
                    Seen("ESTABLISHED", x, y, k)
                       \in Host!OnSegment(Seen("SYN_SENT", w, n, k))
<1>1. Seen("ESTABLISHED", FALSE, n, k)
         \in Host!OnSegment(Seen("SYN_RECV", w, n, k))
  <2> DEFINE b == Seen("SYN_RECV", w, n, k)
             a == [b EXCEPT !.waiting = FALSE]
  <2>1. a = Seen("SYN_RECV", FALSE, n, k) /\ b.state = "SYN_RECV"
    <3>1. PICK false : false = FALSE
      OBVIOUS
    <3>2. [b EXCEPT !.waiting = false] = Seen("SYN_RECV", false, n, k)
      BY WaitingSeen
    <3>3. b.state = "SYN_RECV"
      BY FieldsSeen
    <3> QED
      BY ONLY <3>1, <3>2, <3>3, Zenon
  <2>2. Seen("ESTABLISHED", FALSE, n, k) \in Host!In("ESTABLISHED", {a})
    BY <2>1, InSeen
  <2>3. Host!In("ESTABLISHED", {a}) \subseteq Host!OnSegment(b)
    BY <2>1 DEF Host!OnSegment
  <2> QED
    BY <2>2, <2>3
<1>2. ASSUME NEW x \in BOOLEAN, NEW y \in Nat, SendsOn(FALSE, n, x, y)
      PROVE  Seen("ESTABLISHED", x, y, k)
                \in Host!OnSegment(Seen("SYN_SENT", w, n, k))
  <2> DEFINE b == Seen("SYN_SENT", w, n, k)
             a == [b EXCEPT !.waiting = FALSE]
             B == Host!Sendback(a)
  <2>1. a = Seen("SYN_SENT", FALSE, n, k) /\ b.state = "SYN_SENT"
    <3>1. PICK false : false = FALSE
      OBVIOUS
    <3>2. [b EXCEPT !.waiting = false] = Seen("SYN_SENT", false, n, k)
      BY WaitingSeen
    <3>3. b.state = "SYN_SENT"
      BY FieldsSeen
    <3> QED
      BY ONLY <3>1, <3>2, <3>3, Zenon
  <2>2. Seen("SYN_SENT", x, y, k) \in B
    BY <1>2, <2>1, SendbackSeen
  <2>3. Seen("ESTABLISHED", x, y, k) \in Host!In("ESTABLISHED", B)
    BY <2>2, InSeen
  <2>4. Host!In("ESTABLISHED", B) \subseteq Host!OnSegment(b)
    BY <2>1 DEF Host!OnSegment
  <2> QED
    BY <2>3, <2>4
<1> QED
  BY <1>1, <1>2

LEMMA EstablishedSegmentSeen ==
    ASSUME NEW w \in BOOLEAN, NEW n \in Nat, NEW k \in Nat, NEW z \in {w, FALSE}
    PROVE  LET b == Seen("ESTABLISHED", w, n, k)
           IN  /\ \A i \in k .. RecvCapacity :
                     Seen("ESTABLISHED", z, n, i) \in Host!OnSegment(b)
               /\ \A x \in BOOLEAN, y \in Nat :
                     SendsOn(z, n, x, y) =>
                        /\ Seen("CLOSE_WAIT", x, y, k) \in Host!OnSegment(b)
                        /\ \A i \in k .. RecvCapacity :
                              Seen("ESTABLISHED", x, y, i) \in Host!OnSegment(b)
<1> DEFINE b == Seen("ESTABLISHED", w, n, k)
           A == Host!Acked(b) \cup Host!AckedSendback(b)
<1>1. b.state = "ESTABLISHED"
  BY DEF Seen
<1>2. /\ Host!AllFilled(A) \subseteq Host!OnSegment(b)
      /\ Host!In("CLOSE_WAIT", Host!AckedSendback(b)) \subseteq Host!OnSegment(b)
  <2> HIDE DEF b
  <2> QED
    BY <1>1 DEF Host!OnSegment
<1>3. /\ Seen("ESTABLISHED", z, n, k) \in A
      /\ \A x \in BOOLEAN, y \in Nat : SendsOn(z, n, x, y) =>
            /\ Seen("ESTABLISHED", x, y, k) \in A
            /\ Seen("ESTABLISHED", x, y, k) \in Host!AckedSendback(b)
  BY AckedSeen
<1> HIDE DEF A, b
<1>4. \A i \in k .. RecvCapacity : Seen("ESTABLISHED", z, n, i) \in Host!AllFilled(A)
  BY <1>3, FilledSeen
<1>5. ASSUME NEW x \in BOOLEAN, NEW y \in Nat, SendsOn(z, n, x, y)
      PROVE  /\ Seen("CLOSE_WAIT", x, y, k) \in Host!OnSegment(b)
             /\ \A i \in k .. RecvCapacity :
                   Seen("ESTABLISHED", x, y, i) \in Host!OnSegment(b)
  <2>1. Seen("CLOSE_WAIT", x, y, k) \in Host!In("CLOSE_WAIT", Host!AckedSendback(b))
    BY <1>3, <1>5, InSeen
  <2>2. \A i \in k .. RecvCapacity : Seen("ESTABLISHED", x, y, i) \in Host!AllFilled(A)
    BY <1>3, <1>5, FilledSeen
  <2> QED
    BY <1>2, <2>1, <2>2
<1> QED
  BY <1>2, <1>4, <1>5 DEF b

LEMMA ClosingSegmentSeen ==
    ASSUME NEW w \in BOOLEAN, NEW n \in Nat, NEW k, NEW z \in {w, FALSE}
    PROVE  /\ n = 0 => Seen("FIN_WAIT2", FALSE, n, k)
                          \in Host!OnSegment(Seen("FIN_WAIT1", w, n, k))
           /\ \A x \in BOOLEAN, y \in Nat :
                 SendsOn(z, n, x, y) =>
                    /\ Seen(IF x THEN "CLOSING" ELSE "TIME_WAIT", x, y, k)
                          \in Host!OnSegment(Seen("FIN_WAIT1", w, n, k))
                    /\ Seen("TIME_WAIT", x, y, k)
                          \in Host!OnSegment(Seen("FIN_WAIT2", w, n, k))
           /\ Seen("TIME_WAIT", w, n, k)
                 \in Host!OnSegment(Seen("CLOSING", w, n, k))
           /\ Seen("CLOSE", FALSE, n, k)
                 \in Host!OnSegment(Seen("LAST_ACK", w, n, k))
<1> DEFINE b(s) == Seen(s, w, n, k)
<1>1. \A s : b(s).state = s
  BY DEF Seen
<1>2. ASSUME n = 0
      PROVE  Seen("FIN_WAIT2", FALSE, n, k) \in Host!OnSegment(b("FIN_WAIT1"))
  <2> DEFINE c == b("FIN_WAIT1")
             I == {a \in Host!Acked(c) : ~a.waiting /\ a.unsent = 0}
  <2>1. /\ ~Seen("FIN_WAIT1", FALSE, n, k).waiting
        /\ Seen("FIN_WAIT1", FALSE, n, k).unsent = 0
    BY <1>2 DEF Seen
  <2>2. Seen("FIN_WAIT1", FALSE, n, k) \in Host!Acked(c)
    BY AckedSeen
  <2>3. Seen("FIN_WAIT1", FALSE, n, k) \in I
    BY <2>1, <2>2
  <2>4. c.state = "FIN_WAIT1"
    BY <1>1
  <2> HIDE DEF c
  <2>5. Host!In("FIN_WAIT2", I) \subseteq Host!OnSegment(c)
    BY <2>4 DEF Host!OnSegment
  <2> HIDE DEF I
  <2>6. Seen("FIN_WAIT2", FALSE, n, k) \in Host!In("FIN_WAIT2", I)
    BY <2>3, InSeen
  <2> QED
    BY <2>5, <2>6 DEF c
<1>3. ASSUME NEW x \in BOOLEAN, NEW y \in Nat, SendsOn(z, n, x, y)
      PROVE  /\ Seen(IF x THEN "CLOSING" ELSE "TIME_WAIT", x, y, k)
                   \in Host!OnSegment(b("FIN_WAIT1"))
             /\ Seen("TIME_WAIT", x, y, k) \in Host!OnSegment(b("FIN_WAIT2"))
  <2> DEFINE c == b("FIN_WAIT1")
             W == {a \in Host!AckedSendback(c) : a.waiting}
             V == {a \in Host!AckedSendback(c) : ~a.waiting}
             f == b("FIN_WAIT2")
  <2>1. /\ Seen("FIN_WAIT1", x, y, k) \in Host!AckedSendback(c)
        /\ Seen("FIN_WAIT2", x, y, k) \in Host!AckedSendback(f)
    BY <1>3, AckedSeen
  <2>2. Seen("FIN_WAIT1", x, y, k).waiting = x
    BY DEF Seen
  <2>3. c.state = "FIN_WAIT1" /\ f.state = "FIN_WAIT2"
    BY <1>1
  <2> HIDE DEF c, f
  <2>4. /\ Host!In("CLOSING", W) \subseteq Host!OnSegment(c)
        /\ Host!In("TIME_WAIT", V) \subseteq Host!OnSegment(c)
    BY <2>3 DEF Host!OnSegment
  <2>5. Host!In("TIME_WAIT", Host!AckedSendback(f)) \subseteq Host!OnSegment(f)
    BY <2>3 DEF Host!OnSegment
  <2>6. IF x THEN Seen("FIN_WAIT1", x, y, k) \in W
             ELSE Seen("FIN_WAIT1", x, y, k) \in V
    BY <2>1, <2>2
  <2> HIDE DEF W, V
  <2>7. CASE x
    BY <2>1, <2>4, <2>5, <2>6, <2>7, InSeen DEF c, f
  <2>8. CASE ~x
    BY <2>1, <2>4, <2>5, <2>6, <2>8, InSeen DEF c, f
  <2> QED
    BY <2>7, <2>8
<1>4. Seen("TIME_WAIT", w, n, k) \in Host!OnSegment(b("CLOSING"))
  <2> DEFINE c == b("CLOSING")
  <2>1. Seen("TIME_WAIT", w, n, k) \in Host!In("TIME_WAIT", {c})
    BY InSeen
  <2>2. c.state = "CLOSING"
    BY <1>1
  <2> HIDE DEF c
  <2>3. Host!In("TIME_WAIT", {c}) \subseteq Host!OnSegment(c)
    BY <2>2 DEF Host!OnSegment
  <2> QED
    BY <2>1, <2>3 DEF c
<1>5. Seen("CLOSE", FALSE, n, k) \in Host!OnSegment(b("LAST_ACK"))
  <2> DEFINE c == b("LAST_ACK")
             a == [c EXCEPT !.waiting = FALSE]
  <2>1. a = Seen("LAST_ACK", FALSE, n, k) /\ c.state = "LAST_ACK"
    <3>1. PICK false : false = FALSE
      OBVIOUS
    <3>2. [c EXCEPT !.waiting = false] = Seen("LAST_ACK", false, n, k)
      BY WaitingSeen
    <3>3. c.state = "LAST_ACK"
      BY FieldsSeen
    <3> QED
      BY ONLY <3>1, <3>2, <3>3, Zenon
  <2>2. Seen("CLOSE", FALSE, n, k) \in Host!In("CLOSE", {a})
    BY <2>1, InSeen
  <2> HIDE DEF c
  <2>3. Host!In("CLOSE", {a}) \subseteq Host!OnSegment(c)
    BY <2>1 DEF Host!OnSegment
  <2> QED
    BY <2>2, <2>3 DEF c
<1> QED
  BY <1>2, <1>3, <1>4, <1>5

-----------------------------------------------------------------------------
(* What the operations of module Tcb leave to be seen.                     *)

LEMMA SendbackView ==
    ASSUME NEW e \in Endpoints, NEW p, NEW q, Level(e, p, q)
    PROVE  \E x \in BOOLEAN, y \in Nat :
              /\ SendsOn(WaitingForAck(p), Len(p.sendBuf), x, y)
              /\ View(MakeSureSendback(p).tcb)
                    = Seen(p.state, x, y, Len(p.recvBuf))
<1> DEFINE n == Len(p.sendBuf)
           k == Len(p.recvBuf)
<1>1. /\ p \in Block(Endpoints, e) /\ p \in TCB(Endpoints)
      /\ p.sendBuf \in Seq(Item)
      /\ n \in Nat /\ p.sendNext \in Nat /\ p.sendUnack \in Nat
      /\ p.sendUnack <= p.sendNext /\ Total(p) < SeqSpace
      /\ WaitingForAck(p) \in BOOLEAN
  BY BlockFields DEF Level, WaitingForAck
<1>2. CASE WaitingForAck(p) \/ p.sendBuf = <<>>
  <2>1. MakeSureSendback(p).tcb = p
    BY <1>2 DEF MakeSureSendback, SendSegment, Silent, Result
  <2>2. View(p) = Seen(p.state, WaitingForAck(p), n, k)
    BY ViewIsSeen
  <2>3. SendsOn(WaitingForAck(p), n, WaitingForAck(p), n)
    <3>1. WaitingForAck(p) \/ n = 0
      BY <1>2
    <3> QED
      BY <3>1, Zenon DEF SendsOn
  <2> HIDE DEF n, k
  <2> QED
    BY <1>1, <2>1, <2>2, <2>3, Zenon DEF n, k
<1>3. CASE ~(WaitingForAck(p) \/ p.sendBuf = <<>>)
  <2> DEFINE m == NextSegment(p)
             l == SegLen(m)
             next == Plus(p.sendNext, l)
             rest == SubSeq(p.sendBuf, l + 1, n)
             u == [p EXCEPT !.sendNext = next, !.sendBuf = rest,
                            !.lastSeg = m, !.retransCount = 0]
  <2>1. l \in 1..n
    BY <1>1, <1>3, NextSegmentType
  <2>2. MakeSureSendback(p).tcb = u
    BY <1>3 DEF MakeSureSendback, SendSegment, Result
  <2> HIDE DEF m, l, next, rest
  <2>3. /\ u.state = p.state /\ u.sendUnack = p.sendUnack
        /\ u.sendNext = next /\ u.sendBuf = rest /\ u.recvBuf = p.recvBuf
    BY <1>1 DEF TCB
  <2> HIDE DEF u
  <2>4. l \in Nat /\ l >= 1 /\ l <= n
    BY <1>1, <2>1
  <2>5. Len(rest) = n - l
    BY <1>1, <2>4, SubSeqProperties DEF rest
  <2>6. p.sendNext + l < SeqSpace
    <3>1. p.sendNext + n < SeqSpace
      BY <1>1 DEF Total
    <3> HIDE DEF n
    <3> QED
      BY <1>1, <2>4, <3>1, TcbAssumption
  <2>7. next = p.sendNext + l
    BY <2>6 DEF Plus, next
  <2> HIDE DEF n, k
  <2>8. WaitingForAck(u) = TRUE
    BY <1>1, <2>3, <2>4, <2>7 DEF WaitingForAck
  <2>9. n - l \in Nat /\ n - l \in 0 .. n - 1 /\ n # 0
    BY <1>1, <2>4
  <2> DEFINE y == n - l
  <2>10. y \in Nat /\ y \in 0 .. n - 1 /\ n # 0 /\ Len(rest) = y
    BY <2>5, <2>9
  <2> HIDE DEF y
  <2>11. View(u) = Seen(p.state, TRUE, y, k)
    <3>1. View(u) = Seen(u.state, WaitingForAck(u), Len(u.sendBuf), Len(u.recvBuf))
      BY ViewIsSeen
    <3> QED
      BY <2>3, <2>8, <2>10, <3>1, Zenon DEF k
  <2>12. SendsOn(WaitingForAck(p), n, TRUE, y)
    BY <1>3, <2>10, Zenon DEF SendsOn
  <2> QED
    BY <2>2, <2>10, <2>11, <2>12, Zenon DEF n, k
<1> QED
  BY <1>2, <1>3

LEMMA AckView ==
    ASSUME NoWrap, NEW e \in Endpoints, NEW t, NEW w, NEW q, NEW wq, NEW d,
           NEW m, Told(e, t, w, q, wq, d, m)
    PROVE  LET a == Ack(t, m)
           IN  /\ a \in TCB(Endpoints) /\ Level(e, a, q)
               /\ a.state = t.state
               /\ a.sendBuf = t.sendBuf /\ a.recvBuf = t.recvBuf
               /\ WaitingForAck(a) => WaitingForAck(t)
<1> DEFINE a == Ack(t, m)
<1>1. /\ t \in Block(Endpoints, e) /\ t \in TCB(Endpoints)
      /\ t.sendUnack \in Nat /\ t.sendNext \in Nat
  BY BlockFields DEF Told, Near, Block
<1>2. /\ a \in TCB(Endpoints) /\ Level(e, a, q) /\ a.state = t.state
  BY AckEnds
<1>3. a.sendNext = t.sendNext /\ a.sendUnack \in {t.sendUnack, t.sendNext}
  <2>1. t.state # "CLOSE" /\ a.state # "CLOSE"
    BY <1>2 DEF Told
  <2>2. Prepared(t, q, wq, a)
    BY AckPrepares
  <2> HIDE DEF a
  <2> QED
    BY <2>1, <2>2 DEF Prepared
<1>4. a.sendBuf = t.sendBuf /\ a.recvBuf = t.recvBuf
  BY <1>1 DEF Ack, TCB
<1> HIDE DEF a
<1>5. WaitingForAck(a) => WaitingForAck(t)
  BY <1>1, <1>3 DEF WaitingForAck
<1> QED
  BY <1>2, <1>4, <1>5 DEF a

\* The types of what is seen of an open block.
LEMMA SeenNow ==
    ASSUME NEW e \in Endpoints, NEW t \in Block(Endpoints, e)
    PROVE  /\ View(t) = Seen(t.state, WaitingForAck(t), Len(t.sendBuf),
                             Len(t.recvBuf))
           /\ WaitingForAck(t) \in BOOLEAN
           /\ Len(t.sendBuf) \in 0 .. SendCapacity
           /\ Len(t.recvBuf) \in 0 .. RecvCapacity
<1>1. /\ t.sendBuf \in Seq(Item) /\ t.recvBuf \in Seq(Nat)
      /\ t.sendUnack \in Nat /\ t.sendNext \in Nat
      /\ Len(t.sendBuf) <= SendCapacity /\ Len(t.recvBuf) <= RecvCapacity
  BY BlockFields DEF Block, Fits
<1>2. Len(t.sendBuf) \in Nat /\ Len(t.recvBuf) \in Nat
  BY <1>1
<1>3. WaitingForAck(t) \in BOOLEAN
  BY <1>1 DEF WaitingForAck
<1> DEFINE n == Len(t.sendBuf)
           k == Len(t.recvBuf)
<1>4. n \in 0 .. SendCapacity /\ k \in 0 .. RecvCapacity
  <2> n \in Nat /\ k \in Nat /\ n <= SendCapacity /\ k <= RecvCapacity
    BY <1>1, <1>2
  <2> HIDE DEF n, k
  <2> QED
    BY TcbAssumption
<1> QED
  BY <1>3, <1>4, ViewIsSeen

\* A segment makes block u of t, as far as module Sockets sees.
Follows(t, u) == View(u) \in Host!OnSegment(View(t))

LEMMA StayFollows ==
    ASSUME NEW t, t.state # "CLOSE"
    PROVE  Follows(t, t)
<1> DEFINE b == View(t)
<1>1. b.state = t.state
  BY DEF View
<1> HIDE DEF b
<1>2. b \in Host!Acked(b)
  BY DEF Host!Acked
<1>3. b \in Host!OnSegment(b)
  BY <1>1, <1>2 DEF Host!OnSegment
<1> QED
  BY <1>3 DEF Follows, b

\* The acknowledgement alone, and with an answer.
LEMMA AckFollows ==
    ASSUME NoWrap, NEW e \in Endpoints, NEW t, NEW w, NEW q, NEW wq, NEW d,
           NEW m, Told(e, t, w, q, wq, d, m), t.state # "SYN_SENT"
    PROVE  Follows(t, Ack(t, m)) /\ Follows(t, OnOutOfOrder(t, m).tcb)
<1> DEFINE a == Ack(t, m)
           u == MakeSureSendback(a).tcb
           s == t.state
           n == Len(t.sendBuf)
           k == Len(t.recvBuf)
           v == WaitingForAck(t)
           z == WaitingForAck(a)
<1>1. t \in Block(Endpoints, e) /\ s \notin {"CLOSE", "SYN_SENT"}
  BY DEF Told, Near
<1>2. View(t) = Seen(s, v, n, k) /\ v \in BOOLEAN /\ n \in Nat
  BY <1>1, SeenNow
<1>3. /\ Level(e, a, q) /\ a.state = s /\ z \in {v, FALSE}
      /\ Len(a.sendBuf) = n /\ Len(a.recvBuf) = k
  <2>1. /\ Level(e, a, q) /\ a.state = s
        /\ a.sendBuf = t.sendBuf /\ a.recvBuf = t.recvBuf
        /\ WaitingForAck(a) => WaitingForAck(t)
    BY AckView
  <2>2. z \in BOOLEAN
    BY <2>1, SeenNow DEF Level
  <2> QED
    BY <1>2, <2>1, <2>2
<1>4. View(a) = Seen(s, z, n, k)
  <2>1. View(a) = Seen(a.state, z, Len(a.sendBuf), Len(a.recvBuf))
    BY ViewIsSeen
  <2> HIDE DEF a, z, n, k
  <2> QED
    BY <1>3, <2>1
<1>5. \E x \in BOOLEAN, y \in Nat :
         SendsOn(z, n, x, y) /\ View(u) = Seen(s, x, y, k)
  <2>1. \E x \in BOOLEAN, y \in Nat :
           /\ SendsOn(z, Len(a.sendBuf), x, y)
           /\ View(u) = Seen(a.state, x, y, Len(a.recvBuf))
    BY <1>3, SendbackView
  <2> HIDE DEF a, u, z, n, k
  <2> QED
    BY <1>3, <2>1
<1>6. OnOutOfOrder(t, m).tcb = u
  BY DEF OnOutOfOrder
<1> HIDE DEF a, u, s, n, k, v, z
<1>7. /\ Seen(s, z, n, k) \in Host!OnSegment(Seen(s, v, n, k))
      /\ \A x \in BOOLEAN, y \in Nat :
            SendsOn(z, n, x, y) =>
               Seen(s, x, y, k) \in Host!OnSegment(Seen(s, v, n, k))
  BY <1>1, <1>2, <1>3, AnySegmentSeen
<1>8. Follows(t, a)
  BY <1>2, <1>4, <1>7 DEF Follows
<1>9. Follows(t, u)
  BY <1>2, <1>5, <1>7 DEF Follows
<1> QED
  BY <1>6, <1>8, <1>9 DEF a

LEMMA OnSynRecvFollows ==
    ASSUME NoWrap, NEW e \in Endpoints, NEW t, NEW w, NEW q, NEW wq, NEW d,
           NEW m, Told(e, t, w, q, wq, d, m), t.state = "SYN_RECV"
    PROVE  Follows(t, OnSynRecv(t, m).tcb)
<1> DEFINE a == Ack(t, m)
           u == [a EXCEPT !.state = "ESTABLISHED"]
<1>1. /\ t \in Block(Endpoints, e) /\ t.state # "CLOSE"
      /\ m \in Segment(Endpoints)
  BY DEF Told, Near, Heard
<1>2. /\ a \in TCB(Endpoints) /\ a.state = t.state
      /\ a.sendBuf = t.sendBuf /\ a.recvBuf = t.recvBuf
  BY AckView
<1>3. CASE OnSynRecv(t, m).tcb = t
  BY <1>1, <1>3, StayFollows
<1>4. CASE OnSynRecv(t, m).tcb # t
  <2>1. OnSynRecv(t, m).tcb = u /\ m.ackSeq = t.sendNext
    BY <1>4 DEF OnSynRecv, Silent, Result
  <2>2. a.sendNext = t.sendNext /\ a.sendUnack = t.sendNext
    <3>1. /\ a.sendNext = t.sendNext
          /\ a.sendUnack = IF m.ackSeq > t.sendUnack THEN m.ackSeq ELSE t.sendUnack
      BY <1>1, BlockFields DEF Ack, TCB
    <3>2. /\ t.sendUnack \in Nat /\ t.sendNext \in Nat
          /\ t.sendUnack <= t.sendNext
      BY <1>1, BlockFields DEF Told, Near
    <3> HIDE DEF a
    <3> QED
      BY <2>1, <3>1, <3>2
  <2> HIDE DEF a
  <2>3. /\ u.state = "ESTABLISHED" /\ u.sendNext = a.sendNext
        /\ u.sendUnack = a.sendUnack /\ u.sendBuf = a.sendBuf
        /\ u.recvBuf = a.recvBuf
    BY <1>2 DEF TCB
  <2> HIDE DEF u
  <2>4. WaitingForAck(u) = FALSE
    <3>1. t.sendNext \in Nat
      BY <1>1, BlockFields
    <3> QED
      BY <2>2, <2>3, <3>1 DEF WaitingForAck
  <2>5. View(u) = Seen("ESTABLISHED", FALSE, Len(t.sendBuf), Len(t.recvBuf))
    <3>1. View(u) = Seen(u.state, WaitingForAck(u), Len(u.sendBuf), Len(u.recvBuf))
      BY ViewIsSeen
    <3> QED
      BY <1>2, <2>3, <2>4, <3>1, Zenon
  <2>6. /\ View(t) = Seen("SYN_RECV", WaitingForAck(t), Len(t.sendBuf),
                          Len(t.recvBuf))
        /\ WaitingForAck(t) \in BOOLEAN /\ Len(t.sendBuf) \in Nat
    BY <1>1, SeenNow
  <2>7. View(u) \in Host!OnSegment(View(t))
    BY <2>5, <2>6, SynSegmentSeen
  <2> QED
    BY <2>1, <2>7 DEF Follows
<1> QED
  BY <1>3, <1>4

\* Nothing can have been written before the handshake, so our SYN is all that
\* can have been sent.
LEMMA OnSynSentFollows ==
    ASSUME NoWrap, NEW e \in Endpoints, NEW t, NEW w, NEW q, NEW wq, NEW d,
           NEW m, Told(e, t, w, q, wq, d, m), t.state = "SYN_SENT", w = 0
    PROVE  Follows(t, OnSynSent(t, m).tcb)
<1> DEFINE a == Ack(t, m)
           next == Plus(m.seq, 1)
           v == [a EXCEPT !.recvInit = m.seq, !.recvNext = next,
                          !.state = "ESTABLISHED"]
           u == MakeSureSendback(v).tcb
           n == Len(t.sendBuf)
           k == Len(t.recvBuf)
<1>1. /\ t \in Block(Endpoints, e) /\ t.state # "CLOSE"
      /\ m \in Segment(Endpoints) /\ m.seq \in Nat /\ next \in Nat
  BY SegmentFields, PlusType DEF Told, Near, Heard
<1>2. /\ a \in TCB(Endpoints) /\ Level(e, a, q)
      /\ a.sendBuf = t.sendBuf /\ a.recvBuf = t.recvBuf
  BY AckView
<1>3. CASE OnSynSent(t, m).tcb = t
  BY <1>1, <1>3, StayFollows
<1>4. CASE OnSynSent(t, m).tcb # t
  <2>1. OnSynSent(t, m).tcb = u /\ m.ackSeq = Plus(t.sendInit, 1)
    BY <1>4 DEF OnSynSent, Silent, Result
  <2>2. t.sendNext = t.sendInit + 1 /\ Plus(t.sendInit, 1) = t.sendNext
    <3>1. /\ t.sendInit \in Nat /\ t.sendNext \in Nat /\ n \in Nat
          /\ t.sendInit < t.sendNext /\ SenderSide(e, t, w)
      BY <1>1, BlockFields DEF Told, Near, Sound
    <3>2. t.sendNext + n = t.sendInit + 0 + 1
      BY <3>1 DEF SenderSide, SenderOK, NotOpened, Queue, WriteStates
    <3>3. t.sendInit + w + 3 < SeqSpace
      BY <1>1, <3>1, SenderFits
    <3> HIDE DEF n
    <3>4. t.sendNext = t.sendInit + 1
      BY <3>1, <3>2
    <3>5. t.sendInit + 1 < SeqSpace
      BY <3>1, <3>3, TcbAssumption
    <3> QED
      BY <3>4, <3>5 DEF Plus
  <2>3. a.sendNext = t.sendNext /\ a.sendUnack = t.sendNext
    <3>1. /\ a.sendNext = t.sendNext
          /\ a.sendUnack = IF m.ackSeq > t.sendUnack THEN m.ackSeq ELSE t.sendUnack
      BY <1>1, BlockFields DEF Ack, TCB
    <3>2. /\ t.sendUnack \in Nat /\ t.sendNext \in Nat
          /\ t.sendUnack <= t.sendNext
      BY <1>1, BlockFields DEF Told, Near
    <3> HIDE DEF a
    <3> QED
      BY <2>1, <2>2, <3>1, <3>2
  <2> HIDE DEF a, next
  <2>4. /\ v.state = "ESTABLISHED" /\ v.sendNext = a.sendNext
        /\ v.sendUnack = a.sendUnack /\ v.sendBuf = a.sendBuf
        /\ v.recvBuf = a.recvBuf /\ v \in Block(Endpoints, e)
    <3>1. /\ v.state = "ESTABLISHED" /\ v.sendNext = a.sendNext
          /\ v.sendUnack = a.sendUnack /\ v.sendBuf = a.sendBuf
          /\ v.recvBuf = a.recvBuf
      BY <1>2 DEF TCB
    <3>2. v \in Block(Endpoints, e)
      BY <1>1, <1>2 DEF Level, TCB, Block, Fits, States
    <3> QED
      BY <3>1, <3>2
  <2> HIDE DEF v
  <2>5. WaitingForAck(v) = FALSE /\ Level(e, v, q)
    <3>1. a.sendNext \in Nat
      BY <1>2 DEF TCB
    <3> QED
      BY <1>2, <2>3, <2>4, <3>1 DEF WaitingForAck, Level, Total
  <2>6. \E x \in BOOLEAN, y \in Nat :
           SendsOn(FALSE, n, x, y) /\ View(u) = Seen("ESTABLISHED", x, y, k)
    <3>1. \E x \in BOOLEAN, y \in Nat :
             /\ SendsOn(WaitingForAck(v), Len(v.sendBuf), x, y)
             /\ View(u) = Seen(v.state, x, y, Len(v.recvBuf))
      BY <2>5, SendbackView
    <3> HIDE DEF u
    <3> QED
      BY <1>2, <2>4, <2>5, <3>1, Zenon
  <2>7. /\ View(t) = Seen("SYN_SENT", WaitingForAck(t), n, k)
        /\ WaitingForAck(t) \in BOOLEAN /\ n \in Nat
    BY <1>1, SeenNow
  <2> HIDE DEF u, n, k
  <2>8. View(u) \in Host!OnSegment(View(t))
    BY <2>6, <2>7, SynSegmentSeen
  <2> QED
    BY <2>1, <2>8 DEF Follows
<1> QED
  BY <1>3, <1>4

\* What AckFollows takes from the acknowledgement, for the handlers that do more.
LEMMA AckedNow ==
    ASSUME NoWrap, NEW e \in Endpoints, NEW t, NEW w, NEW q, NEW wq, NEW d,
           NEW m, Told(e, t, w, q, wq, d, m)
    PROVE  LET a == Ack(t, m)
           IN  /\ t \in Block(Endpoints, e) /\ t.state # "CLOSE"
               /\ m \in Segment(Endpoints)
               /\ a \in TCB(Endpoints) /\ Level(e, a, q) /\ a.state = t.state
               /\ a.sendBuf = t.sendBuf /\ a.recvBuf = t.recvBuf
               /\ View(t) = Seen(t.state, WaitingForAck(t), Len(t.sendBuf),
                                 Len(t.recvBuf))
               /\ WaitingForAck(t) \in BOOLEAN
               /\ Len(t.sendBuf) \in Nat /\ Len(t.recvBuf) \in 0 .. RecvCapacity
               /\ WaitingForAck(a) \in BOOLEAN
               /\ WaitingForAck(a) => WaitingForAck(t)
<1> DEFINE a == Ack(t, m)
<1>1. /\ t \in Block(Endpoints, e) /\ t.state # "CLOSE"
      /\ m \in Segment(Endpoints)
  BY DEF Told, Near, Heard
<1>2. /\ a \in TCB(Endpoints) /\ Level(e, a, q) /\ a.state = t.state
      /\ a.sendBuf = t.sendBuf /\ a.recvBuf = t.recvBuf
      /\ WaitingForAck(a) => WaitingForAck(t)
  BY AckView
<1> HIDE DEF a
<1>3. /\ View(t) = Seen(t.state, WaitingForAck(t), Len(t.sendBuf),
                        Len(t.recvBuf))
      /\ WaitingForAck(t) \in BOOLEAN
      /\ Len(t.sendBuf) \in Nat /\ Len(t.recvBuf) \in 0 .. RecvCapacity
  BY <1>1, SeenNow
<1>4. WaitingForAck(a) \in BOOLEAN
  BY <1>2, SeenNow DEF Level
<1> QED
  BY <1>1, <1>2, <1>3, <1>4 DEF a

LEMMA OnEstablishedFollows ==
    ASSUME NoWrap, NEW e \in Endpoints, NEW t, NEW w, NEW q, NEW wq, NEW d,
           NEW m, Told(e, t, w, q, wq, d, m), t.state = "ESTABLISHED"
    PROVE  Follows(t, OnEstablished(t, m).tcb)
<1> DEFINE a == Ack(t, m)
           u == Take(a, m)
           x == MakeSureSendback(u).tcb
           n == Len(t.sendBuf)
           k == Len(t.recvBuf)
           v == WaitingForAck(t)
           z == WaitingForAck(a)
           i == Len(u.recvBuf)
           next == Plus(a.recvNext, Len(m.data) + Flag(m.fin))
           buf == a.recvBuf \o m.data
           s == IF m.fin THEN "CLOSE_WAIT" ELSE a.state
<1>1. /\ t \in Block(Endpoints, e) /\ m \in Segment(Endpoints)
      /\ a \in TCB(Endpoints) /\ Level(e, a, q) /\ a.state = "ESTABLISHED"
      /\ a.sendBuf = t.sendBuf /\ a.recvBuf = t.recvBuf
      /\ View(t) = Seen("ESTABLISHED", v, n, k)
      /\ v \in BOOLEAN /\ n \in Nat /\ k \in 0 .. RecvCapacity
      /\ z \in {v, FALSE}
  <2>1. /\ t \in Block(Endpoints, e) /\ m \in Segment(Endpoints)
        /\ a \in TCB(Endpoints) /\ Level(e, a, q) /\ a.state = t.state
        /\ a.sendBuf = t.sendBuf /\ a.recvBuf = t.recvBuf
        /\ View(t) = Seen(t.state, v, n, k)
        /\ v \in BOOLEAN /\ n \in Nat /\ k \in 0 .. RecvCapacity
        /\ z \in BOOLEAN /\ (z => v)
    BY AckedNow
  <2> HIDE DEF a, n, k, v, z
  <2> QED
    BY <2>1
<1>2. /\ m.data \in Seq(Nat) /\ Len(m.data) \in Nat /\ Flag(m.fin) \in Nat
      /\ t.recvBuf \in Seq(Nat) /\ a.recvNext \in Nat
      /\ m.fin => m.data = <<>>
  <2>1. m.data \in Seq(Nat) /\ m.fin \in BOOLEAN /\ t.recvBuf \in Seq(Nat)
    BY <1>1, SegmentFields, BlockFields
  <2>2. m.fin => m.data = <<>>
    BY DEF Told, Heard, SegmentOK
  <2> HIDE DEF a
  <2>3. a.recvNext \in Nat
    BY <1>1 DEF TCB
  <2> QED
    BY <2>1, <2>2, <2>3 DEF Flag
<1>3. \/ OnEstablished(t, m).tcb = a
      \/ /\ OnEstablished(t, m).tcb \in {u, x}
         /\ Len(m.data) <= RecvCapacity - k
         /\ OnEstablished(t, m).tcb = u => ~m.fin \/ u = x
  <2>1. CASE Len(m.data) > RecvRoom(t)
    <3>1. RecvRoom(t) \in Int
      BY <1>1, TcbAssumption DEF RecvRoom
    <3>2. ~(Len(m.data) <= RecvRoom(t))
      BY ONLY <1>2, <2>1, <3>1
    <3> QED
      BY <2>1, <3>2 DEF OnEstablished, Silent, Result
  <2>2. CASE ~(Len(m.data) > RecvRoom(t))
    <3>1. Len(m.data) <= RecvRoom(t) /\ Len(m.data) <= RecvCapacity - k
      BY <1>1, <1>2, <2>2, TcbAssumption DEF RecvRoom
    <3>2. OnEstablished(t, m).tcb = IF NeedToAck(m) THEN x ELSE u
      BY <2>2, <3>1 DEF OnEstablished, Silent, Result
    <3> QED
      BY <3>1, <3>2 DEF NeedToAck
  <2> QED
    BY <2>1, <2>2
<1> HIDE DEF a, v, z
<1>4. /\ next \in Nat /\ buf \in Seq(Nat) /\ Len(buf) = k + Len(m.data)
      /\ s \in {"CLOSE_WAIT", "ESTABLISHED"}
  <2>1. Len(m.data) + Flag(m.fin) \in Nat
    BY <1>2
  <2>2. next \in Nat
    BY <1>2, <2>1, PlusType
  <2>3. buf \in Seq(Nat) /\ Len(buf) = Len(a.recvBuf) + Len(m.data)
    BY <1>1, <1>2
  <2> QED
    BY <1>1, <2>2, <2>3
<1>5. u = [a EXCEPT !.recvBuf = buf, !.recvNext = next, !.state = s]
  BY <1>1 DEF Take, TCB
<1> HIDE DEF u, next, buf, s, n, k
<1>6. /\ u.state = s /\ u.sendNext = a.sendNext /\ u.sendUnack = a.sendUnack
      /\ u.sendBuf = a.sendBuf /\ u.recvBuf = buf /\ u.local = a.local
      /\ u.retransCount = a.retransCount /\ u \in TCB(Endpoints)
  BY <1>1, <1>4, <1>5 DEF TCB, States
<1>7. /\ i = k + Len(m.data) /\ WaitingForAck(u) = z /\ Len(u.sendBuf) = n
      /\ Total(u) = Total(a)
      /\ m.fin => i = k
  BY <1>1, <1>2, <1>4, <1>6 DEF WaitingForAck, z, n, Total
<1>8. CASE OnEstablished(t, m).tcb = a
  BY <1>1, <1>8, AckFollows DEF a
<1>9. CASE /\ OnEstablished(t, m).tcb \in {u, x}
           /\ Len(m.data) <= RecvCapacity - k
           /\ OnEstablished(t, m).tcb = u => ~m.fin \/ u = x
  <2> HIDE DEF i, x
  <2>1. i \in k .. RecvCapacity /\ k \in Nat
    BY <1>1, <1>2, <1>7, <1>9, TcbAssumption
  <2>2. Level(e, u, q)
    <3>1. WaitingForAck(u) <=> WaitingForAck(a)
      BY <1>6 DEF WaitingForAck
    <3>2. u \in Block(Endpoints, e)
      <4>1. a \in Block(Endpoints, e)
        BY <1>1 DEF Level
      <4>2. Len(u.recvBuf) <= RecvCapacity
        BY <2>1, TcbAssumption DEF i
      <4> QED
        BY <1>6, <4>1, <4>2 DEF Block, Fits
    <3> QED
      <4>1. Level(e, a, q) /\ Total(u) = Total(a)
        BY <1>1, <1>7
      <4> QED
        BY <1>6, <3>1, <3>2, <4>1 DEF Level
  <2>3. \E y \in BOOLEAN, j \in Nat :
           SendsOn(z, n, y, j) /\ View(x) = Seen(s, y, j, i)
    <3>1. \E y \in BOOLEAN, j \in Nat :
             /\ SendsOn(WaitingForAck(u), Len(u.sendBuf), y, j)
             /\ View(x) = Seen(u.state, y, j, Len(u.recvBuf))
      BY <2>2, SendbackView DEF x
    <3> QED
      BY <1>6, <1>7, <3>1, Zenon DEF i
  <2>4. View(u) = Seen(s, z, n, i)
    <3>1. View(u) = Seen(u.state, WaitingForAck(u), Len(u.sendBuf), Len(u.recvBuf))
      BY ViewIsSeen
    <3> QED
      BY <1>6, <1>7, <3>1, Zenon DEF i
  <2>5. /\ Seen("ESTABLISHED", z, n, i) \in Host!OnSegment(View(t))
        /\ \A y \in BOOLEAN, j \in Nat :
              SendsOn(z, n, y, j) =>
                 /\ Seen("CLOSE_WAIT", y, j, k) \in Host!OnSegment(View(t))
                 /\ Seen("ESTABLISHED", y, j, i) \in Host!OnSegment(View(t))
    BY <1>1, <2>1, EstablishedSegmentSeen
  <2>6. s = IF m.fin THEN "CLOSE_WAIT" ELSE "ESTABLISHED"
    BY <1>1 DEF s
  <2>7. View(x) \in Host!OnSegment(View(t))
    <3>1. CASE m.fin
      <4>1. s = "CLOSE_WAIT" /\ i = k
        BY <1>7, <2>6, <3>1
      <4> QED
        BY <2>3, <2>5, <4>1
    <3>2. CASE ~m.fin
      <4>1. s = "ESTABLISHED"
        BY <2>6, <3>2
      <4> QED
        BY <2>3, <2>5, <4>1, Zenon
    <3> QED
      BY <3>1, <3>2
  <2>8. ~m.fin => View(u) \in Host!OnSegment(View(t))
    BY <2>4, <2>5, <2>6
  <2> QED
    BY <1>9, <2>7, <2>8 DEF Follows
<1> QED
  BY <1>3, <1>8, <1>9

LEMMA OnFinWait1Follows ==
    ASSUME NoWrap, NEW e \in Endpoints, NEW t, NEW w, NEW q, NEW wq, NEW d,
           NEW m, Told(e, t, w, q, wq, d, m), t.state = "FIN_WAIT1"
    PROVE  Follows(t, OnFinWait1(t, m).tcb)
<1> DEFINE a == Ack(t, m)
           next == Plus(a.recvNext, 1)
           r == [a EXCEPT !.recvNext = next]
           x == MakeSureSendback(r).tcb
           s == IF WaitingForAck(x) THEN "CLOSING" ELSE "TIME_WAIT"
           u == [x EXCEPT !.state = s]
           f == [a EXCEPT !.state = "FIN_WAIT2"]
           n == Len(t.sendBuf)
           k == Len(t.recvBuf)
           v == WaitingForAck(t)
           z == WaitingForAck(a)
<1>1. /\ t \in Block(Endpoints, e)
      /\ a \in TCB(Endpoints) /\ Level(e, a, q) /\ a.state = "FIN_WAIT1"
      /\ a.sendBuf = t.sendBuf /\ a.recvBuf = t.recvBuf
      /\ View(t) = Seen("FIN_WAIT1", v, n, k)
      /\ v \in BOOLEAN /\ n \in Nat
      /\ z \in {v, FALSE}
  <2>1. /\ t \in Block(Endpoints, e)
        /\ a \in TCB(Endpoints) /\ Level(e, a, q) /\ a.state = t.state
        /\ a.sendBuf = t.sendBuf /\ a.recvBuf = t.recvBuf
        /\ View(t) = Seen(t.state, v, n, k)
        /\ v \in BOOLEAN /\ n \in Nat
        /\ z \in BOOLEAN /\ (z => v)
    BY AckedNow
  <2> HIDE DEF a, n, k, v, z
  <2> QED
    BY <2>1
<1>2. /\ OnFinWait1(t, m).tcb \in {a, u, f}
      /\ OnFinWait1(t, m).tcb = f => FinAcked(a) \/ f = u \/ f = a
  <2>1. r = [a EXCEPT !.recvNext = Plus(@, 1)]
    BY <1>1 DEF TCB
  <2> QED
    BY <2>1 DEF OnFinWait1, Silent, Result, IsPureAck, NeedToAck
<1>3. Follows(t, a)
  BY <1>1, AckFollows
<1>4. Follows(t, u)
  <2>1. next \in Nat /\ a \in Block(Endpoints, e)
    BY <1>1, PlusType DEF TCB, Level
  <2> HIDE DEF a, next, v, z
  <2>2. r \in Block(Endpoints, e)
    BY <2>1, SettingType
  <2>3. /\ r.sendUnack = a.sendUnack /\ r.sendNext = a.sendNext
        /\ r.sendBuf = a.sendBuf /\ r.recvBuf = a.recvBuf /\ r.state = a.state
    BY <1>1 DEF TCB
  <2> HIDE DEF r
  <2>4. Level(e, r, q) /\ WaitingForAck(r) = z
    BY <1>1, <2>2, <2>3 DEF Level, Total, WaitingForAck, z
  <2>5. PICK y \in BOOLEAN, j \in Nat :
           SendsOn(z, n, y, j) /\ View(x) = Seen("FIN_WAIT1", y, j, k)
    <3>1. \E y \in BOOLEAN, j \in Nat :
             /\ SendsOn(WaitingForAck(r), Len(r.sendBuf), y, j)
             /\ View(x) = Seen(r.state, y, j, Len(r.recvBuf))
      BY <2>4, SendbackView
    <3> HIDE DEF x
    <3> QED
      BY <1>1, <2>3, <2>4, <3>1, Zenon
  <2>6. x \in TCB(Endpoints)
    BY <2>4, SendbackEnds DEF Block
  <2> HIDE DEF x
  <2>7. /\ WaitingForAck(x) = y /\ Len(x.sendBuf) = j /\ Len(x.recvBuf) = k
    BY <2>5 DEF View, Seen
  <2> HIDE DEF n, k
  <2>8. /\ u.state = s /\ u.sendUnack = x.sendUnack /\ u.sendNext = x.sendNext
        /\ u.sendBuf = x.sendBuf /\ u.recvBuf = x.recvBuf
    BY <2>6 DEF TCB
  <2> HIDE DEF u
  <2>9. View(u) = Seen(IF y THEN "CLOSING" ELSE "TIME_WAIT", y, j, k)
    <3>1. View(u) = Seen(u.state, WaitingForAck(u), Len(u.sendBuf), Len(u.recvBuf))
      BY ViewIsSeen
    <3>2. WaitingForAck(u) = WaitingForAck(x)
      BY <2>8 DEF WaitingForAck
    <3> QED
      BY <2>7, <2>8, <3>1, <3>2, Zenon
  <2>10. Seen(IF y THEN "CLOSING" ELSE "TIME_WAIT", y, j, k)
            \in Host!OnSegment(Seen("FIN_WAIT1", v, n, k))
    BY <1>1, <2>5, ClosingSegmentSeen
  <2> QED
    BY <1>1, <2>9, <2>10, Zenon DEF Follows
<1>5. FinAcked(a) => Follows(t, f)
  <2> SUFFICES ASSUME FinAcked(a) PROVE Follows(t, f)
    OBVIOUS
  <2> HIDE DEF a
  <2>1. /\ f.state = "FIN_WAIT2" /\ f.sendNext = a.sendNext
        /\ f.sendUnack = a.sendUnack
        /\ f.sendBuf = a.sendBuf /\ f.recvBuf = a.recvBuf
    BY <1>1 DEF TCB
  <2> HIDE DEF f
  <2>2. n = 0 /\ WaitingForAck(f) = FALSE
    BY <1>1, <2>1 DEF FinAcked, WaitingForAck
  <2>3. View(f) = Seen("FIN_WAIT2", FALSE, n, k)
    <3>1. View(f) = Seen(f.state, WaitingForAck(f), Len(f.sendBuf), Len(f.recvBuf))
      BY ViewIsSeen
    <3> QED
      BY <1>1, <2>1, <2>2, <3>1, Zenon
  <2> HIDE DEF v, z, n, k
  <2>4. Seen("FIN_WAIT2", FALSE, n, k) \in Host!OnSegment(Seen("FIN_WAIT1", v, n, k))
    BY <1>1, <2>2, ClosingSegmentSeen
  <2> QED
    BY <1>1, <2>3, <2>4, Zenon DEF Follows
<1> QED
  BY <1>2, <1>3, <1>4, <1>5

LEMMA OnFinWait2Follows ==
    ASSUME NoWrap, NEW e \in Endpoints, NEW t, NEW w, NEW q, NEW wq, NEW d,
           NEW m, Told(e, t, w, q, wq, d, m), t.state = "FIN_WAIT2"
    PROVE  Follows(t, OnFinWait2(t, m).tcb)
<1> DEFINE a == Ack(t, m)
           next == Plus(a.recvNext, 1)
           r == [a EXCEPT !.recvNext = next, !.state = "TIME_WAIT"]
           x == MakeSureSendback(r).tcb
           n == Len(t.sendBuf)
           k == Len(t.recvBuf)
           v == WaitingForAck(t)
           z == WaitingForAck(a)
<1>1. /\ t \in Block(Endpoints, e)
      /\ a \in TCB(Endpoints) /\ Level(e, a, q) /\ a.state = "FIN_WAIT2"
      /\ a.sendBuf = t.sendBuf /\ a.recvBuf = t.recvBuf
      /\ View(t) = Seen("FIN_WAIT2", v, n, k)
      /\ v \in BOOLEAN /\ n \in Nat
      /\ z \in {v, FALSE}
  <2>1. /\ t \in Block(Endpoints, e)
        /\ a \in TCB(Endpoints) /\ Level(e, a, q) /\ a.state = t.state
        /\ a.sendBuf = t.sendBuf /\ a.recvBuf = t.recvBuf
        /\ View(t) = Seen(t.state, v, n, k)
        /\ v \in BOOLEAN /\ n \in Nat
        /\ z \in BOOLEAN /\ (z => v)
    BY AckedNow
  <2> HIDE DEF a, n, k, v, z
  <2> QED
    BY <2>1
<1>2. OnFinWait2(t, m).tcb \in {a, x}
  <2>1. r = [a EXCEPT !.recvNext = Plus(@, 1), !.state = "TIME_WAIT"]
    BY <1>1 DEF TCB
  <2> QED
    BY <2>1 DEF OnFinWait2, Silent, Result
<1>3. Follows(t, a)
  BY <1>1, AckFollows
<1>4. Follows(t, x)
  <2>1. next \in Nat /\ a \in Block(Endpoints, e)
    BY <1>1, PlusType DEF TCB, Level
  <2> HIDE DEF a, next, v, z
  <2>2. r \in Block(Endpoints, e)
    BY <2>1 DEF TCB, Block, Fits, States
  <2>3. /\ r.sendUnack = a.sendUnack /\ r.sendNext = a.sendNext
        /\ r.sendBuf = a.sendBuf /\ r.recvBuf = a.recvBuf
        /\ r.state = "TIME_WAIT"
    BY <1>1 DEF TCB
  <2> HIDE DEF r
  <2>4. Level(e, r, q) /\ WaitingForAck(r) = z
    BY <1>1, <2>2, <2>3 DEF Level, Total, WaitingForAck, z
  <2>5. PICK y \in BOOLEAN, j \in Nat :
           SendsOn(z, n, y, j) /\ View(x) = Seen("TIME_WAIT", y, j, k)
    <3>1. \E y \in BOOLEAN, j \in Nat :
             /\ SendsOn(WaitingForAck(r), Len(r.sendBuf), y, j)
             /\ View(x) = Seen(r.state, y, j, Len(r.recvBuf))
      BY <2>4, SendbackView
    <3> HIDE DEF x
    <3> QED
      BY <1>1, <2>3, <2>4, <3>1, Zenon
  <2> HIDE DEF n, k, x
  <2>6. Seen("TIME_WAIT", y, j, k) \in Host!OnSegment(Seen("FIN_WAIT2", v, n, k))
    BY <1>1, <2>5, ClosingSegmentSeen
  <2> QED
    BY <1>1, <2>5, <2>6, Zenon DEF Follows
<1> QED
  BY <1>2, <1>3, <1>4

\* The last segment of an end whose FIN has been taken is the FIN, alone, so the
\* acknowledgement that ends the connection leaves nothing unacknowledged.
LEMMA LastIsOne ==
    ASSUME NoWrap, NEW e \in Endpoints, NEW t, NEW w, NEW q, NEW wq, NEW d,
           NEW m, Told(e, t, w, q, wq, d, m), t.state = "LAST_ACK",
           m.ackSeq = t.sendNext
    PROVE  Plus(t.sendUnack, 1) >= t.sendNext
<1> DEFINE l == t.lastSeg
<1>1. /\ t \in Block(Endpoints, e) /\ q \in Block(Endpoints, Peer(e))
      /\ Peer(e) \in Endpoints /\ w \in Nat
      /\ SenderSide(e, t, w) /\ Near(e, t, w, q, wq) /\ ClosedOK(t, w, q)
  BY EndpointsDef DEF Told, Near, Sound
<1>2. /\ t.sendUnack \in Nat /\ t.sendNext \in Nat /\ t.sendInit \in Nat
      /\ q.recvNext \in Nat
      /\ l.seq \in Nat /\ SegLen(l) \in Nat
      /\ l.data \in Seq(Nat) /\ l.syn \in BOOLEAN /\ l.fin \in BOOLEAN
  BY <1>1, BlockFields, SegmentFields
<1>3. t.sendUnack <= t.sendNext /\ t.sendNext <= q.recvNext
  <2>1. t.sendUnack <= t.sendNext
    BY <1>1 DEF Near
  <2>2. m.ackSeq <= q.recvNext
    BY DEF Told, Heard, SegmentOK
  <2> QED
    BY <2>1, <2>2
<1>4. t.sendInit + w + 3 < SeqSpace /\ t.sendNext <= t.sendInit + w + 2
  <2> DEFINE n == Len(t.sendBuf)
  <2>1. /\ t.sendInit + w + 3 < SeqSpace
        /\ t.sendNext + n <= t.sendInit + w + 2
    BY <1>1, SenderFits
  <2>2. n \in Nat
    BY <1>1, BlockFields
  <2> HIDE DEF n
  <2> QED
    BY <1>1, <1>2, <2>1, <2>2
<1>5. Plus(t.sendUnack, 1) = t.sendUnack + 1
  <2>1. t.sendUnack + 1 < SeqSpace
    BY <1>1, <1>2, <1>3, <1>4, TcbAssumption
  <2> QED
    BY <2>1 DEF Plus
<1>6. CASE t.sendUnack = t.sendNext
  BY <1>2, <1>5, <1>6
<1>7. CASE t.sendUnack # t.sendNext
  <2>1. q.recvNext = t.sendNext
    BY <1>1, <1>2, <1>3, TakenMeansAll
  <2>2. t.sendNext = t.sendInit + 2 + w
    BY <1>1, <1>7, <2>1 DEF ClosedOK, FinStates, HasFin
  <2>3. t.sendUnack = l.seq /\ l.seq + SegLen(l) = t.sendNext
    BY <1>7 DEF Told, LastOK
  <2>4. SegmentOK(t, w, l)
    BY <1>1 DEF SenderSide
  <2> HIDE DEF l
  <2>5. l.data = <<>>
    <3> SUFFICES ASSUME HavePayload(l) PROVE FALSE
      BY DEF HavePayload
    <3>1. /\ l.seq + Len(l.data) <= t.sendInit + w + 1
          /\ ~l.syn /\ ~l.fin
      BY <2>4 DEF SegmentOK, HavePayload
    <3>2. SegLen(l) = Len(l.data)
      BY <1>2, <3>1 DEF SegLen, Flag
    <3> QED
      BY <1>1, <1>2, <2>2, <2>3, <3>1, <3>2
  <2>6. ~(l.syn /\ l.fin)
    BY <2>4 DEF SegmentOK
  <2>7. SegLen(l) <= 1
    BY <1>2, <2>5, <2>6 DEF SegLen, Flag
  <2> QED
    BY <1>2, <1>5, <2>3, <2>7
<1> QED
  BY <1>6, <1>7

LEMMA LastHandlersFollow ==
    ASSUME NoWrap, NEW e \in Endpoints, NEW t, NEW w, NEW q, NEW wq, NEW d,
           NEW m, Told(e, t, w, q, wq, d, m)
    PROVE  /\ Follows(t, OnCloseWait(t, m).tcb)
           /\ Follows(t, OnTimeWait(t, m).tcb)
           /\ t.state = "CLOSING" => Follows(t, OnClosing(t, m).tcb)
           /\ t.state = "LAST_ACK" => Follows(t, OnLastAck(t, m).tcb)
<1> DEFINE n == Len(t.sendBuf)
           k == Len(t.recvBuf)
           v == WaitingForAck(t)
<1>1. /\ t \in Block(Endpoints, e) /\ t \in TCB(Endpoints)
      /\ t.sendUnack \in Nat /\ t.sendNext \in Nat
      /\ Follows(t, t)
  BY StayFollows, BlockFields DEF Told, Near
<1>2. /\ View(t) = Seen(t.state, v, n, k) /\ v \in BOOLEAN /\ n \in Nat
  BY <1>1, SeenNow
<1>3. Follows(t, OnCloseWait(t, m).tcb) /\ Follows(t, OnTimeWait(t, m).tcb)
  BY <1>1 DEF OnCloseWait, OnTimeWait, Silent, Result
<1>4. ASSUME t.state = "CLOSING"
      PROVE  Follows(t, OnClosing(t, m).tcb)
  <2> DEFINE u == [t EXCEPT !.state = "TIME_WAIT"]
  <2>1. OnClosing(t, m).tcb \in {u, t}
    BY DEF OnClosing, Silent, Result
  <2>2. /\ u.state = "TIME_WAIT"
        /\ u.sendUnack = t.sendUnack /\ u.sendNext = t.sendNext
        /\ u.sendBuf = t.sendBuf /\ u.recvBuf = t.recvBuf
    BY <1>1 DEF TCB
  <2> HIDE DEF u
  <2>3. View(u) = Seen("TIME_WAIT", v, n, k)
    <3>1. View(u) = Seen(u.state, WaitingForAck(u), Len(u.sendBuf), Len(u.recvBuf))
      BY ViewIsSeen
    <3>2. WaitingForAck(u) = v
      BY <2>2 DEF WaitingForAck
    <3> QED
      BY <2>2, <3>1, <3>2, Zenon
  <2> HIDE DEF v, n, k
  <2>4. Seen("TIME_WAIT", v, n, k) \in Host!OnSegment(Seen("CLOSING", v, n, k))
    BY <1>2, ClosingSegmentSeen
  <2>5. Follows(t, u)
    BY <1>2, <1>4, <2>3, <2>4, Zenon DEF Follows
  <2> QED
    BY <1>1, <2>1, <2>5
<1>5. ASSUME t.state = "LAST_ACK"
      PROVE  Follows(t, OnLastAck(t, m).tcb)
  <2> DEFINE next == Plus(t.sendUnack, 1)
             u == [t EXCEPT !.state = "CLOSE", !.sendUnack = next]
  <2>1. \/ OnLastAck(t, m).tcb = t
        \/ OnLastAck(t, m).tcb = u /\ m.ackSeq = t.sendNext
    BY <1>1 DEF OnLastAck, TCB, Silent, Result
  <2>2. next \in Nat
    BY <1>1, PlusType
  <2>3. m.ackSeq = t.sendNext => next >= t.sendNext
    BY <1>5, LastIsOne
  <2> HIDE DEF next
  <2>4. /\ u.state = "CLOSE" /\ u.sendUnack = next /\ u.sendNext = t.sendNext
        /\ u.sendBuf = t.sendBuf /\ u.recvBuf = t.recvBuf
    BY <1>1 DEF TCB
  <2> HIDE DEF u
  <2>5. ASSUME m.ackSeq = t.sendNext
        PROVE  Follows(t, u)
    <3>1. WaitingForAck(u) = FALSE
      BY <1>1, <2>2, <2>3, <2>4, <2>5 DEF WaitingForAck
    <3>2. View(u) = Seen("CLOSE", FALSE, n, k)
      <4>1. View(u) = Seen(u.state, WaitingForAck(u), Len(u.sendBuf), Len(u.recvBuf))
        BY ViewIsSeen
      <4> QED
        BY <2>4, <3>1, <4>1, Zenon
    <3> HIDE DEF v, n, k
    <3>3. Seen("CLOSE", FALSE, n, k) \in Host!OnSegment(Seen("LAST_ACK", v, n, k))
      BY <1>2, ClosingSegmentSeen
    <3> QED
      BY <1>2, <1>5, <3>2, <3>3, Zenon DEF Follows
  <2> QED
    BY <1>1, <2>1, <2>5
<1> QED
  BY <1>3, <1>4, <1>5

-----------------------------------------------------------------------------
(* The timers and the calls.                                               *)

LEMMA OpenedSeen ==
    ASSUME NEW passive
    PROVE  Host!Opened(passive) =
              Seen(IF passive THEN "SYN_RECV" ELSE "SYN_SENT", TRUE, 0, 0)
<1> DEFINE s == IF passive THEN "SYN_RECV" ELSE "SYN_SENT"
<1>1. PICK true, false : true = TRUE /\ false = FALSE
  <2>1. \E true : true = TRUE
    OBVIOUS
  <2>2. \E false : false = FALSE
    OBVIOUS
  <2> QED
    BY <2>1, <2>2
<1>2. Host!NoBlock = Seen("NONE", false, 0, 0)
  BY <1>1 DEF Host!NoBlock, Seen
<1> HIDE DEF s
<1>3. [Seen("NONE", false, 0, 0) EXCEPT !.state = s] = Seen(s, false, 0, 0)
  BY DEF Seen
<1>4. [Seen(s, false, 0, 0) EXCEPT !.waiting = true] = Seen(s, true, 0, 0)
  BY WaitingSeen
<1> QED
  BY ONLY <1>1, <1>2, <1>3, <1>4, Zenon DEF Host!Opened, s

LEMMA TimerSeen ==
    ASSUME NEW w, NEW n, NEW k
    PROVE  /\ Seen("CLOSE", w, n, k) \in Host!OnTimer(Seen("TIME_WAIT", w, n, k))
           /\ \A s : s \notin {"TIME_WAIT", "CLOSE"} /\ w =>
                 Seen("CLOSE", w, n, k) \in Host!OnTimer(Seen(s, w, n, k))
<1>1. ASSUME NEW s, s # "CLOSE", s = "TIME_WAIT" \/ w
      PROVE  Seen("CLOSE", w, n, k) \in Host!OnTimer(Seen(s, w, n, k))
  <2> DEFINE b == Seen(s, w, n, k)
  <2>1. [b EXCEPT !.state = "CLOSE"] = Seen("CLOSE", w, n, k)
    BY DEF Seen
  <2>2. b.state = s /\ b.waiting = w
    BY DEF Seen
  <2> HIDE DEF b
  <2>3. [b EXCEPT !.state = "CLOSE"] \in Host!OnTimer(b)
    BY <1>1, <2>2 DEF Host!OnTimer
  <2> QED
    BY <2>1, <2>3 DEF b
<1> QED
  BY <1>1

LEMMA SentSeen ==
    ASSUME NEW s, NEW w \in BOOLEAN, NEW n \in 0 .. SendCapacity, NEW k,
           NEW i \in 1 .. SendCapacity, NEW j \in Nat,
           j = IF i <= SendCapacity - n THEN i ELSE SendCapacity - n,
           NEW x \in BOOLEAN, NEW y \in Nat, SendsOn(w, n + j, x, y)
    PROVE  Seen(s, x, y, k) \in Host!Sent(Seen(s, w, n, k), i)
<1> DEFINE b == Seen(s, w, n, k)
           c == [b EXCEPT !.unsent = b.unsent + Host!Pushed(b, i)]
           l == n + j
<1>1. b.unsent = n
  BY DEF Seen
<1>2. l \in Nat
  BY TcbAssumption
<1>3. Host!Pushed(b, i) = j
  BY <1>1 DEF Host!Pushed
<1>4. c = Seen(s, w, l, k)
  <2>1. [b EXCEPT !.unsent = l] = Seen(s, w, l, k)
    <3> HIDE DEF l
    <3> QED
      BY DEF Seen
  <2> HIDE DEF b
  <2> QED
    BY <1>1, <1>3, <2>1, Zenon
<1> HIDE DEF l
<1>5. Seen(s, x, y, k) \in Host!Sendback(Seen(s, w, l, k))
  BY <1>2, SendbackSeen DEF l
<1>6. Host!Sent(b, i) = Host!Sendback(c)
  <2>1. i # 0
    BY TcbAssumption
  <2> HIDE DEF b
  <2> QED
    BY <2>1, Zenon DEF Host!Sent
<1> HIDE DEF b, c
<1> QED
  BY <1>4, <1>5, <1>6 DEF b

LEMMA ReceivedSeen ==
    ASSUME NEW s, NEW w, NEW n, NEW k \in Nat, NEW i \in Nat
    PROVE  Host!Received(Seen(s, w, n, k), i)
              = Seen(s, w, n, IF i <= k THEN k - i ELSE 0)
<1> DEFINE b == Seen(s, w, n, k)
           l == IF i <= k THEN k - i ELSE 0
<1>1. b.unread = k
  BY DEF Seen
<1>2. b.unread - Host!Taken(b, i) = l
  BY <1>1 DEF Host!Taken
<1> HIDE DEF l
<1>3. [b EXCEPT !.unread = l] = Seen(s, w, n, l)
  BY DEF Seen
<1> HIDE DEF b
<1>4. Host!Received(b, i) = [b EXCEPT !.unread = l]
  BY <1>2, Zenon DEF Host!Received
<1> QED
  BY <1>3, <1>4 DEF b, l

LEMMA ClosedSeen ==
    ASSUME NEW w \in BOOLEAN, NEW n \in 0 .. SendCapacity, NEW k
    PROVE  /\ Seen("CLOSE", w, n, k) \in Host!Closed(Seen("SYN_SENT", w, n, k))
           /\ \A s, r : Closes([state |-> s], r) =>
                 /\ n = SendCapacity =>
                       Seen(r, w, n, k) \in Host!Closed(Seen(s, w, n, k))
                 /\ n # SendCapacity =>
                       \A x \in BOOLEAN, y \in Nat :
                          SendsOn(w, n + 1, x, y) =>
                             Seen(r, x, y, k) \in Host!Closed(Seen(s, w, n, k))
<1>1. ASSUME NEW s, NEW r,
             (s = "SYN_SENT" /\ r = "CLOSE") \/ Closes([state |-> s], r)
      PROVE  Host!Closed(Seen(s, w, n, k)) =
                IF /\ s \in {"SYN_RECV", "ESTABLISHED", "CLOSE_WAIT"}
                   /\ n # SendCapacity
                THEN Host!Sendback(Seen(r, w, n + 1, k))
                ELSE {Seen(r, w, n, k)}
  <2> DEFINE b == Seen(s, w, n, k)
             c == Seen(r, w, n, k)
  <2>1. b.state = s /\ b.unsent = n /\ c.unsent = n
    BY DEF Seen
  <2>2. [b EXCEPT !.state = r] = c
    BY DEF Seen
  <2>3. [c EXCEPT !.unsent = n + 1] = Seen(r, w, n + 1, k)
    <3> DEFINE l == n + 1
    <3> HIDE DEF l
    <3>1. [c EXCEPT !.unsent = l] = Seen(r, w, l, k)
      BY DEF Seen
    <3> QED
      BY <3>1 DEF l
  <2> HIDE DEF b, c
  <2> DEFINE closing ==
               [b EXCEPT !.state =
                   CASE b.state = "SYN_SENT" -> "CLOSE"
                     [] b.state = "CLOSE_WAIT" -> "LAST_ACK"
                     [] b.state \in {"SYN_RECV", "ESTABLISHED"} -> "FIN_WAIT1"
                     [] OTHER -> b.state]
  <2>4. closing = c
    <3>1. r = CASE s = "SYN_SENT" -> "CLOSE"
                [] s = "CLOSE_WAIT" -> "LAST_ACK"
                [] s \in {"SYN_RECV", "ESTABLISHED"} -> "FIN_WAIT1"
                [] OTHER -> s
      BY <1>1 DEF Closes
    <3> QED
      BY <2>1, <2>2, <3>1, Zenon
  <2>5. Host!CloseFails(b) <=>
           s \in {"SYN_RECV", "ESTABLISHED", "CLOSE_WAIT"} /\ n = SendCapacity
    BY <2>1, Zenon DEF Host!CloseFails
  <2>6. Host!Closed(b) =
           IF /\ b.state \in {"SYN_RECV", "ESTABLISHED", "CLOSE_WAIT"}
              /\ ~Host!CloseFails(b)
           THEN Host!Sendback([closing EXCEPT !.unsent = closing.unsent + 1])
           ELSE {closing}
    BY Zenon DEF Host!Closed
  <2> HIDE DEF closing
  <2>7. closing.unsent = n
    BY <2>1, <2>4
  <2>8. [closing EXCEPT !.unsent = closing.unsent + 1] = Seen(r, w, n + 1, k)
    BY <2>3, <2>4, <2>7
  <2> QED
    BY <2>1, <2>4, <2>5, <2>6, <2>8, Zenon DEF b, c
<1>2. Seen("CLOSE", w, n, k) \in Host!Closed(Seen("SYN_SENT", w, n, k))
  BY <1>1
<1>3. ASSUME NEW s, NEW r, Closes([state |-> s], r)
      PROVE  /\ n = SendCapacity =>
                   Seen(r, w, n, k) \in Host!Closed(Seen(s, w, n, k))
             /\ n # SendCapacity =>
                   \A x \in BOOLEAN, y \in Nat :
                      SendsOn(w, n + 1, x, y) =>
                         Seen(r, x, y, k) \in Host!Closed(Seen(s, w, n, k))
  <2> DEFINE l == n + 1
  <2>1. s \in {"SYN_RECV", "ESTABLISHED", "CLOSE_WAIT"}
    BY <1>3 DEF Closes
  <2>2. n = SendCapacity => Host!Closed(Seen(s, w, n, k)) = {Seen(r, w, n, k)}
    BY <1>1, <1>3, <2>1
  <2>3. n # SendCapacity =>
           Host!Closed(Seen(s, w, n, k)) = Host!Sendback(Seen(r, w, l, k))
    BY <1>1, <1>3, <2>1
  <2>4. l \in Nat
    BY TcbAssumption
  <2> HIDE DEF l
  <2>5. \A x \in BOOLEAN, y \in Nat :
           SendsOn(w, l, x, y) =>
              Seen(r, x, y, k) \in Host!Sendback(Seen(r, w, l, k))
    BY <2>4, SendbackSeen
  <2> QED
    BY <2>2, <2>3, <2>5, Zenon DEF l
<1> QED
  BY <1>2, <1>3

-----------------------------------------------------------------------------
(* Each step of the connection.                                            *)

\* What BlocksStepAsSeen says of a block t that becomes u.
Steps(t, u) == View(u) \in BlockSteps(View(t)) \/ View(u) = View(t)

LEMMA ExistingSteps ==
    ASSUME NEW t, t.state # "NONE", NEW u,
           \/ View(u) \in Host!OnSegment(View(t))
           \/ View(u) \in Host!OnTimer(View(t))
           \/ View(u) \in Host!Closed(View(t))
           \/ \E n \in 1 .. RecvCapacity : View(u) = Host!Received(View(t), n)
           \/ /\ t.state = "ESTABLISHED"
              /\ \E n \in 1 .. SendCapacity : View(u) \in Host!Sent(View(t), n)
    PROVE  Steps(t, u)
<1> DEFINE b == View(t)
           c == View(u)
           read == {Host!Received(b, n) : n \in 1 .. RecvCapacity}
           sent == UNION {Host!Sent(b, n) : n \in 1 .. SendCapacity}
<1>1. b.state = t.state
  BY ViewIsSeen, FieldsSeen
<1> HIDE DEF b
<1>2. BlockSteps(b) =
         Host!OnSegment(b) \cup Host!OnTimer(b) \cup Host!Closed(b)
         \cup read \cup (IF b.state = "ESTABLISHED" THEN sent ELSE {})
  BY <1>1, Zenon DEF BlockSteps
<1>3. (\E n \in 1 .. RecvCapacity : c = Host!Received(b, n)) => c \in read
  OBVIOUS
<1>4. (\E n \in 1 .. SendCapacity : c \in Host!Sent(b, n)) => c \in sent
  OBVIOUS
<1> HIDE DEF c, read, sent
<1>5. c \in BlockSteps(b)
  BY <1>1, <1>2, <1>3, <1>4, Zenon DEF b, c
<1> QED
  BY <1>5 DEF Steps, b, c

LEMMA NewSteps ==
    ASSUME NEW t, t.state = "NONE", NEW u,
           NEW passive \in BOOLEAN, View(u) = Host!Opened(passive)
    PROVE  Steps(t, u)
<1> DEFINE b == View(t)
<1>1. b.state = "NONE"
  BY ViewIsSeen, FieldsSeen
<1> HIDE DEF b
<1>2. BlockSteps(b) = {Host!Opened(p) : p \in BOOLEAN}
  BY <1>1, Zenon DEF BlockSteps
<1> QED
  BY <1>2, Zenon DEF Steps, b

\* tcp_send
LEMMA WriteSteps ==
    ASSUME NoWrap, NEW e \in Endpoints, NEW t, NEW w, NEW q, NEW wq, NEW d,
           Sound(e, t, w, q, wq, d), t.state = "ESTABLISHED",
           NEW i \in 1 .. MaxBytes[e], w + i <= MaxBytes[e]
    PROVE  Steps(t, MakeSureSendback(WithBytes(t, w, Accepted(t, i))).tcb)
<1> DEFINE n == Len(t.sendBuf)
           k == Len(t.recvBuf)
           v == WaitingForAck(t)
           j == Accepted(t, i)
           l == n + j
           p == WithBytes(t, w, j)
           u == MakeSureSendback(p).tcb
           room == SendCapacity - n
           most == IF i <= SendCapacity THEN i ELSE SendCapacity
<1>1. /\ View(t) = Seen(t.state, v, n, k)
      /\ v \in BOOLEAN /\ n \in 0 .. SendCapacity /\ k \in 0 .. RecvCapacity
  BY SeenNow DEF Sound, SenderSide
<1>2. i \in Nat /\ i # 0 /\ SendCapacity \in Nat /\ SendCapacity # 0
  BY TcpAssumption, TcbAssumption DEF Endpoints
<1>3. /\ Sound(e, p, w + j, q, wq, d) /\ p.state = t.state
      /\ p.sendNext = t.sendNext /\ p.sendUnack = t.sendUnack
      /\ p.recvBuf = t.recvBuf /\ Len(p.sendBuf) = l
  BY <1>2, BytesQueued
<1> HIDE DEF p
<1>4. Level(e, p, q)
  BY <1>3, SoundIsLevel
<1>5. WaitingForAck(p) = v
  BY <1>3, Zenon DEF WaitingForAck
<1>6. PICK x \in BOOLEAN, y \in Nat :
          SendsOn(v, l, x, y) /\ View(u) = Seen(t.state, x, y, k)
  <2> HIDE DEF v, l, k, u
  <2>1. \E x \in BOOLEAN, y \in Nat :
           /\ SendsOn(WaitingForAck(p), Len(p.sendBuf), x, y)
           /\ View(u) = Seen(p.state, x, y, Len(p.recvBuf))
    BY <1>4, SendbackView DEF u
  <2> QED
    BY <1>3, <1>5, <2>1, Zenon DEF k
<1> HIDE DEF n, k, v, u
<1>7. /\ most \in 1 .. SendCapacity /\ j \in Nat
      /\ j = IF most <= SendCapacity - n THEN most ELSE SendCapacity - n
  <2>1. j = Min({i, room})
    BY DEF Accepted, n
  <2>2. room \in Nat
    BY <1>1, <1>2
  <2> HIDE DEF j
  <2>3. j \in {i, room} /\ j <= i /\ j <= room
    <3> HIDE DEF room
    <3> QED
      BY <1>2, <2>1, <2>2, MinOfNat
  <2> QED
    BY <1>1, <1>2, <2>2, <2>3
<1> HIDE DEF most, j
<1>8. View(u) \in Host!Sent(View(t), most)
  BY <1>1, <1>6, <1>7, SentSeen
<1> QED
  BY <1>7, <1>8, ExistingSteps DEF u, p, j

\* tcp_receive
LEMMA ReadSteps ==
    ASSUME NEW e \in Endpoints, NEW t \in Block(Endpoints, e),
           t.state # "NONE", NEW i \in 1 .. RecvCapacity,
           NEW taken, taken = Min({i, Len(t.recvBuf)}),
           NEW rest, rest = SubSeq(t.recvBuf, taken + 1, Len(t.recvBuf))
    PROVE  Steps(t, [t EXCEPT !.recvBuf = rest])
<1> DEFINE n == Len(t.sendBuf)
           k == Len(t.recvBuf)
           v == WaitingForAck(t)
           left == IF i <= k THEN k - i ELSE 0
           u == [t EXCEPT !.recvBuf = rest]
<1>1. /\ View(t) = Seen(t.state, v, n, k)
      /\ v \in BOOLEAN /\ n \in 0 .. SendCapacity /\ k \in 0 .. RecvCapacity
  BY SeenNow
<1>2. t \in TCB(Endpoints) /\ t.recvBuf \in Seq(Nat)
  BY BlockFields DEF Block
<1>3. /\ u.state = t.state /\ u.sendNext = t.sendNext
      /\ u.sendUnack = t.sendUnack
      /\ u.sendBuf = t.sendBuf /\ u.recvBuf = rest
  BY <1>2 DEF TCB
<1> HIDE DEF u
<1>4. WaitingForAck(u) = v
  BY <1>3, Zenon DEF WaitingForAck
<1>5. Len(rest) = left
  <2>1. taken = Min({i, k})
    OBVIOUS
  <2>2. i \in Nat /\ k \in Nat
    BY <1>1, TcbAssumption
  <2> HIDE DEF k
  <2>3. taken \in {i, k} /\ taken <= i /\ taken <= k
    BY <2>1, <2>2, MinOfNat
  <2>4. taken \in Nat /\ taken <= k /\ k - taken = left
    BY <2>2, <2>3
  <2>5. Len(rest) = k - taken
    BY <1>2, <2>2, <2>4, SubSeqProperties DEF k
  <2> QED
    BY <2>4, <2>5
<1> HIDE DEF v, n, k, left
<1>6. View(u) = Seen(t.state, v, n, left)
  <2>1. View(u) = Seen(u.state, WaitingForAck(u), Len(u.sendBuf), Len(u.recvBuf))
    BY ViewIsSeen
  <2> QED
    BY <1>3, <1>4, <1>5, <2>1, Zenon DEF n
<1>7. Host!Received(View(t), i) = Seen(t.state, v, n, left)
  BY <1>1, TcbAssumption, ReceivedSeen DEF left
<1> QED
  BY <1>6, <1>7, ExistingSteps DEF u

\* tcp_close
LEMMA CloseSteps ==
    ASSUME NoWrap, NEW e \in Endpoints, NEW t, NEW w, NEW q, NEW wq, NEW d,
           Sound(e, t, w, q, wq, d)
    PROVE  Steps(t, CloseTcb(t).tcb)
<1> DEFINE n == Len(t.sendBuf)
           k == Len(t.recvBuf)
           v == WaitingForAck(t)
           l == n + 1
<1>1. /\ View(t) = Seen(t.state, v, n, k)
      /\ v \in BOOLEAN /\ n \in 0 .. SendCapacity /\ k \in 0 .. RecvCapacity
      /\ t \in Block(Endpoints, e) /\ t \in TCB(Endpoints)
      /\ t.state # "NONE"
  BY SeenNow DEF Sound, SenderSide, NotOpened, Block
\* A change of state alone.
<1>2. ASSUME NEW s, NEW u, u = [t EXCEPT !.state = s]
      PROVE  View(u) = Seen(s, v, n, k)
  <2>1. /\ u.state = s /\ u.sendNext = t.sendNext
        /\ u.sendUnack = t.sendUnack
        /\ u.sendBuf = t.sendBuf /\ u.recvBuf = t.recvBuf
    BY <1>1, <1>2 DEF TCB
  <2>2. WaitingForAck(u) = v
    BY <2>1, Zenon DEF WaitingForAck
  <2>3. View(u) = Seen(u.state, WaitingForAck(u), Len(u.sendBuf), Len(u.recvBuf))
    BY ViewIsSeen
  <2> HIDE DEF v
  <2> QED
    BY <2>1, <2>2, <2>3, Zenon DEF n, k
<1>3. ASSUME NEW s, Closes(t, s)
      PROVE  Steps(t, SendCtrl([t EXCEPT !.state = s], "fin").tcb)
  <2> DEFINE a == [t EXCEPT !.state = s]
             p == WithFin(t, s)
             u == MakeSureSendback(p).tcb
             r == SendCtrl(a, "fin")
  <2>1. Closes([state |-> t.state], s)
    BY <1>3 DEF Closes
  <2>2. CASE n = SendCapacity
    <3>1. r = Silent(a)
      BY <1>1, <2>2, FinSent
    <3> HIDE DEF a, v, n, k
    <3>2. r.tcb = a
      BY <3>1 DEF Silent, Result
    <3>3. View(a) = Seen(s, v, n, k)
      BY <1>2 DEF a
    <3>4. Seen(s, v, n, k) \in Host!Closed(Seen(t.state, v, n, k))
      BY <1>1, <2>1, <2>2, ClosedSeen
    <3>5. View(a) \in Host!Closed(View(t))
      BY <1>1, <3>3, <3>4, Zenon
    <3> QED
      BY <1>1, <3>2, <3>5, ExistingSteps DEF a
  <2>3. CASE n # SendCapacity
    <3>1. r = MakeSureSendback(p)
      BY <1>1, <2>3, FinSent
    <3>2. /\ Sound(e, p, w, q, wq, d) /\ p.state = s
          /\ p.sendNext = t.sendNext /\ p.sendUnack = t.sendUnack
          /\ p.recvBuf = t.recvBuf /\ Len(p.sendBuf) = l
      BY <1>3, <2>3, FinQueued
    <3> HIDE DEF p
    <3>3. s # "CLOSE"
      BY <1>3 DEF Closes
    <3>4. Level(e, p, q)
      BY <3>2, <3>3, SoundIsLevel
    <3>5. WaitingForAck(p) = v
      BY <3>2, Zenon DEF WaitingForAck
    <3>6. PICK x \in BOOLEAN, y \in Nat :
              SendsOn(v, l, x, y) /\ View(u) = Seen(s, x, y, k)
      <4> HIDE DEF v, l, k, u
      <4>1. \E x \in BOOLEAN, y \in Nat :
               /\ SendsOn(WaitingForAck(p), Len(p.sendBuf), x, y)
               /\ View(u) = Seen(p.state, x, y, Len(p.recvBuf))
        BY <3>4, SendbackView DEF u
      <4> QED
        BY <3>2, <3>5, <4>1, Zenon DEF k
    <3> HIDE DEF n, k, v, u, r
    <3>7. Seen(s, x, y, k) \in Host!Closed(Seen(t.state, v, n, k))
      BY <1>1, <2>1, <2>3, <3>6, ClosedSeen
    <3>8. View(u) \in Host!Closed(View(t))
      BY <1>1, <3>6, <3>7, Zenon
    <3>9. r.tcb = u
      BY <3>1, Zenon DEF u
    <3> QED
      BY <1>1, <3>8, <3>9, ExistingSteps DEF r
  <2> QED
    BY <2>2, <2>3
<1>4. CASE t.state = "SYN_SENT"
  <2> DEFINE c == [t EXCEPT !.state = "CLOSE"]
  <2>1. CloseTcb(t).tcb = c
    BY <1>4 DEF CloseTcb, Silent, Result
  <2>2. View(c) = Seen("CLOSE", v, n, k)
    BY <1>2
  <2> HIDE DEF c, v, n, k
  <2>3. Seen("CLOSE", v, n, k) \in Host!Closed(Seen("SYN_SENT", v, n, k))
    BY <1>1, ClosedSeen
  <2>4. View(c) \in Host!Closed(View(t))
    BY <1>1, <1>4, <2>2, <2>3, Zenon
  <2> QED
    BY <1>1, <2>1, <2>4, ExistingSteps
<1>5. CASE t.state \in {"SYN_RECV", "ESTABLISHED"}
  <2>1. CloseTcb(t) = SendCtrl([t EXCEPT !.state = "FIN_WAIT1"], "fin")
    BY <1>5 DEF CloseTcb
  <2> QED
    BY <1>3, <1>5, <2>1 DEF Closes
<1>6. CASE t.state = "CLOSE_WAIT"
  <2>1. CloseTcb(t) = SendCtrl([t EXCEPT !.state = "LAST_ACK"], "fin")
    BY <1>6 DEF CloseTcb
  <2> QED
    BY <1>3, <1>6, <2>1 DEF Closes
<1>7. CASE t.state \notin {"SYN_SENT", "SYN_RECV", "ESTABLISHED", "CLOSE_WAIT"}
  BY <1>7 DEF CloseTcb, Silent, Result, Steps
<1> QED
  BY <1>4, <1>5, <1>6, <1>7

\* _tcp_timer
LEMMA TimerSteps ==
    ASSUME NEW e \in Endpoints, NEW t \in Block(Endpoints, e)
    PROVE  /\ t.state \notin {"NONE", "CLOSE", "TIME_WAIT"} /\ WaitingForAck(t)
                 => Steps(t, Retransmit(t).tcb)
           /\ t.state = "TIME_WAIT" => Steps(t, [t EXCEPT !.state = "CLOSE"])
<1> DEFINE n == Len(t.sendBuf)
           k == Len(t.recvBuf)
           v == WaitingForAck(t)
           m == [t.lastSeg EXCEPT !.ackSeq = t.recvNext]
           i == t.retransCount + 1
           u == [t EXCEPT !.lastSeg = m, !.retransCount = i]
           c == [t EXCEPT !.state = "CLOSE"]
<1>1. /\ View(t) = Seen(t.state, v, n, k) /\ t \in TCB(Endpoints)
  BY SeenNow DEF Block
<1>2. Retransmit(t).tcb \in {u, c}
  BY <1>1 DEF Retransmit, Silent, Result, TCB
<1> HIDE DEF m, i
<1>3. /\ u.state = t.state /\ u.sendNext = t.sendNext
      /\ u.sendUnack = t.sendUnack
      /\ u.sendBuf = t.sendBuf /\ u.recvBuf = t.recvBuf
  BY <1>1 DEF TCB
<1>4. /\ c.state = "CLOSE" /\ c.sendNext = t.sendNext
      /\ c.sendUnack = t.sendUnack
      /\ c.sendBuf = t.sendBuf /\ c.recvBuf = t.recvBuf
  BY <1>1 DEF TCB
<1> HIDE DEF u, c
<1>5. View(u) = View(t)
  BY <1>3, Zenon DEF View, WaitingForAck
<1>6. View(c) = Seen("CLOSE", v, n, k)
  <2>1. WaitingForAck(c) = v
    BY <1>4, Zenon DEF WaitingForAck
  <2>2. View(c) = Seen(c.state, WaitingForAck(c), Len(c.sendBuf), Len(c.recvBuf))
    BY ViewIsSeen
  <2> HIDE DEF v
  <2> QED
    BY <1>4, <2>1, <2>2, Zenon DEF n, k
<1> HIDE DEF n, k
<1>7. ASSUME t.state \notin {"NONE", "CLOSE"},
             t.state = "TIME_WAIT" \/ WaitingForAck(t)
      PROVE  Steps(t, c)
  <2> HIDE DEF v
  <2>1. View(c) \in Host!OnTimer(View(t))
    BY <1>1, <1>6, <1>7, TimerSeen DEF v
  <2> QED
    BY <1>7, <2>1, ExistingSteps
<1> QED
  BY <1>2, <1>5, <1>7 DEF Steps, c

-----------------------------------------------------------------------------
(* Each action.                                                            *)

\* One step of the system.
AsSeen ==
    /\ NothingWritten'
    /\ \A x \in Endpoints : tcb'[x] # tcb[x] => Steps(tcb[x], tcb'[x])

LEMMA EndSeen ==
    ASSUME Inductive, NothingWritten, NEW e \in Endpoints, NEW u,
           tcb' = [tcb EXCEPT ![e] = u],
           written'[Peer(e)] = written[Peer(e)],
           u.state = "SYN_SENT" => written'[e] = 0,
           Steps(tcb[e], u)
    PROVE  AsSeen
<1>1. \A x \in Endpoints : x # e => x = Peer(e)
  BY EndpointsDef
<1>2. tcb'[e] = u /\ \A x \in Endpoints : x # e => tcb'[x] = tcb[x]
  BY DEF Inductive, TypeOK
<1> QED
  BY <1>1, <1>2 DEF AsSeen, NothingWritten

\* A step of one end that does not write.
LEMMA EffectSeen ==
    ASSUME Inductive, Inductive', NothingWritten, NEW e \in Endpoints,
           tcb[e].state # "NONE", NEW u,
           tcb' = [tcb EXCEPT ![e] = u], UNCHANGED written,
           Grows(tcb[e], written[e], u, written[e]),
           Steps(tcb[e], u)
    PROVE  AsSeen
<1> DEFINE t == tcb[e]
<1>1. ASSUME u.state = "SYN_SENT"
      PROVE  written'[e] = 0
  <2>1. tcb'[e] = u
    BY DEF Inductive, TypeOK
  <2>2. u.recvNext = 0
    <3>1. \A x \in Endpoints : ReceiverOK(tcb'[x], tcb'[Peer(x)],
                                       written'[Peer(x)], delivered'[x])
      BY DEF Inductive, BlockOK
    <3>2. u.recvNext # 0 => u.state \notin {"NONE", "SYN_SENT"}
      BY <2>1, <3>1 DEF ReceiverOK
    <3> QED
      BY <1>1, <3>2
  <2>3. t.recvNext \in Nat /\ t.recvNext <= u.recvNext
    <3>1. t \in Block(Endpoints, e)
      BY TypeOKBlocks DEF Inductive
    <3> QED
      BY <3>1, BlockFields DEF Grows
  <2>4. t.recvNext = 0
    BY <2>2, <2>3
  <2>5. t.state \in {"NONE", "SYN_SENT", "CLOSE"}
    BY <2>4 DEF Inductive, BlockOK, ReceiverOK
  <2>6. t.state # "CLOSE"
    BY <1>1 DEF Grows, WriteStates
  <2> QED
    BY <2>5, <2>6 DEF NothingWritten
<1> QED
  BY <1>1, EndSeen

LEMMA HandledSeen ==
    ASSUME Inductive, Inductive', NothingWritten,
           NEW e \in Endpoints, NEW m \in Arriving(e), NEW s, NEW r,
           HandledAs(s, e, m, r),
           Safe(e, tcb[e], written[e], tcb[Peer(e)], written[Peer(e)],
                delivered[e], r),
           Follows(tcb[e], r.tcb)
    PROVE  AsSeen
<1>1. /\ Effect(e, r, After(m)) /\ Reaches(m, e) /\ UNCHANGED written
  BY DEF HandledAs
<1>2. tcb[e].state # "NONE"
  BY <1>1, ReachedBlock
<1>3. tcb' = [tcb EXCEPT ![e] = r.tcb]
  BY <1>1 DEF Effect
<1>4. Grows(tcb[e], written[e], r.tcb, written[e])
  BY DEF Safe
<1>5. Steps(tcb[e], r.tcb)
  BY <1>2, ExistingSteps DEF Follows
<1> QED
  BY <1>1, <1>2, <1>3, <1>4, <1>5, EffectSeen

LEMMA ReceiveSeen ==
    ASSUME NoWrap, Inductive, Inductive', Acknowledging, NothingWritten,
           NEW e \in Endpoints, NEW m \in Arriving(e),
           \/ HandledAs("SYN_RECV", e, m, OnSynRecv(tcb[e], m))
           \/ HandledAs("SYN_SENT", e, m, OnSynSent(tcb[e], m))
           \/ HandledAs("ESTABLISHED", e, m, OnEstablished(tcb[e], m))
           \/ HandledAs("FIN_WAIT1", e, m, OnFinWait1(tcb[e], m))
           \/ HandledAs("FIN_WAIT2", e, m, OnFinWait2(tcb[e], m))
           \/ HandledAs("CLOSE_WAIT", e, m, OnCloseWait(tcb[e], m))
           \/ HandledAs("CLOSING", e, m, OnClosing(tcb[e], m))
           \/ HandledAs("LAST_ACK", e, m, OnLastAck(tcb[e], m))
           \/ HandledAs("TIME_WAIT", e, m, OnTimeWait(tcb[e], m))
    PROVE  AsSeen
<1> DEFINE t == tcb[e]
           w == written[e]
           q == tcb[Peer(e)]
           wq == written[Peer(e)]
           d == delivered[e]
<1>1. Heard(m, q, wq)
  BY HeardNow
<1>2. t.state \notin {"NONE", "CLOSE"} =>
         Sound(e, t, w, q, wq, d) /\ Told(e, t, w, q, wq, d, m)
  BY SoundNow, ToldNow
<1>3. t.state = "SYN_SENT" => w = 0
  BY DEF NothingWritten
<1> HIDE DEF w, q, wq, d
<1>4. CASE HandledAs("SYN_RECV", e, m, OnSynRecv(t, m))
  <2>1. t.state = "SYN_RECV"
    BY <1>4 DEF HandledAs
  <2>2. Safe(e, t, w, q, wq, d, OnSynRecv(t, m))
    BY <1>1, <1>2, <2>1, OnSynRecvSafe
  <2>3. Follows(t, OnSynRecv(t, m).tcb)
    BY <1>2, <2>1, OnSynRecvFollows
  <2> QED
    BY <1>4, <2>2, <2>3, HandledSeen DEF w, q, wq, d
<1>5. CASE HandledAs("SYN_SENT", e, m, OnSynSent(t, m))
  <2>1. t.state = "SYN_SENT"
    BY <1>5 DEF HandledAs
  <2>2. Safe(e, t, w, q, wq, d, OnSynSent(t, m))
    BY <1>1, <1>2, <2>1, OnSynSentSafe
  <2>3. Follows(t, OnSynSent(t, m).tcb)
    BY <1>2, <1>3, <2>1, OnSynSentFollows
  <2> QED
    BY <1>5, <2>2, <2>3, HandledSeen DEF w, q, wq, d
<1>6. CASE HandledAs("ESTABLISHED", e, m, OnEstablished(t, m))
  <2>1. t.state = "ESTABLISHED" /\ m.seq = t.recvNext
    BY <1>6 DEF HandledAs, InOrder
  <2>2. Safe(e, t, w, q, wq, d, OnEstablished(t, m))
    BY <1>1, <1>2, <2>1, OnEstablishedSafe
  <2>3. Follows(t, OnEstablished(t, m).tcb)
    BY <1>2, <2>1, OnEstablishedFollows
  <2> QED
    BY <1>6, <2>2, <2>3, HandledSeen DEF w, q, wq, d
<1>7. CASE HandledAs("FIN_WAIT1", e, m, OnFinWait1(t, m))
  <2>1. t.state = "FIN_WAIT1" /\ m.seq = t.recvNext
    BY <1>7 DEF HandledAs, InOrder
  <2>2. Safe(e, t, w, q, wq, d, OnFinWait1(t, m))
    BY <1>1, <1>2, <2>1, OnFinWait1Safe
  <2>3. Follows(t, OnFinWait1(t, m).tcb)
    BY <1>2, <2>1, OnFinWait1Follows
  <2> QED
    BY <1>7, <2>2, <2>3, HandledSeen DEF w, q, wq, d
<1>8. CASE HandledAs("FIN_WAIT2", e, m, OnFinWait2(t, m))
  <2>1. t.state = "FIN_WAIT2" /\ m.seq = t.recvNext
    BY <1>8 DEF HandledAs, InOrder
  <2>2. Safe(e, t, w, q, wq, d, OnFinWait2(t, m))
    BY <1>1, <1>2, <2>1, OnFinWait2Safe
  <2>3. Follows(t, OnFinWait2(t, m).tcb)
    BY <1>2, <2>1, OnFinWait2Follows
  <2> QED
    BY <1>8, <2>2, <2>3, HandledSeen DEF w, q, wq, d
<1>9. CASE HandledAs("CLOSE_WAIT", e, m, OnCloseWait(t, m))
  <2>1. t.state = "CLOSE_WAIT"
    BY <1>9 DEF HandledAs
  <2>2. Safe(e, t, w, q, wq, d, OnCloseWait(t, m))
    BY <1>2, <2>1, SilentSafe DEF OnCloseWait
  <2>3. Follows(t, OnCloseWait(t, m).tcb)
    BY <1>2, <2>1, LastHandlersFollow
  <2> QED
    BY <1>9, <2>2, <2>3, HandledSeen DEF w, q, wq, d
<1>10. CASE HandledAs("CLOSING", e, m, OnClosing(t, m))
  <2>1. t.state = "CLOSING"
    BY <1>10 DEF HandledAs
  <2>2. Safe(e, t, w, q, wq, d, OnClosing(t, m))
    BY <1>2, <2>1, OnClosingSafe
  <2>3. Follows(t, OnClosing(t, m).tcb)
    BY <1>2, <2>1, LastHandlersFollow
  <2> QED
    BY <1>10, <2>2, <2>3, HandledSeen DEF w, q, wq, d
<1>11. CASE HandledAs("LAST_ACK", e, m, OnLastAck(t, m))
  <2>1. t.state = "LAST_ACK"
    BY <1>11 DEF HandledAs
  <2>2. Safe(e, t, w, q, wq, d, OnLastAck(t, m))
    BY <1>2, <2>1, OnLastAckSafe
  <2>3. Follows(t, OnLastAck(t, m).tcb)
    BY <1>2, <2>1, LastHandlersFollow
  <2> QED
    BY <1>11, <2>2, <2>3, HandledSeen DEF w, q, wq, d
<1>12. CASE HandledAs("TIME_WAIT", e, m, OnTimeWait(t, m))
  <2>1. t.state = "TIME_WAIT"
    BY <1>12 DEF HandledAs
  <2>2. Safe(e, t, w, q, wq, d, OnTimeWait(t, m))
    BY <1>2, <2>1, SilentSafe DEF OnTimeWait
  <2>3. Follows(t, OnTimeWait(t, m).tcb)
    BY <1>2, <2>1, LastHandlersFollow
  <2> QED
    BY <1>12, <2>2, <2>3, HandledSeen DEF w, q, wq, d
<1> QED
  BY <1>4, <1>5, <1>6, <1>7, <1>8, <1>9, <1>10, <1>11, <1>12

LEMMA OutOfOrderSeen ==
    ASSUME NoWrap, Inductive, Inductive', Acknowledging, NothingWritten,
           NEW e \in Endpoints, ReceiveOutOfOrder(e)
    PROVE  AsSeen
<1>1. PICK m \in Arriving(e) :
          /\ Reaches(m, e) /\ ~InOrder(m, e)
          /\ Effect(e, OnOutOfOrder(tcb[e], m), After(m))
          /\ UNCHANGED <<registry, losses, written, delivered>>
  BY DEF ReceiveOutOfOrder
<1> DEFINE r == OnOutOfOrder(tcb[e], m)
<1>2. tcb[e].state \notin {"NONE", "CLOSE", "SYN_SENT"}
  BY <1>1, ReachedBlock DEF InOrder
<1>3. Safe(e, tcb[e], written[e], tcb[Peer(e)], written[Peer(e)],
           delivered[e], r)
  BY <1>2, SoundNow, HeardNow, OnOutOfOrderSafe
<1>4. Follows(tcb[e], r.tcb)
  BY <1>2, ToldNow, AckFollows
<1>5. tcb' = [tcb EXCEPT ![e] = r.tcb] /\ UNCHANGED written
  BY <1>1 DEF Effect
<1> HIDE DEF r
<1>6. Grows(tcb[e], written[e], r.tcb, written[e])
  BY <1>3 DEF Safe
<1>7. Steps(tcb[e], r.tcb)
  BY <1>2, <1>4, ExistingSteps DEF Follows
<1> QED
  BY <1>2, <1>5, <1>6, <1>7, EffectSeen

LEMMA OpeningSeen ==
    ASSUME NoWrap, Inductive, NothingWritten, NEW e \in Endpoints,
           NEW init \in InitSeqs[e], NEW t \in Block(Endpoints, e),
           NEW underWay \in SUBSET net, Opens(e, init, t, underWay)
    PROVE  AsSeen
<1> DEFINE u == SendCtrl(t, "syn").tcb
           passive == t.state = "SYN_RECV"
           s == IF passive THEN "SYN_RECV" ELSE "SYN_SENT"
<1>1. /\ NotOpened(tcb[e]) /\ written[e] = 0 /\ UNCHANGED written
      /\ t.state \in {"SYN_SENT", "SYN_RECV"}
      /\ tcb' = [tcb EXCEPT ![e] = u]
  BY UnopenedBlock DEF Opens, Effect
<1>2. /\ u.state = t.state /\ u.sendUnack = init /\ u.sendNext = init + 1
      /\ u.sendBuf = <<>> /\ u.recvBuf = <<>>
  BY <1>1, OpeningSends DEF Opens
<1> HIDE DEF u
<1>3. WaitingForAck(u) = TRUE
  <2>1. init \in Nat
    BY TcpAssumption DEF Endpoints
  <2> QED
    BY <1>2, <2>1 DEF WaitingForAck
<1>4. Len(u.sendBuf) = 0 /\ Len(u.recvBuf) = 0 /\ u.state = s
  BY <1>1, <1>2
<1> HIDE DEF s
<1>5. View(u) = Seen(s, TRUE, 0, 0)
  <2>1. View(u) = Seen(u.state, WaitingForAck(u), Len(u.sendBuf), Len(u.recvBuf))
    BY ViewIsSeen
  <2> QED
    BY <1>3, <1>4, <2>1, Zenon
<1>6. Host!Opened(passive) = Seen(s, TRUE, 0, 0)
  BY OpenedSeen DEF s
<1>7. passive \in BOOLEAN
  OBVIOUS
<1> HIDE DEF passive
<1>8. View(u) = Host!Opened(passive)
  BY <1>5, <1>6, Zenon
<1>9. Steps(tcb[e], u)
  BY <1>1, <1>7, <1>8, NewSteps DEF NotOpened
<1> QED
  BY <1>1, <1>9, EndSeen

LEMMA WriteSeen ==
    ASSUME NoWrap, Inductive, NothingWritten, NEW e \in Endpoints,
           NEW n \in 1..MaxBytes[e], Write(e, n)
    PROVE  AsSeen
<1> DEFINE t == tcb[e]
           w == written[e]
           p == Peer(e)
           k == Accepted(t, n)
           u == WithBytes(t, w, k)
           x == MakeSureSendback(u).tcb
<1>1. /\ t.state = "ESTABLISHED"
      /\ n \in Nat /\ w + n <= MaxBytes[e]
      /\ tcb' = [tcb EXCEPT ![e] = x]
      /\ written' = [written EXCEPT ![e] = w + k]
  BY WriteEffect DEF Effect
<1>2. Sound(e, t, w, tcb[p], written[p], delivered[e])
  BY <1>1, SoundNow
<1>3. written'[p] = written[p]
  BY <1>1, EndpointsDef DEF Inductive, TypeOK
<1> HIDE DEF t, w
<1>4. /\ u.state = t.state
      /\ Sound(e, u, w + k, tcb[p], written[p], delivered[e])
  BY <1>1, <1>2, BytesQueued
<1>5. Steps(t, x)
  BY <1>1, <1>2, WriteSteps
<1> HIDE DEF u, k
<1>6. x.state = u.state
  BY <1>4, SendbackSafe DEF Sound, SameButSent
<1> HIDE DEF x
<1>7. x.state # "SYN_SENT"
  BY <1>1, <1>4, <1>6
<1> QED
  BY <1>1, <1>3, <1>5, <1>7, EndSeen DEF t

LEMMA ReadSeen ==
    ASSUME Inductive, Inductive', NothingWritten, NEW e \in Endpoints,
           NEW n \in 1..RecvCapacity, Read(e, n)
    PROVE  AsSeen
<1> DEFINE t == tcb[e]
           taken == Min({n, Len(t.recvBuf)})
           rest == SubSeq(t.recvBuf, taken + 1, Len(t.recvBuf))
           u == [t EXCEPT !.recvBuf = rest]
<1>1. t.state # "NONE"
  BY DEF Read, Inductive, NotOpened
<1>2. t \in Block(Endpoints, e) /\ t \in TCB(Endpoints)
  BY <1>1, NearNow DEF Near, Block
<1>3. tcb' = [tcb EXCEPT ![e] = u] /\ UNCHANGED written
  BY <1>2 DEF Read, Inductive, TypeOK
<1>4. Steps(t, u)
  BY <1>1, <1>2, ReadSteps
<1> HIDE DEF rest
<1>5. u.state = t.state
  BY <1>2 DEF TCB
<1> HIDE DEF u
<1> QED
  BY <1>3, <1>4, <1>5, EndSeen DEF NothingWritten

LEMMA CloseSeen ==
    ASSUME NoWrap, Inductive, Inductive', NothingWritten,
           NEW e \in Endpoints, Close(e)
    PROVE  AsSeen
<1> DEFINE r == CloseTcb(tcb[e])
<1>1. tcb[e].state # "NONE"
  BY DEF Close, Inductive, NotOpened
<1>2. Sound(e, tcb[e], written[e], tcb[Peer(e)], written[Peer(e)], delivered[e])
  BY <1>1, SoundNow
<1>3. Grows(tcb[e], written[e], r.tcb, written[e])
  BY <1>2, CloseTcbSafe DEF Safe
<1>4. Steps(tcb[e], r.tcb)
  BY <1>2, CloseSteps
<1>5. tcb' = [tcb EXCEPT ![e] = r.tcb] /\ UNCHANGED written
  BY DEF Close, Step, Effect
<1> HIDE DEF r
<1> QED
  BY <1>1, <1>3, <1>4, <1>5, EffectSeen

LEMMA TimerStepSeen ==
    ASSUME NoWrap, Inductive, Inductive', NothingWritten,
           NEW e \in Endpoints, Timer(e)
    PROVE  AsSeen
<1> DEFINE t == tcb[e]
           w == written[e]
           q == tcb[Peer(e)]
           wq == written[Peer(e)]
           d == delivered[e]
<1>1. t.state \notin {"NONE", "CLOSE"}
  BY DEF Timer, Timeout, TimedOut, TimeWaitExpire
<1>2. Sound(e, t, w, q, wq, d) /\ t \in Block(Endpoints, e)
  BY <1>1, SoundNow DEF Sound, SenderSide
<1>3. CASE Timeout(e)
  <2> DEFINE r == Retransmit(t)
  <2>1. /\ tcb' = [tcb EXCEPT ![e] = r.tcb] /\ UNCHANGED written
        /\ t.state # "TIME_WAIT" /\ WaitingForAck(t)
    BY <1>3 DEF Timeout, TimedOut, Step, Effect
  <2>2. Steps(t, r.tcb)
    BY <1>1, <1>2, <2>1, TimerSteps
  <2> HIDE DEF w, q, wq, d
  <2>3. Grows(t, w, r.tcb, w)
    BY <1>1, <1>2, RetransmitSafe DEF Safe
  <2> HIDE DEF r
  <2> QED
    BY <1>1, <2>1, <2>2, <2>3, EffectSeen DEF w
<1>4. CASE TimeWaitExpire(e)
  <2> DEFINE c == [t EXCEPT !.state = "CLOSE"]
  <2>1. /\ tcb' = [tcb EXCEPT ![e] = c] /\ UNCHANGED written
        /\ t.state = "TIME_WAIT"
    BY <1>4 DEF TimeWaitExpire
  <2>2. Steps(t, c)
    BY <1>2, <2>1, TimerSteps
  <2> HIDE DEF w, q, wq, d
  <2>3. Grows(t, w, c, w)
    BY <1>2, <2>1, StateSound DEF States, WriteStates
  <2> HIDE DEF c
  <2> QED
    BY <1>1, <2>1, <2>2, <2>3, EffectSeen DEF w
<1> QED
  BY <1>3, <1>4 DEF Timer

LEMMA StillSeen ==
    ASSUME NothingWritten, UNCHANGED <<tcb, written>>
    PROVE  AsSeen
  BY DEF NothingWritten, AsSeen

LEMMA NextSeen ==
    ASSUME NoWrap, Inductive, Acknowledging, NothingWritten, [Next]_vars
    PROVE  AsSeen
<1>1. Inductive'
  BY NextSafe
<1>2. ASSUME NEW e \in Endpoints, Receive(e)
      PROVE  AsSeen
  <2>1. CASE ReceiveSyn(e)
    BY <2>1, ReceiveSynOpens, OpeningSeen
  <2>2. CASE Discard(e)
    BY <2>2, StillSeen DEF Discard
  <2>3. CASE ReceiveOutOfOrder(e)
    BY <1>1, <2>3, OutOfOrderSeen
  <2>4. CASE \/ ReceiveSynRecv(e) \/ ReceiveSynSent(e) \/ ReceiveEstablished(e)
             \/ ReceiveFinWait1(e) \/ ReceiveFinWait2(e) \/ ReceiveCloseWait(e)
             \/ ReceiveClosing(e) \/ ReceiveLastAck(e) \/ ReceiveTimeWait(e)
    BY <1>1, <2>4, ReceiveSeen
       DEF ReceiveSynRecv, ReceiveSynSent, ReceiveEstablished, ReceiveFinWait1,
           ReceiveFinWait2, ReceiveCloseWait, ReceiveClosing, ReceiveLastAck,
           ReceiveTimeWait
  <2> QED
    BY <1>2, <2>1, <2>2, <2>3, <2>4 DEF Receive
<1>3. ASSUME NEW e \in Endpoints, User(e)
      PROVE  AsSeen
  <2>1. CASE Connect(e)
    BY <2>1, ConnectOpens, OpeningSeen
  <2>2. CASE \E n \in 1..MaxBytes[e] : Write(e, n)
    BY <2>2, WriteSeen
  <2>3. CASE \E n \in 1..RecvCapacity : Read(e, n)
    BY <1>1, <2>3, ReadSeen
  <2>4. CASE Close(e)
    BY <1>1, <2>4, CloseSeen
  <2> QED
    BY <1>3, <2>1, <2>2, <2>3, <2>4 DEF User
<1>4. ASSUME NEW e \in Endpoints, Timer(e)
      PROVE  AsSeen
  BY <1>1, <1>4, TimerStepSeen
<1>5. CASE Lose
  BY <1>5, StillSeen DEF Lose
<1>6. CASE UNCHANGED vars
  BY <1>6, StillSeen DEF vars
<1> QED
  BY <1>2, <1>3, <1>4, <1>5, <1>6 DEF Next

LEMMA InitSeen == Init => NothingWritten
  BY DEF Init, NothingWritten

\* Module TcbStates, on which the models of the socket layer and of the recycler
\* stand, leaves out no step of a block: whatever a segment, a call or the timer
\* makes of it is one of the outcomes it names.
THEOREM BlocksStep ==
    ASSUME NoWrap
    PROVE  Spec => BlocksStepAsSeen
<1> DEFINE Inv == Inductive /\ Acknowledging /\ NothingWritten
<1>1. Init => Inv
  BY InitSafe, InitAck, InitSeen
<1>2. Inv /\ [Next]_vars =>
         /\ Inv'
         /\ \A e \in Endpoints :
               tcb'[e] # tcb[e] => View(tcb'[e]) \in BlockSteps(View(tcb[e]))
                                   \/ View(tcb'[e]) = View(tcb[e])
  BY NextSafe, NextAck, NextSeen DEF AsSeen, Steps
<1> QED
  BY <1>1, <1>2, PTL DEF Spec, BlocksStepAsSeen

=============================================================================
