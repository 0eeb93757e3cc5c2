---------------------------- MODULE SocketProofs ----------------------------
(***************************************************************************)
(* Proofs about a host, for any number of threads, descriptors, blocks and *)
(* connections and for all capacities: where a block can be at a time.     *)
(***************************************************************************)
EXTENDS SocketProperties, SequenceTheorems, FiniteSetTheorems, TLAPS

USE SocketAssumption, RoomAssumption DEF Actors, Pairs

\* The end of _tcp_close, in which tcp_lock is kept.
Pushing == {"push", "wait", "insert"}

\* The calls that use the block of a descriptor.
InCall == {"connect", "read", "peek", "write", "full"}

\* What thread t of the program does with a descriptor and a block.
CallOK(t) ==
    LET now == at[t]
        fd == sock[now.fd]
    IN  /\ now.step \notin {"closing", "join", "done"}
        /\ now.step = "idle" => now = Idle
        /\ now.step # "idle" => receiving /\ now.fd \in Fds
        /\ now.step \in {"accept", "drain"} => now.tcb = None
        /\ now.step \in InCall \cup Pushing \cup {"look"} => now.tcb \in Blocks
        /\ now.step \in InCall \cup Pushing \cup {"drain"} => fd.owner = t
        /\ now.step \in InCall => fd.state = "ACTIVE"
        /\ now.step \in Pushing \cup {"drain"} =>
              fd.state \in {"ACTIVE", "BINDED", "LISTENING"}
        /\ now.step = "drain" => fd.state # "ACTIVE"
        /\ now.step \in InCall \cup Pushing /\ fd.state = "ACTIVE" =>
              fd.tcb = now.tcb

CallsOK == \A t \in Threads : CallOK(t)

\* A descriptor that the program still uses has a block if it is connected,
\* and has none before.
SocksOK ==
    \A fd \in Fds :
        /\ sock[fd].state = "ACTIVE" /\ sock[fd].owner # None =>
              sock[fd].tcb \in Blocks
        /\ sock[fd].state = "DEFAULT" => sock[fd].tcb = None

\* The thread that runs exit(), which waits for all others to be idle.
ExitOK ==
    /\ at[Exit].step \in {"idle", "closing", "join", "done"} \cup Pushing
    /\ at[Exit].step \in Pushing => at[Exit].tcb \in Blocks
    /\ at[Exit].step \notin Pushing => at[Exit].tcb = None
    /\ receiving <=> (at[Exit] = Idle)
    /\ receiving => toClose = {}

LockOK == \A a \in Actors :
             (lock = a) <=> at[a].step \in Pushing \cup {"closing"}

RecyclerOK == (recycler.step \in {"pop", "stopped"}) <=> (recycler.tcb = None)

Doings == CallsOK /\ SocksOK /\ ExitOK /\ LockOK /\ RecyclerOK

-----------------------------------------------------------------------------
(* Where a block is.                                                       *)

\* On its way to the application, or there.
Holds(kind, x, b) ==
    \/ /\ kind = "socket" /\ x \in Fds
       /\ sock[x].state = "ACTIVE" /\ sock[x].tcb = b
    \/ kind = "thread" /\ x \in Threads /\ at[x].step = "look" /\ at[x].tcb = b
    \/ kind = "queue" /\ x \in Fds /\ b \in Items(sock[x].accepting)

Kinds == {"socket", "thread", "queue"}
Places == Fds \cup Threads

\* In the hand of a thread that closes it.
ClosedBy(a, b) == at[a].step \in Pushing /\ at[a].tcb = b

\* With the recycler.
Given(b) == b \in Items(orphans) \/ recycler.tcb = b

\* Deleted, or about to be.
Gone(b) == b \in deleted \/ (recycler.step = "delete" /\ recycler.tcb = b)

\* Closed.
Away(b) == Given(b) \/ b \in deleted \/ \E a \in Actors : ClosedBy(a, b)

Distinct(s) == \A i, j \in 1..Len(s) : s[i] = s[j] => i = j

QueuesOK == \A fd \in Fds : Distinct(sock[fd].accepting)

OneHolder ==
    \A b \in Blocks, k, l \in Kinds, x, y \in Places :
        Holds(k, x, b) /\ Holds(l, y, b) => k = l /\ x = y

\* Only a block that has been made is anywhere.
MadeOK ==
    /\ \A b \in Blocks : Away(b) => pair[b] # None
    /\ \A b \in Blocks, k \in Kinds, x \in Places :
          Holds(k, x, b) => pair[b] # None
    /\ \A p \in Pairs : /\ active[p] # None => pair[active[p]] = p
                        /\ orphaned[p] # None => pair[orphaned[p]] = p

\* A block that is closed has left the map of active ones, and only the
\* descriptor whose close() is under way still has it.
AwayOK ==
    receiving =>
        \A b \in Blocks : Away(b) =>
            /\ \A p \in Pairs : active[p] # b
            /\ \A k \in Kinds, x \in Places : Holds(k, x, b) =>
                  /\ k = "socket"
                  /\ \E t \in Threads : ClosedBy(t, b) /\ at[t].fd = x

\* The recycler gets a block once.
GivenOK ==
    /\ \A b \in Blocks, a \in Actors :
          Given(b) /\ ClosedBy(a, b) => at[a].step = "insert"
    /\ Distinct(orphans)
    /\ recycler.tcb \notin Items(orphans)

GoneOK ==
    \A b \in Blocks : Gone(b) =>
        /\ b \notin Items(orphans)
        /\ b \in deleted => recycler.tcb # b
        /\ \A a \in Actors : ~ClosedBy(a, b)
        /\ \A p \in Pairs : orphaned[p] # b

\* What exit() still closes.
ToCloseOK == \A p \in toClose :
                /\ active[p] # None
                /\ \A b \in Blocks : active[p] = b => ~Away(b)

\* A push waits while the queue, or that and the recycler's hand, is full.
FullOK ==
    /\ recycler.step = "wait" => Len(orphans) = OrphanCapacity
    /\ \A a \in Actors : at[a].step = "wait" =>
          \/ Len(orphans) = OrphanCapacity
          \/ /\ Len(orphans) + 1 = OrphanCapacity
             /\ recycler.step \in {"join", "push"}

Custody == /\ QueuesOK /\ OneHolder /\ MadeOK /\ AwayOK
           /\ GivenOK /\ GoneOK /\ ToCloseOK /\ FullOK

IInv == TypeOK /\ Doings /\ Custody

-----------------------------------------------------------------------------
(* Queues.                                                                 *)

LEMMA ItemsAppend ==
    ASSUME NEW S, NEW s \in Seq(S), NEW e \in S
    PROVE  /\ Append(s, e) \in Seq(S)
           /\ Len(Append(s, e)) = Len(s) + 1
           /\ Items(Append(s, e)) = Items(s) \cup {e}
           /\ Distinct(s) /\ e \notin Items(s) => Distinct(Append(s, e))
  <1> DEFINE t == Append(s, e)
  <1>1. /\ t \in Seq(S) /\ Len(t) = Len(s) + 1 /\ Len(s) \in Nat
        /\ \A i \in 1..Len(s) : t[i] = s[i]
        /\ t[Len(s) + 1] = e
    BY AppendProperties, LenProperties
  <1> HIDE DEF t
  <1>2. 1..Len(t) = (1..Len(s)) \cup {Len(s) + 1}
    BY <1>1
  <1>3. Items(t) = Items(s) \cup {e}
    BY <1>1, <1>2 DEF Items
  <1>4. ASSUME Distinct(s), e \notin Items(s)
        PROVE  Distinct(t)
    BY <1>1, <1>2, <1>4 DEF Items, Distinct
  <1> QED BY <1>1, <1>3, <1>4 DEF t

LEMMA ItemsTail ==
    ASSUME NEW S, NEW s \in Seq(S), s # <<>>
    PROVE  /\ Tail(s) \in Seq(S) /\ Head(s) \in S
           /\ Len(Tail(s)) = Len(s) - 1
           /\ Len(s) \in Nat \ {0}
           /\ Head(s) \in Items(s)
           /\ Items(s) = Items(Tail(s)) \cup {Head(s)}
           /\ Distinct(s) => /\ Distinct(Tail(s))
                             /\ Head(s) \notin Items(Tail(s))
  <1> DEFINE t == Tail(s)
             h == Head(s)
  <1>1. /\ t \in Seq(S) /\ Len(t) = Len(s) - 1 /\ Len(s) \in Nat \ {0}
        /\ \A i \in 1..Len(t) : t[i] = s[i + 1]
        /\ h = s[1] /\ h \in S
    BY HeadTailProperties, LenProperties, EmptySeq
  <1> HIDE DEF t, h
  <1>2. /\ \A i \in 1..Len(t) : i + 1 \in 1..Len(s)
        /\ \A i \in 1..Len(s) : i = 1 \/ i - 1 \in 1..Len(t)
        /\ 1 \in 1..Len(s)
    BY <1>1
  <1>3. h \in Items(s) /\ Items(t) \subseteq Items(s)
    BY <1>1, <1>2 DEF Items
  <1>4. Items(s) \subseteq Items(t) \cup {h}
    <2> SUFFICES ASSUME NEW i \in 1..Len(s)
                 PROVE  s[i] \in Items(t) \cup {h}
      BY DEF Items
    <2>1. CASE i = 1
      BY <1>1, <2>1
    <2> SUFFICES ASSUME i # 1
                 PROVE  s[i] \in Items(t)
      BY <2>1
    <2>2. i - 1 \in 1..Len(t) /\ (i - 1) + 1 = i
      BY <1>2
    <2>3. t[i - 1] = s[i]
      BY <1>1, <2>2
    <2> QED BY <2>2, <2>3 DEF Items
  <1>5. ASSUME Distinct(s)
        PROVE  Distinct(t) /\ h \notin Items(t)
    <2>1. ASSUME NEW i \in 1..Len(t), NEW j \in 1..Len(t), t[i] = t[j]
          PROVE  i = j
      <3>1. i + 1 \in 1..Len(s) /\ j + 1 \in 1..Len(s) /\ s[i + 1] = s[j + 1]
        BY <1>1, <1>2, <2>1
      <3>2. i + 1 = j + 1
        BY <1>5, <3>1 DEF Distinct
      <3> QED BY <3>2
    <2>2. ASSUME NEW i \in 1..Len(t), t[i] = h
          PROVE  FALSE
      <3>1. i + 1 \in 1..Len(s) /\ s[i + 1] = s[1] /\ i + 1 # 1
        BY <1>1, <1>2, <2>2
      <3> QED BY <1>2, <1>5, <3>1 DEF Distinct
    <2> QED BY <2>1, <2>2 DEF Distinct, Items
  <1> QED BY <1>1, <1>3, <1>4, <1>5 DEF t, h

LEMMA ItemsOf ==
    ASSUME NEW S, NEW s \in Seq(S)
    PROVE  Items(s) \subseteq S
  BY ElementOfSeq DEF Items

-----------------------------------------------------------------------------
(* Operations on a block.                                                  *)

LEMMA SendbackType ==
    ASSUME NEW b \in Block
    PROVE  /\ Sendback(b) \subseteq Block
           /\ \A c \in Sendback(b) : c.state = b.state
  <1>1. ASSUME NEW n \in 1..b.unsent
        PROVE  [b EXCEPT !.waiting = TRUE, !.unsent = @ - n] \in Block
               /\ [b EXCEPT !.waiting = TRUE, !.unsent = @ - n].state = b.state
    <2>1. b.unsent \in 0..SendSlots
      BY DEF Block
    <2>2. b.unsent - n \in 0..SendSlots
      BY <2>1
    <2> QED BY <2>2 DEF Block
  <1> QED BY <1>1 DEF Sendback

LEMMA AckedType ==
    ASSUME NEW b \in Block
    PROVE  /\ Acked(b) \subseteq Block
           /\ \A c \in Acked(b) : c.state = b.state
  BY DEF Acked, Block

LEMMA AckedSendbackType ==
    ASSUME NEW b \in Block
    PROVE  /\ AckedSendback(b) \subseteq Block
           /\ \A c \in AckedSendback(b) : c.state = b.state
  BY AckedType, SendbackType DEF AckedSendback

LEMMA InType ==
    ASSUME NEW B \in SUBSET Block, NEW s \in States
    PROVE  /\ In(s, B) \subseteq Block
           /\ \A c \in In(s, B) : c.state = s
  BY DEF In, Block

LEMMA FilledType ==
    ASSUME NEW b \in Block
    PROVE  /\ Filled(b) \subseteq Block
           /\ \A c \in Filled(b) : c.state = b.state
  BY DEF Filled, Block

\* The states in which a block can still get to be ESTABLISHED, or is.
OpenStates == {"SYN_SENT", "SYN_RECV", "ESTABLISHED", "CLOSE_WAIT"}

\* A block never comes back to these states.
Ends(b, becomes) == becomes.state \in OpenStates => b.state \in OpenStates

LEMMA SegmentType ==
    ASSUME NEW b \in Block, NEW c \in OnSegment(b)
    PROVE  c \in Block /\ Ends(b, c)
  <1> DEFINE acked == [b EXCEPT !.waiting = FALSE]
             idle == {a \in Acked(b) : ~a.waiting /\ a.unsent = 0}
             answered == AckedSendback(b)
             filled == AllFilled(Acked(b) \cup answered)
  <1>1. acked \in Block /\ acked.state = b.state
    BY DEF Block
  <1>2. /\ Acked(b) \in SUBSET Block /\ answered \in SUBSET Block
        /\ \A a \in Acked(b) \cup answered : a.state = b.state
    BY AckedType, AckedSendbackType
  <1>3. idle \in SUBSET Block
    BY <1>2
  <1>4. {acked} \in SUBSET Block /\ Sendback(acked) \in SUBSET Block
    BY <1>1, SendbackType
  <1>5. ASSUME c \in filled
        PROVE  c \in Block /\ Ends(b, c)
    <2>1. PICK a \in Acked(b) \cup answered : c \in Filled(a)
      BY <1>5 DEF AllFilled
    <2>2. a \in Block /\ a.state = b.state
      BY <1>2
    <2> QED BY <2>1, <2>2, FilledType DEF Ends
  <1> HIDE DEF acked, idle, answered, filled
  <1>6. CASE c \in {b} \cup Acked(b) \cup answered
    BY <1>2, <1>6 DEF Ends
  <1>7. CASE b.state \in {"SYN_RECV", "SYN_SENT"}
             /\ c \in In("ESTABLISHED", {acked}) \cup In("ESTABLISHED", Sendback(acked))
    BY <1>4, <1>7, InType DEF Ends, OpenStates, States
  <1>8. CASE /\ b.state = "ESTABLISHED"
             /\ c \in filled \cup In("CLOSE_WAIT", answered)
    BY <1>2, <1>5, <1>8, InType DEF Ends, OpenStates, States
  <1> DEFINE ends == In("CLOSING", {a \in answered : a.waiting})
                     \cup In("TIME_WAIT", {a \in answered : ~a.waiting})
                     \cup In("FIN_WAIT2", idle) \cup In("TIME_WAIT", answered)
                     \cup In("TIME_WAIT", {b}) \cup In("CLOSE", {acked})
  <1>9. CASE c \in ends
    <2>1. /\ {a \in answered : a.waiting} \in SUBSET Block
          /\ {a \in answered : ~a.waiting} \in SUBSET Block
          /\ {b} \in SUBSET Block
      BY <1>2
    <2> QED BY <1>2, <1>3, <1>4, <1>9, <2>1, InType DEF Ends, OpenStates, States
  <1>10. \/ c \in {b} \cup Acked(b) \cup answered
        \/ /\ b.state \in {"SYN_RECV", "SYN_SENT"}
           /\ c \in In("ESTABLISHED", {acked}) \cup In("ESTABLISHED", Sendback(acked))
        \/ /\ b.state = "ESTABLISHED"
           /\ c \in filled \cup In("CLOSE_WAIT", answered)
        \/ c \in ends
    BY DEF OnSegment, acked, idle, answered, filled
  <1> QED BY <1>6, <1>7, <1>8, <1>9, <1>10

LEMMA TimerType ==
    ASSUME NEW b \in Block, NEW c \in OnTimer(b)
    PROVE  c \in Block /\ Ends(b, c)
  BY DEF OnTimer, Block, States, Ends, OpenStates

LEMMA SentType ==
    ASSUME NEW b \in Block, NEW n \in Nat, NEW c \in Sent(b, n)
    PROVE  c \in Block /\ Ends(b, c)
  <1>1. b.unsent \in 0..SendSlots
    BY DEF Block
  <1>2. Pushed(b, n) \in Nat /\ b.unsent + Pushed(b, n) \in 0..SendSlots
    BY <1>1 DEF Pushed
  <1> DEFINE d == [b EXCEPT !.unsent = @ + Pushed(b, n)]
  <1>3. d \in Block /\ d.state = b.state
    BY <1>2 DEF Block
  <1> HIDE DEF d
  <1>4. c \in {b} \cup Sendback(d)
    BY DEF Sent, d
  <1> QED BY <1>3, <1>4, SendbackType DEF Ends

LEMMA ReceivedType ==
    ASSUME NEW b \in Block, NEW n \in Nat
    PROVE  Received(b, n) \in Block /\ Ends(b, Received(b, n))
  <1>1. b.unread \in 0..RecvSlots
    BY DEF Block
  <1>2. b.unread - Taken(b, n) \in 0..RecvSlots
    BY <1>1 DEF Taken
  <1> QED BY <1>2 DEF Received, Block, Ends

LEMMA ClosedType ==
    ASSUME NEW b \in Block, NEW c \in Closed(b)
    PROVE  c \in Block /\ c.state \notin OpenStates
  <1> DEFINE new == CASE b.state = "SYN_SENT" -> "CLOSE"
                      [] b.state = "CLOSE_WAIT" -> "LAST_ACK"
                      [] b.state \in {"SYN_RECV", "ESTABLISHED"} -> "FIN_WAIT1"
                      [] OTHER -> b.state
             closing == [b EXCEPT !.state = new]
  <1>1. new \in States \ OpenStates
    BY DEF Block, States, OpenStates
  <1>2. closing \in Block /\ closing.state = new /\ closing.unsent = b.unsent
    BY <1>1 DEF Block
  <1>3. c = closing
        \/ /\ b.state \in {"SYN_RECV", "ESTABLISHED", "CLOSE_WAIT"}
           /\ ~CloseFails(b)
           /\ c \in Sendback([closing EXCEPT !.unsent = @ + 1])
    BY DEF Closed
  <1> HIDE DEF new, closing
  <1>4. CASE c = closing
    BY <1>1, <1>2, <1>4
  <1>5. CASE /\ b.state \in {"SYN_RECV", "ESTABLISHED", "CLOSE_WAIT"}
             /\ ~CloseFails(b)
             /\ c \in Sendback([closing EXCEPT !.unsent = @ + 1])
    <2> DEFINE d == [closing EXCEPT !.unsent = @ + 1]
    <2>1. b.unsent \in 0..SendSlots /\ b.unsent # SendSlots
      BY <1>5 DEF Block, CloseFails
    <2>2. closing.unsent + 1 \in 0..SendSlots
      BY <1>2, <2>1
    <2>3. d \in Block /\ d.state = new
      BY <1>2, <2>2 DEF Block
    <2> HIDE DEF d
    <2>4. c \in Sendback(d)
      BY <1>5 DEF d
    <2> QED BY <1>1, <2>3, <2>4, SendbackType
  <1> QED BY <1>3, <1>4, <1>5

LEMMA OpenedType ==
    ASSUME NEW passive \in BOOLEAN
    PROVE  Opened(passive) \in Block
  <1> DEFINE state == IF passive THEN "SYN_RECV" ELSE "SYN_SENT"
  <1>1. state \in States
    BY DEF States
  <1>2. NoBlock \in Block
    BY DEF NoBlock, Block, States
  <1> HIDE DEF state
  <1>3. Opened(passive) = [NoBlock EXCEPT !.state = state, !.waiting = TRUE]
    BY DEF Opened, state
  <1> QED BY <1>1, <1>2, <1>3 DEF Block

-----------------------------------------------------------------------------
(* The map of active blocks, for programs that do not call close() again.  *)

InMap(b) == active[pair[b]] = b

\* Whoever will close the block, when it has not been closed.
Wants(k, x, b) ==
    /\ Holds(k, x, b)
    /\ k = "socket" => sock[x].owner # None /\ ~ClosedBy(sock[x].owner, b)

\* A block is in the map while segments are to find it, and until its turn to
\* be closed, which takes the pair's entry out, comes.
OpenOK ==
    receiving =>
        \A b \in Blocks :
            /\ pair[b] # None /\ blk[b].state \in OpenStates => InMap(b)
            /\ \A k \in Kinds, x \in Places : Wants(k, x, b) => InMap(b)

OInv == IInv /\ OpenOK

Opens == OpenOK => OpenOK'

LEMMA OpenKept ==
    ASSUME OpenOK, UNCHANGED <<pair, active, receiving>>,
           \A b \in Blocks : Ends(blk[b], blk'[b]),
           \A b \in Blocks, k \in Kinds, x \in Places : Wants(k, x, b)' =>
              \E l \in Kinds, y \in Places : Wants(l, y, b)
    PROVE  OpenOK'
  BY DEF OpenOK, InMap, Ends

LEMMA EndsSame ==
    ASSUME UNCHANGED blk
    PROVE  \A b \in Blocks : Ends(blk[b], blk'[b])
  BY DEF Ends

LEMMA EndsOne ==
    ASSUME IInv, NEW b \in Blocks, NEW c, blk' = [blk EXCEPT ![b] = c], Ends(blk[b], c)
    PROVE  \A d \in Blocks : Ends(blk[d], blk'[d])
  BY DEF Ends, IInv, TypeOK

-----------------------------------------------------------------------------
(* Steps that leave the closing of blocks alone.                           *)

\* No thread begins, goes on with or ends the push of an orphan.
NoPush == \A a \in Actors :
             \/ at'[a] = at[a]
             \/ at[a].step \notin Pushing /\ at'[a].step \notin Pushing

\* Block b stays where it is, or goes from an accept queue or a thread that
\* looks at it to one other place.
Moves(b) ==
    \/ \A k \in Kinds, x \in Places : Holds(k, x, b)' => Holds(k, x, b)
    \/ /\ \E k \in Kinds, x \in Places : k # "socket" /\ Holds(k, x, b)
       /\ \E k \in Kinds, x \in Places :
             \A l \in Kinds, y \in Places : Holds(l, y, b)' => l = k /\ y = x

LEMMA BlocksMove ==
    ASSUME Custody, QueuesOK', NoPush,
           UNCHANGED <<pair, deleted, mapVars, orphans, recycler, exitVars>>,
           \A b \in Blocks : Moves(b)
    PROVE  Custody'
  <1> USE DEF mapVars, exitVars
  <1>1. \A a \in Actors, b \in Blocks :
           /\ ClosedBy(a, b)' <=> ClosedBy(a, b)
           /\ ClosedBy(a, b) => at'[a] = at[a]
    BY DEF NoPush, ClosedBy
  <1>2. \A b \in Blocks : /\ Given(b)' <=> Given(b)
                          /\ Gone(b)' <=> Gone(b)
                          /\ Away(b)' <=> Away(b)
    BY <1>1 DEF Given, Gone, Away
  <1>3. OneHolder'
    BY DEF OneHolder, Moves, Custody
  <1>4. MadeOK'
    BY <1>2 DEF MadeOK, Moves, Custody
  <1>5. AwayOK'
    BY <1>1, <1>2 DEF AwayOK, Moves, Custody
  <1>6. GivenOK'
    BY <1>1, <1>2 DEF GivenOK, Custody
  <1>7. GoneOK'
    BY <1>1, <1>2 DEF GoneOK, Custody
  <1>8. ToCloseOK'
    BY <1>2 DEF ToCloseOK, Custody
  <1>9. FullOK'
    BY DEF NoPush, FullOK, Custody, Pushing
  <1> QED BY <1>3, <1>4, <1>5, <1>6, <1>7, <1>8, <1>9 DEF Custody

-----------------------------------------------------------------------------
(* Steps of a thread in a call.                                            *)

\* The types of what a call changes.
CallTypes == /\ sock \in [Fds -> SocketBlock]
             /\ listening \in Fds \cup {None}
             /\ blk \in [Blocks -> Block]
             /\ at \in [Actors -> Activity]
             /\ aborted \in BOOLEAN
             /\ ended \subseteq Fds

\* Nobody but a does anything.
Only(a) == \A c \in Actors : c # a => at'[c] = at[c]

\* The descriptors of other threads are left alone.
Keeps(t) ==
    \A fd \in Fds :
        \/ sock[fd].owner \in {t, None} \/ sock[fd].state = "none"
        \/ /\ sock'[fd].state = sock[fd].state
           /\ sock'[fd].tcb = sock[fd].tcb
           /\ sock'[fd].owner = sock[fd].owner

LEMMA OtherCalls ==
    ASSUME CallsOK, NEW t, Only(t), Keeps(t), receiving' = receiving
    PROVE  \A u \in Threads : u # t => CallOK(u)'
  <1> SUFFICES ASSUME NEW u \in Threads, u # t
               PROVE  CallOK(u)'
    OBVIOUS
  <1>1. CallOK(u) /\ at'[u] = at[u] /\ u # None
    BY DEF CallsOK, Only
  <1> QED BY <1>1 DEF CallOK, Keeps, InCall, Pushing

LEMMA DoingsKept ==
    ASSUME IInv, NEW t \in Threads \cup {None}, Only(t), Keeps(t),
           UNCHANGED <<lock, recycler, exitVars>>,
           t # None => /\ at[t].step \notin Pushing /\ at'[t].step \notin Pushing
                       /\ CallOK(t)',
           SocksOK'
    PROVE  Doings'
  <1> USE DEF exitVars
  <1>1. CallsOK'
    BY OtherCalls DEF CallsOK, IInv, Doings
  <1>2. at'[Exit] = at[Exit]
    BY DEF Only
  <1>3. ExitOK' /\ RecyclerOK'
    BY <1>2 DEF IInv, Doings, ExitOK, RecyclerOK
  <1>4. LockOK'
    <2>1. t # None => CallOK(t)
      BY DEF IInv, Doings, CallsOK
    <2> QED BY <2>1 DEF IInv, Doings, LockOK, CallOK, Only
  <1> QED BY <1>1, <1>3, <1>4 DEF Doings

LEMMA CallStep ==
    ASSUME IInv, NEW t \in Threads, Only(t), Keeps(t), CallTypes',
           UNCHANGED <<pair, deleted, mapVars, orphans, lock, recycler, exitVars>>,
           at[t].step \notin Pushing, at'[t].step \notin Pushing,
           CallOK(t)', SocksOK', QueuesOK',
           \A b \in Blocks : Moves(b)
    PROVE  IInv'
  <1> USE DEF mapVars, exitVars
  <1>1. TypeOK'
    BY DEF IInv, TypeOK, CallTypes
  <1>2. NoPush
    BY DEF NoPush, Only
  <1>3. Custody'
    BY <1>2, BlocksMove DEF IInv
  <1>4. Doings'
    BY DoingsKept
  <1> QED BY <1>1, <1>3, <1>4 DEF IInv

\* A step that changes no descriptor.
LEMMA QuietStep ==
    ASSUME IInv, NEW t \in Threads, Only(t), CallTypes',
           UNCHANGED <<sock, pair, deleted, mapVars, orphans, lock, recycler,
                       exitVars>>,
           at[t].step \notin Pushing, at'[t].step \notin Pushing \cup {"look"},
           CallOK(t)'
    PROVE  IInv'
  <1>1. Keeps(t)
    BY DEF Keeps
  <1>2. SocksOK' /\ QueuesOK'
    BY DEF IInv, Doings, Custody, SocksOK, QueuesOK
  <1>3. \A b \in Blocks : Moves(b)
    BY DEF Moves, Holds, Only
  <1> QED BY <1>1, <1>2, <1>3, CallStep

\* What is known of a thread, and of its descriptor.
LEMMA Known ==
    ASSUME IInv, NEW t \in Threads
    PROVE  CallOK(t) /\ at[t] \in Activity /\ t \in Actors /\ t # Exit /\ t # None
  BY DEF IInv, Doings, CallsOK, TypeOK

LEMMA FreeKnown ==
    ASSUME IInv, NEW t \in Threads, Free(t)
    PROVE  /\ at[t].step = "idle" /\ at[t] = Idle
           /\ receiving /\ at[Exit] = Idle
  BY DEF Free, IInv, Doings, ExitOK, Idle, Doing

LEMMA Going ==
    ASSUME IInv, NEW a \in Actors, NEW now \in Activity, Goes(a, now)
    PROVE  /\ at' \in [Actors -> Activity]
           /\ at'[a] = now
           /\ Only(a)
  BY DEF IInv, TypeOK, Goes, Only

LEMMA IdleIs ==
    /\ Idle \in Activity
    /\ Idle.step = "idle" /\ Idle.fd = None /\ Idle.tcb = None /\ Idle.rest = 0
  BY DEF Idle, Doing, Activity

LEMMA DoingIs ==
    ASSUME NEW step, NEW fd \in Fds \cup {None}, NEW b \in Blocks \cup {None},
           NEW n \in Nat,
           step \in {"idle", "connect", "accept", "look", "read", "peek",
                     "write", "full", "drain", "push", "wait", "insert",
                     "closing", "join", "done"}
    PROVE  /\ Doing(step, fd, b, n) \in Activity
           /\ Doing(step, fd, b, n).step = step
           /\ Doing(step, fd, b, n).fd = fd
           /\ Doing(step, fd, b, n).tcb = b
           /\ Doing(step, fd, b, n).rest = n
  BY DEF Doing, Activity

\* A thread goes on in its call, or comes to its end.
LEMMA GoesOn ==
    ASSUME IInv, NEW t \in Threads, NEW now \in Activity, Goes(t, now),
           now.step = "idle" => now = Idle,
           now.step \in InCall \cup {"idle", "accept"},
           now.step \in InCall =>
              /\ now.fd \in Fds /\ now.tcb \in Blocks /\ receiving
              /\ sock[now.fd].owner = t /\ sock[now.fd].state = "ACTIVE"
              /\ sock[now.fd].tcb = now.tcb,
           now.step = "accept" => now.fd \in Fds /\ now.tcb = None /\ receiving,
           at[t].step \notin Pushing,
           blk' \in [Blocks -> Block], ended' \subseteq Fds,
           UNCHANGED <<sock, listening, aborted, pair, deleted, mapVars, orphans,
                       lock, recycler, exitVars>>
    PROVE  IInv'
  <1>1. at' \in [Actors -> Activity] /\ at'[t] = now /\ Only(t)
    BY Going
  <1>2. CallTypes'
    BY <1>1 DEF CallTypes, IInv, TypeOK
  <1>3. CallOK(t)'
    BY <1>1 DEF CallOK, InCall, Pushing, exitVars
  <1> QED BY <1>1, <1>2, <1>3, QuietStep DEF InCall, Pushing

\* Steps that change no descriptor.
LEMMA QuietOpen ==
    ASSUME OInv, NEW a \in Actors \cup {None}, Only(a),
           UNCHANGED <<sock, pair, active, receiving>>,
           \A b \in Blocks : Ends(blk[b], blk'[b]),
           a # None =>
              \/ at[a].step \notin Pushing /\ at'[a].step # "look"
              \/ at[a].step \in Pushing /\ at'[a].step \in Pushing
                 /\ at'[a].tcb = at[a].tcb
    PROVE  OpenOK'
  <1>1. \A t \in Threads : at'[t] # at[t] => t = a
    BY DEF Only
  <1>2. \A b \in Blocks, t \in Threads : ClosedBy(t, b) => ClosedBy(t, b)'
    BY <1>1 DEF ClosedBy
  <1>3. ASSUME NEW b \in Blocks, NEW k \in Kinds, NEW x \in Places, Wants(k, x, b)'
        PROVE  Wants(k, x, b)
    <2>1. Holds(k, x, b)
      BY <1>1, <1>3 DEF Wants, Holds, Pushing
    <2>2. ASSUME k = "socket"
          PROVE  sock[x].owner # None /\ ~ClosedBy(sock[x].owner, b)
      <3>1. x \in Fds /\ sock[x].owner # None /\ ~ClosedBy(sock[x].owner, b)'
        BY <1>3, <2>2 DEF Wants, Holds
      <3>2. sock[x].owner \in Threads
        BY <3>1 DEF OInv, IInv, TypeOK, SocketBlock
      <3> QED BY <1>2, <3>1, <3>2
    <2> QED BY <2>1, <2>2 DEF Wants
  <1> QED BY <1>3, OpenKept DEF OInv

LEMMA GoesOnOpen ==
    ASSUME OInv, NEW t \in Threads, NEW now, Goes(t, now),
           now.step # "look", at[t].step \notin Pushing,
           UNCHANGED <<sock, pair, active, receiving>>,
           \A b \in Blocks : Ends(blk[b], blk'[b])
    PROVE  OpenOK'
  <1>1. Only(t) /\ at'[t] = now
    BY DEF OInv, IInv, TypeOK, Goes, Only
  <1> QED BY <1>1, QuietOpen

LEMMA ConnectedOK ==
    ASSUME IInv, NEW t \in Threads, Connected(t)
    PROVE  IInv'
  <1>1. UNCHANGED <<sock, listening, aborted, ended, blk, pair, deleted, mapVars,
                    orphans, lock, recycler, exitVars>>
        /\ Goes(t, Idle) /\ at[t].step = "connect"
    BY DEF Connected, socketVars, tcpVars, blockVars
  <1> QED BY <1>1, IdleIs, GoesOn DEF InCall, Pushing, IInv, TypeOK

LEMMA AcceptOK ==
    ASSUME IInv, NEW t \in Threads, NEW fd \in Fds, Accept(t, fd)
    PROVE  IInv'
  <1> DEFINE now == Doing("accept", fd, None, 0)
  <1>1. UNCHANGED <<sock, listening, aborted, ended, blk, pair, deleted, mapVars,
                    orphans, lock, recycler, exitVars>>
        /\ Goes(t, now) /\ Free(t)
    BY DEF Accept, socketVars, tcpVars, blockVars
  <1>2. now \in Activity /\ now.step = "accept" /\ now.fd = fd /\ now.tcb = None
    BY DEF Doing, Activity
  <1> HIDE DEF now
  <1>3. /\ at[t].step = "idle" /\ receiving
        /\ blk' \in [Blocks -> Block] /\ ended' \subseteq Fds
    BY <1>1, FreeKnown DEF IInv, TypeOK
  <1> QED BY <1>1, <1>2, <1>3, GoesOn DEF InCall, Pushing

\* tcp_receive and what read() does with its result.
LEMMA ReceiveOK ==
    ASSUME IInv, NEW t \in Threads, NEW fd \in Fds, NEW b \in Blocks, NEW n \in Nat,
           Receive(t, fd, b, n), receiving, at[t].step \notin Pushing,
           sock[fd].owner = t, sock[fd].state = "ACTIVE", sock[fd].tcb = b
    PROVE  IInv'
  <1> DEFINE peek == Doing("peek", fd, b, n)
             now == IF Taken(blk[b], n) > 0 THEN Idle ELSE peek
  <1>1. UNCHANGED <<sock, listening, aborted, ended, pair, deleted, mapVars,
                    orphans, lock, recycler, exitVars>>
        /\ Goes(t, now) /\ Block_(b, Received(blk[b], n))
    BY DEF Receive, socketVars
  <1>2. peek \in Activity /\ peek.step = "peek" /\ peek.fd = fd /\ peek.tcb = b
    BY DoingIs
  <1> HIDE DEF peek
  <1>3. now = Idle \/ now = peek
    OBVIOUS
  <1> HIDE DEF now
  <1>4. blk[b] \in Block /\ blk \in [Blocks -> Block]
    BY DEF IInv, TypeOK
  <1>5. blk' \in [Blocks -> Block]
    BY <1>1, <1>4, ReceivedType DEF Block_
  <1> QED BY <1>1, <1>2, <1>3, <1>5, IdleIs, GoesOn DEF InCall, Pushing, IInv, TypeOK

LEMMA ReadOK ==
    ASSUME IInv, NEW t \in Threads, NEW fd \in Fds, Read(t, fd)
    PROVE  IInv'
  <1>1. /\ Free(t) /\ sock[fd].owner = t /\ sock[fd].state = "ACTIVE"
        /\ Receive(t, fd, sock[fd].tcb, 1)
    BY DEF Read, Calls
  <1>2. sock[fd].tcb \in Blocks /\ 1 \in Nat
    BY <1>1, Known DEF IInv, Doings, SocksOK
  <1>3. receiving /\ at[t].step \notin Pushing
    BY <1>1, FreeKnown DEF Pushing
  <1> QED BY <1>1, <1>2, <1>3, ReceiveOK

LEMMA ReadAgainOK ==
    ASSUME IInv, NEW t \in Threads, ReadAgain(t)
    PROVE  IInv'
  <1>1. at[t].step = "read" /\ Receive(t, at[t].fd, at[t].tcb, at[t].rest)
    BY DEF ReadAgain
  <1>2. /\ at[t].fd \in Fds /\ at[t].tcb \in Blocks /\ at[t].rest \in Nat
        /\ receiving /\ at[t].step \notin Pushing
        /\ sock[at[t].fd].owner = t /\ sock[at[t].fd].state = "ACTIVE"
        /\ sock[at[t].fd].tcb = at[t].tcb
    BY <1>1, Known DEF CallOK, InCall, Pushing, Activity
  <1> QED BY <1>1, <1>2, ReceiveOK

LEMMA ReadStateOK ==
    ASSUME IInv, NEW t \in Threads, ReadState(t)
    PROVE  IInv'
  <1> DEFINE read == [at[t] EXCEPT !.step = "read"]
  <1>1. /\ UNCHANGED <<sock, listening, aborted, blk, pair, deleted, mapVars,
                       orphans, lock, recycler, exitVars>>
        /\ at[t].step = "peek"
        /\ \/ Goes(t, Idle) /\ ended' = ended \cup {at[t].fd}
           \/ Goes(t, read) /\ ended' = ended
    BY DEF ReadState, tcpVars, blockVars
  <1>2. /\ at[t] \in Activity /\ at[t].fd \in Fds /\ at[t].tcb \in Blocks
        /\ receiving /\ sock[at[t].fd].owner = t
        /\ sock[at[t].fd].state = "ACTIVE" /\ sock[at[t].fd].tcb = at[t].tcb
    BY <1>1, Known DEF CallOK, InCall
  <1>3. /\ read \in Activity /\ read.step = "read"
        /\ read.fd = at[t].fd /\ read.tcb = at[t].tcb
    BY <1>2 DEF Activity
  <1> HIDE DEF read
  <1>4. blk' \in [Blocks -> Block] /\ ended' \subseteq Fds
    BY <1>1, <1>2 DEF IInv, TypeOK
  <1> QED BY <1>1, <1>2, <1>3, <1>4, IdleIs, GoesOn DEF InCall, Pushing

\* tcp_send and what write() does with its result.
LEMMA SendOK ==
    ASSUME IInv, NEW t \in Threads, NEW fd \in Fds, NEW b \in Blocks, NEW n \in Nat,
           Send(t, fd, b, n), receiving, at[t].step \notin Pushing,
           sock[fd].owner = t, sock[fd].state = "ACTIVE", sock[fd].tcb = b
    PROVE  IInv'
  <1> DEFINE use == Pushed(blk[b], n)
             now == IF blk[b].state # "ESTABLISHED" THEN Idle
                    ELSE CASE use = n -> Idle
                           [] use = 0 /\ n # 0 -> Doing("full", fd, b, n)
                           [] OTHER -> Doing("write", fd, b, n - use)
  <1>1. UNCHANGED <<sock, listening, aborted, ended, pair, deleted, mapVars,
                    orphans, lock, recycler, exitVars>>
        /\ Goes(t, now)
        /\ \/ blk' = blk
           \/ \E becomes \in Sent(blk[b], n) : Block_(b, becomes)
    BY DEF Send, socketVars
  <1>2. blk[b] \in Block /\ blk \in [Blocks -> Block]
    BY DEF IInv, TypeOK
  <1>3. blk' \in [Blocks -> Block]
    BY <1>1, <1>2, SentType DEF Block_
  <1>4. use \in 0..n
    <2>1. blk[b].unsent \in 0..SendSlots
      BY <1>2 DEF Block
    <2> QED BY <2>1 DEF Pushed
  <1>5. n - use \in Nat
    BY <1>4
  <1>6. /\ Doing("full", fd, b, n) \in Activity
        /\ Doing("write", fd, b, n - use) \in Activity
    BY <1>5 DEF Doing, Activity
  <1>7. \/ now = Idle
        \/ now = Doing("full", fd, b, n)
        \/ now = Doing("write", fd, b, n - use)
    OBVIOUS
  <1> HIDE DEF now, use
  <1>8. /\ now \in Activity
        /\ \/ now = Idle
           \/ now.step \in {"full", "write"} /\ now.fd = fd /\ now.tcb = b
    BY <1>6, <1>7, IdleIs DEF Doing
  <1>9. ended' \subseteq Fds
    BY <1>1 DEF IInv, TypeOK
  <1> QED BY <1>1, <1>3, <1>8, <1>9, IdleIs, GoesOn DEF InCall, Pushing

LEMMA WriteOK ==
    ASSUME IInv, NEW t \in Threads, NEW fd \in Fds, NEW n \in 0..MaxWrite,
           Write(t, fd, n)
    PROVE  IInv'
  <1>1. /\ Free(t) /\ sock[fd].owner = t /\ sock[fd].state = "ACTIVE"
        /\ Send(t, fd, sock[fd].tcb, n)
    BY DEF Write, Calls
  <1>2. sock[fd].tcb \in Blocks /\ n \in Nat
    BY <1>1, Known DEF IInv, Doings, SocksOK
  <1>3. receiving /\ at[t].step \notin Pushing
    BY <1>1, FreeKnown DEF Pushing
  <1> QED BY <1>1, <1>2, <1>3, SendOK

LEMMA WriteAgainOK ==
    ASSUME IInv, NEW t \in Threads, WriteAgain(t)
    PROVE  IInv'
  <1>1. at[t].step = "write" /\ Send(t, at[t].fd, at[t].tcb, at[t].rest)
    BY DEF WriteAgain
  <1>2. /\ at[t].fd \in Fds /\ at[t].tcb \in Blocks /\ at[t].rest \in Nat
        /\ receiving /\ at[t].step \notin Pushing
        /\ sock[at[t].fd].owner = t /\ sock[at[t].fd].state = "ACTIVE"
        /\ sock[at[t].fd].tcb = at[t].tcb
    BY <1>1, Known DEF CallOK, InCall, Pushing, Activity
  <1> QED BY <1>1, <1>2, SendOK

LEMMA WriteStateOK ==
    ASSUME IInv, NEW t \in Threads, WriteState(t)
    PROVE  IInv'
  <1> DEFINE write == [at[t] EXCEPT !.step = "write"]
  <1>1. /\ UNCHANGED <<sock, listening, aborted, ended, blk, pair, deleted,
                       mapVars, orphans, lock, recycler, exitVars>>
        /\ at[t].step = "full"
        /\ Goes(t, Idle) \/ Goes(t, write)
    BY DEF WriteState, tcpVars, blockVars, socketVars
  <1>2. /\ at[t] \in Activity /\ at[t].fd \in Fds /\ at[t].tcb \in Blocks
        /\ receiving /\ sock[at[t].fd].owner = t
        /\ sock[at[t].fd].state = "ACTIVE" /\ sock[at[t].fd].tcb = at[t].tcb
    BY <1>1, Known DEF CallOK, InCall
  <1>3. /\ write \in Activity /\ write.step = "write"
        /\ write.fd = at[t].fd /\ write.tcb = at[t].tcb
    BY <1>2 DEF Activity
  <1> HIDE DEF write
  <1>4. blk' \in [Blocks -> Block] /\ ended' \subseteq Fds
    BY <1>1 DEF IInv, TypeOK
  <1> QED BY <1>1, <1>2, <1>3, <1>4, IdleIs, GoesOn DEF InCall, Pushing

\* A descriptor that is left alone wants its block as before.
LEMMA SocketWants ==
    ASSUME IInv, NEW t, Only(t), t \in Actors => at[t].step \notin Pushing,
           NEW x \in Fds, NEW b \in Blocks, Wants("socket", x, b)',
           sock'[x].state = sock[x].state, sock'[x].tcb = sock[x].tcb,
           sock'[x].owner = sock[x].owner
    PROVE  Wants("socket", x, b)
  <1>1. sock[x].owner \in Threads
    BY DEF Wants, IInv, TypeOK, SocketBlock
  <1>2. \A a \in Actors : ClosedBy(a, b) => ClosedBy(a, b)'
    BY DEF ClosedBy, Only
  <1> QED BY <1>1, <1>2 DEF Wants, Holds

\* A step after which the thread is idle, and one of its descriptors, or an
\* unused one, has become new; its block is the one it had, if any.
LEMMA SockStep ==
    ASSUME IInv, NEW t \in Threads, NEW fd \in Fds, NEW new \in SocketBlock,
           sock' = [sock EXCEPT ![fd] = new],
           sock[fd].owner = t \/ sock[fd].state = "none",
           new.accepting \in {sock[fd].accepting, <<>>},
           new.state = "ACTIVE" => new.owner = None /\ new.tcb = None,
           new.state = "DEFAULT" => new.tcb = None,
           Goes(t, Idle), at[t].step \notin Pushing,
           listening' \in Fds \cup {None},
           UNCHANGED <<aborted, ended, blk, pair, deleted, mapVars, orphans,
                       lock, recycler, exitVars>>
    PROVE  IInv' /\ Opens
  <1>1. at' \in [Actors -> Activity] /\ at'[t] = Idle /\ Only(t)
    BY Going, IdleIs
  <1>2. /\ sock \in [Fds -> SocketBlock]
        /\ \A x \in Fds : sock'[x] = IF x = fd THEN new ELSE sock[x]
        /\ sock' \in [Fds -> SocketBlock]
    BY DEF IInv, TypeOK
  <1>3. CallTypes'
    BY <1>1, <1>2 DEF CallTypes, IInv, TypeOK
  <1>4. Keeps(t)
    BY <1>2 DEF Keeps
  <1>5. SocksOK'
    BY <1>2 DEF IInv, Doings, SocksOK
  <1>6. QueuesOK'
    <2>1. Distinct(<<>>)
      BY DEF Distinct
    <2> QED BY <1>2, <2>1 DEF IInv, Custody, QueuesOK
  <1>7. ASSUME NEW b \in Blocks, NEW k \in Kinds, NEW x \in Places,
               Holds(k, x, b)'
        PROVE  Holds(k, x, b) /\ ~(k = "socket" /\ x = fd /\ sock'[x].owner # None)
    <2>1. Items(<<>>) = {} /\ None \notin Blocks
      BY DEF Items
    <2>2. CASE k = "socket"
      BY <1>2, <1>7, <2>1, <2>2 DEF Holds
    <2>3. CASE k = "thread"
      BY <1>1, <1>7, <2>3, IdleIs DEF Holds, Only
    <2>4. CASE k = "queue"
      BY <1>2, <1>7, <2>1, <2>4 DEF Holds
    <2> QED BY <2>2, <2>3, <2>4 DEF Kinds
  <1>8. CallOK(t)'
    BY <1>1, IdleIs DEF CallOK, InCall, Pushing
  <1>9. IInv'
    <2>1. \A b \in Blocks : Moves(b)
      BY <1>7 DEF Moves
    <2> QED BY <1>1, <1>3, <1>4, <1>5, <1>6, <1>8, <2>1, IdleIs, CallStep DEF Pushing
  <1>10. Opens
    <2>1. ASSUME NEW b \in Blocks, NEW k \in Kinds, NEW x \in Places,
                 Wants(k, x, b)'
          PROVE  Wants(k, x, b)
      <3>1. Holds(k, x, b) /\ ~(k = "socket" /\ x = fd)
        BY <1>7, <2>1 DEF Wants
      <3>2. CASE k = "socket"
        <4>1. x \in Fds /\ x # fd
          BY <3>1, <3>2 DEF Holds
        <4> QED BY <1>1, <1>2, <2>1, <3>2, <4>1, SocketWants
      <3>3. CASE k # "socket"
        BY <3>1, <3>3 DEF Wants
      <3> QED BY <3>2, <3>3
    <2>2. UNCHANGED <<pair, active, receiving>>
      BY DEF mapVars, exitVars
    <2> QED BY <2>1, <2>2, EndsSame, OpenKept DEF Opens
  <1> QED BY <1>9, <1>10

LEMMA StaysIdle ==
    ASSUME IInv, NEW t \in Threads, Free(t), UNCHANGED at
    PROVE  Goes(t, Idle) /\ at[t].step \notin Pushing
  BY FreeKnown DEF IInv, TypeOK, Goes, Pushing

LEMMA SocketOK ==
    ASSUME IInv, NEW t \in Threads, Socket(t)
    PROVE  IInv' /\ Opens
  <1> DEFINE new == [NoSocket EXCEPT !.state = "DEFAULT", !.owner = t]
  <1>1. PICK fd \in Unused : sock' = [sock EXCEPT ![fd] = new]
    BY DEF Socket
  <1>2. UNCHANGED <<listening, aborted, ended, blk, pair, deleted, mapVars,
                    orphans, lock, recycler, exitVars, at>>
        /\ Free(t)
    BY DEF Socket, tcpVars, blockVars
  <1>3. fd \in Fds /\ sock[fd].state = "none"
    BY DEF Unused
  <1>4. /\ new \in SocketBlock /\ new.state = "DEFAULT" /\ new.tcb = None
        /\ new.accepting = <<>>
    <2>1. <<>> \in Seq(Blocks)
      BY EmptySeq
    <2> QED BY <2>1 DEF NoSocket, SocketBlock
  <1> HIDE DEF new
  <1>5. listening' \in Fds \cup {None}
    BY <1>2 DEF IInv, TypeOK
  <1> QED BY <1>1, <1>2, <1>3, <1>4, <1>5, StaysIdle, SockStep

LEMMA BindOK ==
    ASSUME IInv, NEW t \in Threads, NEW fd \in Fds, Bind(t, fd)
    PROVE  IInv' /\ Opens
  <1> DEFINE new == [sock[fd] EXCEPT !.state = "BINDED"]
  <1>1. /\ UNCHANGED <<listening, aborted, ended, blk, pair, deleted, mapVars,
                       orphans, lock, recycler, exitVars, at>>
        /\ Free(t) /\ sock[fd].owner = t
        /\ sock' = [sock EXCEPT ![fd] = new]
    BY DEF Bind, Calls, tcpVars, blockVars
  <1>2. sock[fd] \in SocketBlock
    BY DEF IInv, TypeOK
  <1>3. /\ new \in SocketBlock /\ new.state = "BINDED"
        /\ new.accepting = sock[fd].accepting
    BY <1>2 DEF SocketBlock
  <1> HIDE DEF new
  <1>4. listening' \in Fds \cup {None}
    BY <1>1 DEF IInv, TypeOK
  <1> QED BY <1>1, <1>3, <1>4, StaysIdle, SockStep

LEMMA ListenOK ==
    ASSUME IInv, NEW t \in Threads, NEW fd \in Fds, Listen(t, fd)
    PROVE  IInv' /\ Opens
  <1> DEFINE owner == IF listening = None THEN t ELSE None
             new == [sock[fd] EXCEPT !.state = "LISTENING", !.owner = owner]
  <1>1. /\ UNCHANGED <<aborted, ended, blk, pair, deleted, mapVars,
                       orphans, lock, recycler, exitVars, at>>
        /\ Free(t) /\ sock[fd].owner = t
        /\ listening' = Registering(fd)
    BY DEF Listen, Calls, tcpVars, blockVars
  <1>2. sock' = [sock EXCEPT ![fd] = new]
    BY DEF Listen, IInv, TypeOK
  <1>3. owner \in Threads \cup {None}
    OBVIOUS
  <1> HIDE DEF owner
  <1>4. sock[fd] \in SocketBlock
    BY DEF IInv, TypeOK
  <1>5. /\ new \in SocketBlock /\ new.state = "LISTENING"
        /\ new.accepting = sock[fd].accepting
    BY <1>4, <1>3 DEF SocketBlock
  <1> HIDE DEF new
  <1>6. listening' \in Fds \cup {None}
    BY <1>1 DEF IInv, TypeOK, Registering
  <1> QED BY <1>1, <1>2, <1>5, <1>6, StaysIdle, SockStep

-----------------------------------------------------------------------------
(* A new block.                                                            *)

LEMMA OpenCustody ==
    ASSUME Custody, TypeOK, QueuesOK', NoPush,
           NEW b \in Blocks, NEW p \in Pairs,
           pair[b] = None, ~PairTaken(p), toClose = {},
           pair' = [pair EXCEPT ![b] = p],
           active' = [active EXCEPT ![p] = b],
           UNCHANGED <<deleted, orphaned, orphans, recycler, exitVars>>,
           \A c \in Blocks : c # b =>
              \A k \in Kinds, x \in Places : Holds(k, x, c)' => Holds(k, x, c),
           \E k \in Kinds, x \in Places :
              \A l \in Kinds, y \in Places : Holds(l, y, b)' => l = k /\ y = x
    PROVE  Custody'
  <1> USE DEF exitVars
  <1>1. \A a \in Actors, c \in Blocks :
           /\ ClosedBy(a, c)' <=> ClosedBy(a, c)
           /\ ClosedBy(a, c) => at'[a] = at[a]
    BY DEF NoPush, ClosedBy
  <1>2. \A c \in Blocks : /\ Given(c)' <=> Given(c)
                          /\ Gone(c)' <=> Gone(c)
                          /\ Away(c)' <=> Away(c)
    BY <1>1 DEF Given, Gone, Away
  <1>3. /\ \A c \in Blocks : pair'[c] = IF c = b THEN p ELSE pair[c]
        /\ \A q \in Pairs : active'[q] = IF q = p THEN b ELSE active[q]
        /\ p # None /\ b # None
    BY DEF TypeOK
  <1>4. ~Away(b)
    BY DEF Custody, MadeOK
  <1>5. /\ \A q \in Pairs : /\ active[q] # b /\ orphaned[q] # b
                            /\ active[q] \in Blocks \cup {None}
                            /\ orphaned[q] \in Blocks \cup {None}
    BY <1>3 DEF Custody, MadeOK, TypeOK
  <1>6. OneHolder'
    <2> SUFFICES ASSUME NEW c \in Blocks, NEW k \in Kinds, NEW l \in Kinds,
                        NEW x \in Places, NEW y \in Places,
                        Holds(k, x, c)', Holds(l, y, c)'
                 PROVE  k = l /\ x = y
      BY DEF OneHolder
    <2>1. CASE c = b
      BY <2>1
    <2>2. CASE c # b
      BY <2>2 DEF OneHolder, Custody
    <2> QED BY <2>1, <2>2
  <1>7. MadeOK'
    <2>1. \A c \in Blocks : Away(c)' => pair'[c] # None
      BY <1>2, <1>3 DEF MadeOK, Custody
    <2>2. \A c \in Blocks, k \in Kinds, x \in Places :
             Holds(k, x, c)' => pair'[c] # None
      BY <1>3 DEF MadeOK, Custody
    <2>3. \A q \in Pairs : /\ active'[q] # None => pair'[active'[q]] = q
                           /\ orphaned[q] # None => pair'[orphaned[q]] = q
      BY <1>3, <1>5 DEF MadeOK, Custody
    <2> QED BY <2>1, <2>2, <2>3 DEF MadeOK
  <1>8. AwayOK'
    <2> SUFFICES ASSUME receiving, NEW c \in Blocks, Away(c), c # b
                 PROVE  /\ \A q \in Pairs : active'[q] # c
                        /\ \A k \in Kinds, x \in Places : Holds(k, x, c)' =>
                              /\ k = "socket"
                              /\ \E t \in Threads : ClosedBy(t, c)' /\ at'[t].fd = x
      BY <1>2, <1>4 DEF AwayOK
    <2>1. /\ \A q \in Pairs : active[q] # c
          /\ \A k \in Kinds, x \in Places : Holds(k, x, c) =>
                /\ k = "socket"
                /\ \E t \in Threads : ClosedBy(t, c) /\ at[t].fd = x
      BY DEF Custody, AwayOK
    <2> QED BY <1>1, <1>3, <2>1
  <1>9. GivenOK'
    BY <1>1, <1>2 DEF GivenOK, Custody
  <1>10. GoneOK'
    BY <1>1, <1>2 DEF GoneOK, Custody
  <1>11. ToCloseOK'
    BY DEF ToCloseOK
  <1>12. FullOK'
    BY DEF NoPush, FullOK, Custody, Pushing
  <1> QED BY <1>6, <1>7, <1>8, <1>9, <1>10, <1>11, <1>12 DEF Custody

LEMMA OpenTypes ==
    ASSUME TypeOK, NEW b \in Unmade, NEW p \in Pairs, NEW passive \in BOOLEAN,
           Open(b, p, passive)
    PROVE  /\ b \in Blocks /\ pair[b] = None
           /\ blk' \in [Blocks -> Block]
           /\ \A c \in Blocks : c # b => blk'[c] = blk[c]
           /\ pair' = [pair EXCEPT ![b] = p]
           /\ pair' \in [Blocks -> Pairs \cup {None}]
           /\ active' = [active EXCEPT ![p] = b]
           /\ active' \in [Pairs -> Blocks \cup {None}]
           /\ UNCHANGED <<deleted, orphaned, orphans, lock>>
  <1>1. b \in Blocks /\ pair[b] = None
    BY DEF Unmade
  <1>2. /\ pair' = [pair EXCEPT ![b] = p] /\ active' = [active EXCEPT ![p] = b]
        /\ UNCHANGED <<deleted, orphaned, orphans, lock>>
        /\ blk' = [blk EXCEPT ![b] = Opened(passive)]
    BY DEF Open, Block_
  <1> QED BY <1>1, <1>2, OpenedType DEF TypeOK

\* The new block has the pair's entry, which no other had.
LEMMA OpenOpens ==
    ASSUME IInv, NEW b \in Blocks, NEW p \in Pairs,
           ~PairTaken(p), pair' = [pair EXCEPT ![b] = p],
           active' = [active EXCEPT ![p] = b], UNCHANGED exitVars,
           \A c \in Blocks : c # b => blk'[c] = blk[c],
           \A c \in Blocks, k \in Kinds, x \in Places :
              c # b /\ Wants(k, x, c)' => Wants(k, x, c)
    PROVE  Opens
  <1>1. /\ \A c \in Blocks : pair'[c] = IF c = b THEN p ELSE pair[c]
        /\ \A q \in Pairs : active'[q] = IF q = p THEN b ELSE active[q]
        /\ active[p] = None /\ pair \in [Blocks -> Pairs \cup {None}]
    BY DEF IInv, TypeOK, PairTaken
  <1>2. InMap(b)'
    BY <1>1 DEF InMap
  <1>3. ASSUME NEW c \in Blocks, c # b, pair[c] # None, InMap(c)
        PROVE  InMap(c)'
    BY <1>1, <1>3 DEF InMap
  <1>4. \A c \in Blocks, k \in Kinds, x \in Places : Wants(k, x, c) => pair[c] # None
    BY DEF Wants, IInv, Custody, MadeOK
  <1> SUFFICES ASSUME OpenOK, receiving, NEW c \in Blocks, c # b
               PROVE  /\ pair'[c] # None /\ blk'[c].state \in OpenStates => InMap(c)'
                      /\ \A k \in Kinds, x \in Places : Wants(k, x, c)' => InMap(c)'
    BY <1>2 DEF Opens, OpenOK, exitVars
  <1>5. ASSUME pair'[c] # None, blk'[c].state \in OpenStates
        PROVE  InMap(c)'
    BY <1>1, <1>3, <1>5 DEF OpenOK
  <1>6. ASSUME NEW k \in Kinds, NEW x \in Places, Wants(k, x, c)'
        PROVE  InMap(c)'
    BY <1>3, <1>4, <1>6 DEF OpenOK
  <1> QED BY <1>5, <1>6

LEMMA ConnectOK ==
    ASSUME IInv, NEW t \in Threads, NEW fd \in Fds, Connect(t, fd)
    PROVE  IInv' /\ Opens
  <1>1. /\ Free(t) /\ sock[fd].owner = t /\ sock[fd].state = "DEFAULT"
        /\ sock[fd] \in SocketBlock /\ sock \in [Fds -> SocketBlock]
        /\ UNCHANGED <<listening, aborted, ended, recycler, exitVars>>
    BY DEF Connect, Calls, IInv, TypeOK
  <1>2. /\ sock[fd].tcb = None /\ at[t].step = "idle"
        /\ receiving /\ toClose = {}
    BY <1>1, FreeKnown DEF IInv, Doings, SocksOK, ExitOK
  <1>3. PICK p \in Outbound :
          \/ /\ sock' = [sock EXCEPT ![fd].state = "ACTIVE", ![fd].owner = None]
             /\ UNCHANGED <<tcpVars, at>>
          \/ /\ ~PairTaken(p)
             /\ \E b \in Unmade :
                  /\ Open(b, p, FALSE)
                  /\ sock' = [sock EXCEPT ![fd].state = "ACTIVE", ![fd].tcb = b]
                  /\ Goes(t, Doing("connect", fd, b, 0))
    BY DEF Connect
  <1>4. CASE /\ sock' = [sock EXCEPT ![fd].state = "ACTIVE", ![fd].owner = None]
             /\ UNCHANGED <<tcpVars, at>>
    <2> DEFINE new == [sock[fd] EXCEPT !.state = "ACTIVE", !.owner = None]
    <2>1. sock' = [sock EXCEPT ![fd] = new]
      BY <1>1, <1>4
    <2>2. /\ new \in SocketBlock /\ new.state = "ACTIVE" /\ new.tcb = None
          /\ new.owner = None /\ new.accepting = sock[fd].accepting
      BY <1>1, <1>2 DEF SocketBlock
    <2> HIDE DEF new
    <2>3. UNCHANGED <<blk, pair, deleted, mapVars, orphans, lock>>
      BY <1>4 DEF tcpVars, blockVars
    <2>4. listening' \in Fds \cup {None}
      BY <1>1 DEF IInv, TypeOK
    <2>5. Goes(t, Idle) /\ at[t].step \notin Pushing
      BY <1>1, <1>4, StaysIdle
    <2> QED BY <1>1, <2>1, <2>2, <2>3, <2>4, <2>5, SockStep
  <1>5. CASE /\ ~PairTaken(p)
             /\ \E b \in Unmade :
                  /\ Open(b, p, FALSE)
                  /\ sock' = [sock EXCEPT ![fd].state = "ACTIVE", ![fd].tcb = b]
                  /\ Goes(t, Doing("connect", fd, b, 0))
    <2>1. PICK b \in Unmade :
             /\ Open(b, p, FALSE)
             /\ sock' = [sock EXCEPT ![fd].state = "ACTIVE", ![fd].tcb = b]
             /\ Goes(t, Doing("connect", fd, b, 0))
      BY <1>5
    <2> DEFINE now == Doing("connect", fd, b, 0)
               new == [sock[fd] EXCEPT !.state = "ACTIVE", !.tcb = b]
    <2>2. /\ b \in Blocks /\ pair[b] = None /\ b # None
          /\ blk' \in [Blocks -> Block]
          /\ \A c \in Blocks : c # b => blk'[c] = blk[c]
          /\ pair' = [pair EXCEPT ![b] = p]
          /\ pair' \in [Blocks -> Pairs \cup {None}]
          /\ active' = [active EXCEPT ![p] = b]
          /\ active' \in [Pairs -> Blocks \cup {None}]
          /\ UNCHANGED <<deleted, orphaned, orphans, lock>>
      BY <2>1, OpenTypes, ZenonT(60) DEF IInv
    <2>3. now \in Activity /\ now.step = "connect" /\ now.fd = fd /\ now.tcb = b
      BY <2>2 DEF Doing, Activity
    <2>4. /\ new \in SocketBlock /\ new.state = "ACTIVE" /\ new.tcb = b
          /\ new.accepting = sock[fd].accepting /\ new.owner = t
      BY <1>1, <2>2 DEF SocketBlock
    <2>5. sock' = [sock EXCEPT ![fd] = new]
      BY <1>1, <2>1
    <2>6. at' \in [Actors -> Activity] /\ at'[t] = now /\ Only(t)
      BY <2>1, <2>3, Going
    <2> HIDE DEF now, new
    <2>7. /\ \A x \in Fds : sock'[x] = IF x = fd THEN new ELSE sock[x]
          /\ sock' \in [Fds -> SocketBlock]
      BY <1>1, <2>4, <2>5
    <2>8. TypeOK'
      BY <1>1, <2>2, <2>6, <2>7 DEF IInv, TypeOK, exitVars
    <2>9. Doings'
      <3>1. Keeps(t)
        BY <1>1, <2>7 DEF Keeps
      <3>2. CallOK(t)'
        BY <1>1, <1>2, <2>2, <2>3, <2>4, <2>6, <2>7
           DEF CallOK, InCall, Pushing, exitVars
      <3>3. SocksOK'
        BY <2>2, <2>4, <2>7 DEF IInv, Doings, SocksOK
      <3> QED BY <1>1, <1>2, <2>2, <2>3, <2>6, <3>1, <3>2, <3>3, DoingsKept
              DEF Pushing
    <2>10. ASSUME NEW c \in Blocks, NEW k \in Kinds, NEW x \in Places,
                  Holds(k, x, c)'
           PROVE  Holds(k, x, c) \/ (c = b /\ k = "socket" /\ x = fd)
      <3>1. CASE k = "socket"
        BY <2>4, <2>7, <2>10, <3>1 DEF Holds
      <3>2. CASE k = "thread"
        BY <2>3, <2>6, <2>10, <3>2 DEF Holds, Only
      <3>3. CASE k = "queue"
        BY <2>4, <2>7, <2>10, <3>3 DEF Holds
      <3> QED BY <3>1, <3>2, <3>3 DEF Kinds
    <2>11. Custody'
      <3>1. NoPush
        BY <1>2, <2>3, <2>6 DEF NoPush, Only, Pushing
      <3>2. QueuesOK'
        BY <2>4, <2>7 DEF IInv, Custody, QueuesOK
      <3>3. \A k \in Kinds, x \in Places : ~Holds(k, x, b)
        BY <2>2 DEF IInv, Custody, MadeOK
      <3>4. \E k \in Kinds, x \in Places :
               \A l \in Kinds, y \in Places : Holds(l, y, b)' => l = k /\ y = x
        <4>1. "socket" \in Kinds /\ fd \in Places
          BY DEF Kinds, Places
        <4> QED BY <2>2, <2>10, <3>3, <4>1
      <3> QED BY <1>1, <1>2, <1>5, <2>2, <2>10, <3>1, <3>2, <3>4, OpenCustody DEF IInv
    <2>12. Opens
      <3>1. ASSUME NEW c \in Blocks, NEW k \in Kinds, NEW x \in Places,
                   c # b, Wants(k, x, c)'
            PROVE  Wants(k, x, c)
        <4>1. Holds(k, x, c)'
          BY <3>1 DEF Wants
        <4>2. CASE k = "socket"
          <5>1. x \in Fds /\ x # fd
            BY <2>4, <2>7, <3>1, <4>1, <4>2 DEF Holds
          <5> QED BY <1>2, <2>6, <2>7, <3>1, <4>2, <5>1, SocketWants DEF Pushing
        <4>3. CASE k # "socket"
          BY <2>10, <3>1, <4>1, <4>3 DEF Wants
        <4> QED BY <4>2, <4>3
      <3> QED BY <1>1, <1>5, <2>2, <3>1, OpenOpens
    <2> QED BY <2>8, <2>9, <2>11, <2>12 DEF IInv
  <1> QED BY <1>3, <1>4, <1>5

LEMMA ReceiveSynOK ==
    ASSUME IInv, ReceiveSyn
    PROVE  IInv' /\ Opens
  <1>1. /\ UNCHANGED <<listening, aborted, ended, at, recycler, exitVars>>
        /\ listening \in Fds /\ receiving /\ toClose = {}
        /\ sock \in [Fds -> SocketBlock]
    BY DEF ReceiveSyn, IInv, Doings, ExitOK, TypeOK
  <1>2. PICK p \in Inbound, b \in Unmade :
           /\ ~PairTaken(p) /\ Open(b, p, TRUE)
           /\ \/ sock' = sock
              \/ sock' = [sock EXCEPT ![listening].accepting = Append(@, b)]
    BY DEF ReceiveSyn
  <1>3. /\ b \in Blocks /\ pair[b] = None /\ b # None
        /\ blk' \in [Blocks -> Block]
        /\ \A c \in Blocks : c # b => blk'[c] = blk[c]
        /\ pair' = [pair EXCEPT ![b] = p]
        /\ pair' \in [Blocks -> Pairs \cup {None}]
        /\ active' = [active EXCEPT ![p] = b]
        /\ active' \in [Pairs -> Blocks \cup {None}]
        /\ UNCHANGED <<deleted, orphaned, orphans, lock>>
    BY <1>2, OpenTypes, ZenonT(60) DEF IInv
  <1> DEFINE old == sock[listening].accepting
             new == IF sock' = sock THEN old ELSE Append(old, b)
  <1>4. old \in Seq(Blocks) /\ Distinct(old)
    BY <1>1 DEF SocketBlock, IInv, Custody, QueuesOK
  <1>5. \A k \in Kinds, x \in Places : ~Holds(k, x, b)
    BY <1>3 DEF IInv, Custody, MadeOK
  <1>6. b \notin Items(old)
    <2>1. "queue" \in Kinds /\ listening \in Places
      BY <1>1 DEF Kinds, Places
    <2> QED BY <1>1, <1>5, <2>1 DEF Holds
  <1>7. /\ new \in Seq(Blocks) /\ Distinct(new)
        /\ Items(new) \subseteq Items(old) \cup {b}
    BY <1>3, <1>4, <1>6, ItemsAppend
  <1>8. /\ \A x \in Fds : /\ sock'[x].state = sock[x].state
                          /\ sock'[x].tcb = sock[x].tcb
                          /\ sock'[x].owner = sock[x].owner
                          /\ sock'[x].accepting =
                                IF x = listening THEN new ELSE sock[x].accepting
        /\ sock' \in [Fds -> SocketBlock]
    <2>1. CASE sock' = sock
      BY <1>1, <2>1
    <2>2. CASE sock' # sock
      <3>1. sock' = [sock EXCEPT ![listening] = [sock[listening] EXCEPT !.accepting = new]]
        BY <1>1, <1>2, <2>2
      <3> HIDE DEF new
      <3>2. [sock[listening] EXCEPT !.accepting = new] \in SocketBlock
        BY <1>1, <1>7, ZenonT(60) DEF SocketBlock
      <3> QED BY <1>1, <3>1, <3>2 DEF SocketBlock
    <2> QED BY <2>1, <2>2
  <1> HIDE DEF new
  <1>9. TypeOK'
    BY <1>1, <1>3, <1>8 DEF IInv, TypeOK, exitVars
  <1>10. Doings'
    <2>1. Only(None) /\ Keeps(None)
      BY <1>1, <1>8 DEF Only, Keeps
    <2>2. SocksOK'
      BY <1>8 DEF IInv, Doings, SocksOK
    <2> QED BY <1>1, <1>3, <2>1, <2>2, DoingsKept
  <1>11. ASSUME NEW c \in Blocks, NEW k \in Kinds, NEW x \in Places,
                Holds(k, x, c)'
         PROVE  Holds(k, x, c) \/ (c = b /\ k = "queue" /\ x = listening)
    BY <1>1, <1>7, <1>8, <1>11 DEF Holds
  <1>12. Custody'
    <2>1. NoPush
      BY <1>1 DEF NoPush
    <2>2. QueuesOK'
      BY <1>7, <1>8 DEF IInv, Custody, QueuesOK
    <2>3. \E k \in Kinds, x \in Places :
             \A l \in Kinds, y \in Places : Holds(l, y, b)' => l = k /\ y = x
      <3>1. "queue" \in Kinds /\ listening \in Places
        BY <1>1 DEF Kinds, Places
      <3>2. b \in Blocks
        BY <1>3
      <3> QED BY <1>5, <1>11, <3>1, <3>2
    <2> QED BY <1>1, <1>2, <1>3, <1>11, <2>1, <2>2, <2>3, OpenCustody DEF IInv
  <1>13. Opens
    <2>1. ASSUME NEW c \in Blocks, NEW k \in Kinds, NEW x \in Places,
                 c # b, Wants(k, x, c)'
          PROVE  Wants(k, x, c)
      <3>1. Holds(k, x, c)
        BY <1>11, <2>1 DEF Wants
      <3>2. CASE k = "socket"
        <4>1. x \in Fds /\ Only(None) /\ None \notin Actors
          BY <1>1, <3>1, <3>2 DEF Holds, Only
        <4> QED BY <1>8, <2>1, <3>2, <4>1, SocketWants
      <3>3. CASE k # "socket"
        BY <2>1, <3>1, <3>3 DEF Wants
      <3> QED BY <3>2, <3>3
    <2>2. /\ b \in Blocks /\ p \in Pairs /\ ~PairTaken(p) /\ UNCHANGED exitVars
          /\ \A c \in Blocks : c # b => blk'[c] = blk[c]
      BY <1>1, <1>2, <1>3
    <2>3. pair' = [pair EXCEPT ![b] = p] /\ active' = [active EXCEPT ![p] = b]
      BY <1>3
    <2> QED BY <2>1, <2>2, <2>3, OpenOpens
  <1> QED BY <1>9, <1>10, <1>12, <1>13 DEF IInv

-----------------------------------------------------------------------------
(* accept() and the end of close() of a listening socket.                  *)

\* What a step does that changes the accept queue of a descriptor.
LEMMA QueueStep ==
    ASSUME IInv, NEW t \in Threads, NEW fd \in Fds, NEW queue \in Seq(Blocks),
           Distinct(queue),
           sock' = [sock EXCEPT ![fd].accepting = queue],
           NEW now \in Activity, Goes(t, now),
           now.step \in {"look", "accept"}, now.fd = fd, receiving,
           now.step = "look" => now.tcb \in Blocks,
           now.step = "accept" => now.tcb = None,
           at[t].step \notin Pushing,
           UNCHANGED <<listening, aborted, ended, blk, pair, deleted, mapVars,
                       orphans, lock, recycler, exitVars>>,
           \A b \in Blocks : Moves(b)
    PROVE  IInv' /\ Opens
  <1>1. at' \in [Actors -> Activity] /\ at'[t] = now /\ Only(t)
    BY Going
  <1>2. sock \in [Fds -> SocketBlock] /\ sock[fd] \in SocketBlock
    BY DEF IInv, TypeOK
  <1>3. /\ \A x \in Fds : /\ sock'[x].state = sock[x].state
                          /\ sock'[x].tcb = sock[x].tcb
                          /\ sock'[x].owner = sock[x].owner
                          /\ sock'[x].accepting =
                                IF x = fd THEN queue ELSE sock[x].accepting
        /\ sock' \in [Fds -> SocketBlock]
    <2>1. [sock[fd] EXCEPT !.accepting = queue] \in SocketBlock
      BY <1>2 DEF SocketBlock
    <2>2. sock' = [sock EXCEPT ![fd] = [sock[fd] EXCEPT !.accepting = queue]]
      BY <1>2
    <2> QED BY <1>2, <2>1, <2>2 DEF SocketBlock
  <1>4. CallTypes'
    BY <1>1, <1>3 DEF CallTypes, IInv, TypeOK
  <1>5. Keeps(t)
    BY <1>3 DEF Keeps
  <1>6. SocksOK' /\ QueuesOK'
    BY <1>3 DEF IInv, Doings, SocksOK, Custody, QueuesOK
  <1>7. CallOK(t)'
    BY <1>1 DEF CallOK, InCall, Pushing, exitVars
  <1>8. IInv'
    BY <1>1, <1>4, <1>5, <1>6, <1>7, CallStep DEF Pushing
  <1>9. Opens
    <2>1. ASSUME NEW b \in Blocks, NEW k \in Kinds, NEW x \in Places,
                 Wants(k, x, b)'
          PROVE  \E l \in Kinds, y \in Places : Wants(l, y, b)
      <3>1. CASE k = "socket"
        <4>1. x \in Fds
          BY <2>1, <3>1 DEF Wants, Holds
        <4> QED BY <1>1, <1>3, <2>1, <3>1, <4>1, SocketWants
      <3>2. CASE k # "socket"
        <4>1. \E l \in Kinds, y \in Places : l # "socket" /\ Holds(l, y, b)
          BY <2>1, <3>2 DEF Moves, Wants
        <4> QED BY <4>1 DEF Wants
      <3> QED BY <3>1, <3>2
    <2>2. UNCHANGED <<pair, active, receiving>>
      BY DEF mapVars, exitVars
    <2> QED BY <2>1, <2>2, EndsSame, OpenKept DEF Opens
  <1> QED BY <1>8, <1>9

LEMMA AcceptPopOK ==
    ASSUME IInv, NEW t \in Threads, AcceptPop(t)
    PROVE  IInv' /\ Opens
  <1> DEFINE fd == at[t].fd
             queue == sock[fd].accepting
             b == Head(queue)
             now == Doing("look", fd, b, 0)
  <1>1. /\ at[t].step = "accept" /\ queue # <<>>
        /\ sock' = [sock EXCEPT ![fd].accepting = Tail(queue)]
        /\ Goes(t, now)
        /\ UNCHANGED <<listening, aborted, ended, blk, pair, deleted, mapVars,
                       orphans, lock, recycler, exitVars>>
    BY DEF AcceptPop, Popped, tcpVars, blockVars
  <1>2. fd \in Fds /\ receiving
    BY <1>1, Known DEF CallOK
  <1>3. queue \in Seq(Blocks) /\ Distinct(queue) /\ sock \in [Fds -> SocketBlock]
    BY <1>2 DEF IInv, TypeOK, SocketBlock, Custody, QueuesOK
  <1>4. /\ Tail(queue) \in Seq(Blocks) /\ b \in Blocks /\ b \in Items(queue)
        /\ Items(queue) = Items(Tail(queue)) \cup {b}
        /\ Distinct(Tail(queue)) /\ b \notin Items(Tail(queue))
    <2> HIDE DEF queue
    <2> QED BY <1>1, <1>3, ItemsTail
  <1> HIDE DEF b
  <1>5. now \in Activity /\ now.step = "look" /\ now.fd = fd /\ now.tcb = b
    BY <1>2, <1>4 DEF Doing, Activity
  <1> HIDE DEF now
  <1>6. at'[t] = now /\ Only(t)
    BY <1>1, <1>5, Going
  <1>7. /\ \A x \in Fds : /\ sock'[x].state = sock[x].state
                          /\ sock'[x].tcb = sock[x].tcb
                          /\ sock'[x].accepting =
                                IF x = fd THEN Tail(queue) ELSE sock[x].accepting
    BY <1>1, <1>2, <1>3 DEF SocketBlock
  <1>8. ASSUME NEW c \in Blocks, NEW k \in Kinds, NEW x \in Places,
               Holds(k, x, c)'
        PROVE  \/ Holds(k, x, c) /\ ~(c = b /\ k = "queue" /\ x = fd)
               \/ c = b /\ k = "thread" /\ x = t
    <2>1. CASE k = "socket"
      BY <1>7, <1>8, <2>1 DEF Holds
    <2>2. CASE k = "thread"
      BY <1>5, <1>6, <1>8, <2>2 DEF Holds, Only
    <2>3. CASE k = "queue"
      BY <1>4, <1>7, <1>8, <2>3 DEF Holds
    <2> QED BY <2>1, <2>2, <2>3 DEF Kinds
  <1>9. /\ Holds("queue", fd, b)
        /\ "queue" \in Kinds /\ fd \in Places /\ "thread" \in Kinds /\ t \in Places
    BY <1>2, <1>4 DEF Holds, Kinds, Places
  <1>10. ASSUME NEW c \in Blocks
         PROVE  Moves(c)
    <2> HIDE DEF fd, queue
    <2>1. CASE c # b
      BY <1>8, <2>1 DEF Moves
    <2>2. CASE c = b
      <3>1. \A k \in Kinds, x \in Places : Holds(k, x, c)' => k = "thread" /\ x = t
        <4>1. OneHolder
          BY DEF IInv, Custody
        <4> QED BY <1>8, <1>9, <2>2, <4>1 DEF OneHolder
      <3> QED BY <1>9, <2>2, <3>1 DEF Moves
    <2> QED BY <2>1, <2>2
  <1> HIDE DEF fd, queue
  <1> QED BY <1>1, <1>2, <1>4, <1>5, <1>10, QueueStep DEF Pushing

LEMMA AcceptPutBackOK ==
    ASSUME IInv, NEW t \in Threads, AcceptPutBack(t)
    PROVE  IInv' /\ Opens
  <1> DEFINE fd == at[t].fd
             queue == sock[fd].accepting
             b == at[t].tcb
             now == Doing("accept", fd, None, 0)
  <1>1. /\ at[t].step = "look"
        /\ Goes(t, now)
        /\ UNCHANGED <<listening, ended, blk, pair, deleted, mapVars,
                       orphans, lock, recycler, exitVars>>
        /\ \/ /\ sock' = [sock EXCEPT ![fd].accepting = Append(queue, b)]
              /\ UNCHANGED aborted
           \/ aborted' = TRUE /\ UNCHANGED sock
    BY DEF AcceptPutBack, PutBack, tcpVars, blockVars
  <1>2. fd \in Fds /\ receiving /\ b \in Blocks
    BY <1>1, Known DEF CallOK
  <1>3. queue \in Seq(Blocks) /\ Distinct(queue) /\ sock \in [Fds -> SocketBlock]
    BY <1>2 DEF IInv, TypeOK, SocketBlock, Custody, QueuesOK
  <1>4. now \in Activity /\ now.step = "accept" /\ now.fd = fd /\ now.tcb = None
    BY <1>2 DEF Doing, Activity
  <1> HIDE DEF now
  <1>5. at'[t] = now /\ Only(t) /\ at' \in [Actors -> Activity]
    BY <1>1, <1>4, Going
  <1>6. CASE aborted' = TRUE /\ UNCHANGED sock
    <2>1. CallTypes'
      BY <1>1, <1>5, <1>6 DEF CallTypes, IInv, TypeOK
    <2>2. CallOK(t)'
      BY <1>1, <1>2, <1>4, <1>5, <1>6 DEF CallOK, InCall, Pushing, exitVars
    <2> HIDE DEF fd, queue, b
    <2>3. IInv'
      BY <1>1, <1>4, <1>5, <1>6, <2>1, <2>2, QuietStep DEF Pushing
    <2>4. Opens
      <3>1. UNCHANGED <<sock, pair, active, receiving, blk>>
        BY <1>1, <1>6 DEF mapVars, exitVars
      <3> QED BY <1>1, <1>4, <3>1, EndsSame, GoesOnOpen DEF Opens, OInv, Pushing
    <2> QED BY <2>3, <2>4
  <1>7. CASE /\ sock' = [sock EXCEPT ![fd].accepting = Append(queue, b)]
             /\ UNCHANGED aborted
    <2>1. /\ Holds("thread", t, b)
          /\ "queue" \in Kinds /\ fd \in Places /\ "thread" \in Kinds /\ t \in Places
      BY <1>1, <1>2 DEF Holds, Kinds, Places
    <2>2. b \notin Items(queue)
      BY <1>2, <2>1 DEF Holds, IInv, Custody, OneHolder
    <2>3. /\ Append(queue, b) \in Seq(Blocks) /\ Distinct(Append(queue, b))
          /\ Items(Append(queue, b)) = Items(queue) \cup {b}
      BY <1>2, <1>3, <2>2, ItemsAppend
    <2>4. /\ \A x \in Fds : /\ sock'[x].state = sock[x].state
                            /\ sock'[x].tcb = sock[x].tcb
                            /\ sock'[x].accepting =
                                  IF x = fd THEN Append(queue, b)
                                  ELSE sock[x].accepting
      BY <1>2, <1>3, <1>7 DEF SocketBlock
    <2>5. ASSUME NEW c \in Blocks, NEW k \in Kinds, NEW x \in Places,
                 Holds(k, x, c)'
          PROVE  \/ Holds(k, x, c) /\ ~(c = b /\ k = "thread" /\ x = t)
                 \/ c = b /\ k = "queue" /\ x = fd
      <3>1. CASE k = "socket"
        BY <2>4, <2>5, <3>1 DEF Holds
      <3>2. CASE k = "thread"
        BY <1>4, <1>5, <2>5, <3>2 DEF Holds, Only
      <3>3. CASE k = "queue"
        BY <2>3, <2>4, <2>5, <3>3 DEF Holds
      <3> QED BY <3>1, <3>2, <3>3 DEF Kinds
    <2>6. ASSUME NEW c \in Blocks
          PROVE  Moves(c)
      <3> HIDE DEF fd, queue, b
      <3>1. CASE c # b
        BY <2>5, <3>1 DEF Moves
      <3>2. CASE c = b
        <4>1. \A k \in Kinds, x \in Places :
                 Holds(k, x, c)' => k = "queue" /\ x = fd
          <5>1. OneHolder
            BY DEF IInv, Custody
          <5> QED BY <2>1, <2>5, <3>2, <5>1 DEF OneHolder
        <4> QED BY <2>1, <3>2, <4>1 DEF Moves
      <3> QED BY <3>1, <3>2
    <2> HIDE DEF fd, queue, b
    <2> QED BY <1>1, <1>2, <1>4, <1>7, <2>3, <2>6, QueueStep DEF Pushing
  <1> QED BY <1>1, <1>6, <1>7

LEMMA AcceptTakeOK ==
    ASSUME IInv, NEW t \in Threads, AcceptTake(t)
    PROVE  IInv' /\ Opens
  <1> DEFINE b == at[t].tcb
             new == [state |-> "ACTIVE", tcb |-> b, accepting |-> <<>>, owner |-> t]
  <1>1. PICK fd \in Unused : sock' = [sock EXCEPT ![fd] = new]
    BY DEF AcceptTake
  <1>2. /\ at[t].step = "look" /\ Goes(t, Idle)
        /\ UNCHANGED <<listening, aborted, ended, blk, pair, deleted, mapVars,
                       orphans, lock, recycler, exitVars>>
    BY DEF AcceptTake, tcpVars, blockVars
  <1>3. /\ fd \in Fds /\ sock[fd].state = "none" /\ b \in Blocks
        /\ sock \in [Fds -> SocketBlock]
    BY <1>2, Known DEF Unused, CallOK, IInv, TypeOK
  <1>4. /\ new \in SocketBlock /\ new.state = "ACTIVE" /\ new.tcb = b
        /\ new.owner = t /\ Items(new.accepting) = {} /\ Distinct(new.accepting)
    <2>1. <<>> \in Seq(Blocks) /\ Items(<<>>) = {} /\ Distinct(<<>>)
      BY EmptySeq DEF Items, Distinct
    <2> QED BY <1>3, <2>1 DEF SocketBlock
  <1>5. at' \in [Actors -> Activity] /\ at'[t] = Idle /\ Only(t)
    BY <1>2, IdleIs, Going
  <1> HIDE DEF new
  <1>6. /\ \A x \in Fds : sock'[x] = IF x = fd THEN new ELSE sock[x]
        /\ sock' \in [Fds -> SocketBlock]
    BY <1>1, <1>3, <1>4
  <1>7. CallTypes'
    BY <1>2, <1>5, <1>6 DEF CallTypes, IInv, TypeOK
  <1>8. Keeps(t)
    BY <1>3, <1>6 DEF Keeps
  <1>9. SocksOK' /\ QueuesOK'
    BY <1>3, <1>4, <1>6 DEF IInv, Doings, SocksOK, Custody, QueuesOK
  <1>10. CallOK(t)'
    BY <1>5, IdleIs DEF CallOK, InCall, Pushing
  <1>11. ASSUME NEW c \in Blocks, NEW k \in Kinds, NEW x \in Places,
                Holds(k, x, c)'
         PROVE  \/ Holds(k, x, c) /\ ~(c = b /\ k = "thread" /\ x = t)
                \/ c = b /\ k = "socket" /\ x = fd
    <2>1. CASE k = "socket"
      BY <1>4, <1>6, <1>11, <2>1 DEF Holds
    <2>2. CASE k = "thread"
      BY <1>5, <1>11, <2>2, IdleIs DEF Holds, Only
    <2>3. CASE k = "queue"
      BY <1>4, <1>6, <1>11, <2>3 DEF Holds
    <2> QED BY <2>1, <2>2, <2>3 DEF Kinds
  <1>12. /\ Holds("thread", t, b)
         /\ "socket" \in Kinds /\ fd \in Places /\ "thread" \in Kinds /\ t \in Places
    BY <1>2, <1>3 DEF Holds, Kinds, Places
  <1>13. ASSUME NEW c \in Blocks
         PROVE  Moves(c)
    <2> HIDE DEF b
    <2>1. CASE c # b
      BY <1>11, <2>1 DEF Moves
    <2>2. CASE c = b
      <3>1. OneHolder
        BY DEF IInv, Custody
      <3>2. \A k \in Kinds, x \in Places : Holds(k, x, c)' => k = "socket" /\ x = fd
        <4> SUFFICES ASSUME NEW k \in Kinds, NEW x \in Places, Holds(k, x, c)',
                            Holds(k, x, c), ~(k = "thread" /\ x = t)
                     PROVE  FALSE
          BY <1>11, <2>2
        <4>1. Holds("thread", t, c)
          BY <1>12, <2>2
        <4> QED BY <1>12, <3>1, <4>1 DEF OneHolder
      <3> QED BY <1>12, <2>2, <3>2 DEF Moves
    <2> QED BY <2>1, <2>2
  <1>14. IInv'
    BY <1>2, <1>5, <1>7, <1>8, <1>9, <1>10, <1>13, IdleIs, CallStep DEF Pushing
  <1>15. Opens
    <2> HIDE DEF b
    <2>1. ASSUME NEW c \in Blocks, NEW k \in Kinds, NEW x \in Places,
                 Wants(k, x, c)'
          PROVE  \E l \in Kinds, y \in Places : Wants(l, y, c)
      <3>1. Holds(k, x, c)'
        BY <2>1 DEF Wants
      <3>2. CASE c = b /\ k = "socket" /\ x = fd
        <4>1. Wants("thread", t, b)
          BY <1>12 DEF Wants
        <4> QED BY <1>12, <3>2, <4>1
      <3>3. CASE k = "socket" /\ ~(c = b /\ x = fd)
        <4>1. x \in Fds /\ x # fd
          BY <1>4, <1>6, <3>1, <3>3 DEF Holds
        <4> QED BY <1>2, <1>5, <1>6, <2>1, <3>3, <4>1, SocketWants DEF Pushing
      <3>4. CASE k # "socket"
        <4>1. Wants(k, x, c)
          BY <1>11, <3>1, <3>4 DEF Wants
        <4> QED BY <4>1
      <3> QED BY <3>2, <3>3, <3>4
    <2>2. UNCHANGED <<pair, active, receiving>>
      BY <1>2 DEF mapVars, exitVars
    <2> QED BY <1>2, <2>1, <2>2, EndsSame, OpenKept DEF Opens
  <1> QED BY <1>14, <1>15

LEMMA CloseListeningOK ==
    ASSUME IInv, NEW t \in Threads, NEW fd \in Fds, CloseListening(t, fd)
    PROVE  IInv'
  <1> DEFINE now == Doing("drain", fd, None, 0)
  <1>1. /\ Free(t) /\ sock[fd].owner = t /\ sock[fd].state \in {"BINDED", "LISTENING"}
        /\ Goes(t, now) /\ listening' = Unregistering(fd)
        /\ UNCHANGED <<sock, aborted, ended, blk, pair, deleted, mapVars,
                       orphans, lock, recycler, exitVars>>
    BY DEF CloseListening, Calls, tcpVars, blockVars
  <1>2. receiving /\ at[t].step = "idle"
    BY <1>1, FreeKnown
  <1>3. now \in Activity /\ now.step = "drain" /\ now.fd = fd /\ now.tcb = None
    BY DEF Doing, Activity
  <1> HIDE DEF now
  <1>4. at' \in [Actors -> Activity] /\ at'[t] = now /\ Only(t)
    BY <1>1, <1>3, Going
  <1>5. listening' \in Fds \cup {None}
    BY <1>1 DEF Unregistering, IInv, TypeOK
  <1>6. CallTypes'
    BY <1>1, <1>4, <1>5 DEF CallTypes, IInv, TypeOK
  <1>7. CallOK(t)'
    BY <1>1, <1>2, <1>3, <1>4 DEF CallOK, InCall, Pushing, exitVars
  <1> QED BY <1>1, <1>2, <1>3, <1>4, <1>6, <1>7, QuietStep DEF Pushing

-----------------------------------------------------------------------------
(* close()                                                                 *)

\* With tcp_lock free, nobody closes a block.
LEMMA NobodyPushes ==
    ASSUME IInv, LockFree
    PROVE  \A a \in Actors : at[a].step \notin Pushing \cup {"closing"}
  BY DEF LockFree, IInv, Doings, LockOK

\* A block that can be found in a queue or a descriptor is not closed.
LEMMA NotAway ==
    ASSUME IInv, LockFree, receiving, NEW b \in Blocks,
           NEW k \in Kinds, NEW x \in Places, Holds(k, x, b)
    PROVE  ~Away(b) /\ pair[b] # None
  <1>1. \A a \in Actors : ~ClosedBy(a, b)
    BY NobodyPushes DEF ClosedBy
  <1> QED BY <1>1 DEF IInv, Custody, AwayOK, MadeOK

LEMMA CloseCustody ==
    ASSUME IInv, NEW t \in Threads, NEW fd \in Fds, NEW b \in Blocks,
           LockFree, receiving, ~Away(b), pair[b] # None,
           active' = [active EXCEPT ![pair[b]] = None],
           UNCHANGED <<pair, deleted, orphaned, orphans, recycler, exitVars>>,
           Only(t), at'[t] = Doing("push", fd, b, 0) \/ at'[t].step \in {"idle", "drain"},
           QueuesOK',
           \A c \in Blocks, k \in Kinds, x \in Places :
              Holds(k, x, c)' => Holds(k, x, c),
           \A k \in Kinds, x \in Places :
              Holds(k, x, b)' => k = "socket" /\ x = fd
    PROVE  Custody'
  <1> USE DEF exitVars
  <1>1. /\ \A a \in Actors, c \in Blocks : ~ClosedBy(a, c)
        /\ \A a \in Actors : at[a].step # "wait"
    BY NobodyPushes DEF ClosedBy, Pushing
  <1>2. /\ Doing("push", fd, b, 0).step = "push" /\ Doing("push", fd, b, 0).fd = fd
        /\ Doing("push", fd, b, 0).tcb = b
    BY DEF Doing
  <1>3. /\ \A a \in Actors, c \in Blocks : ClosedBy(a, c)' =>
              a = t /\ c = b /\ at'[t].fd = fd
        /\ \A c \in Blocks : ClosedBy(t, c)' \/ ~(\E a \in Actors : ClosedBy(a, c)')
        /\ \A a \in Actors : at'[a].step # "wait"
    BY <1>1, <1>2 DEF ClosedBy, Only, Pushing
  <1>4. \A c \in Blocks : /\ Given(c)' <=> Given(c)
                          /\ Gone(c)' <=> Gone(c)
                          /\ Away(c)' => Away(c) \/ (c = b /\ ClosedBy(t, c)')
                          /\ Gone(c) => Away(c)
                          /\ Given(c) => Away(c)
    BY <1>3 DEF Given, Gone, Away
  <1>5. \A q \in Pairs : active'[q] = IF q = pair[b] THEN None ELSE active[q]
    BY DEF IInv, TypeOK
  <1>6. OneHolder' /\ ToCloseOK'
    BY DEF IInv, Custody, OneHolder, Doings, ExitOK, ToCloseOK
  <1>7. MadeOK'
    BY <1>4, <1>5 DEF IInv, Custody, MadeOK
  <1>8. AwayOK'
    <2> SUFFICES ASSUME NEW c \in Blocks, Away(c)'
                 PROVE  /\ \A p \in Pairs : active'[p] # c
                        /\ \A k \in Kinds, x \in Places : Holds(k, x, c)' =>
                              /\ k = "socket"
                              /\ \E u \in Threads : ClosedBy(u, c)' /\ at'[u].fd = x
      BY DEF AwayOK
    <2>1. CASE Away(c)
      <3>1. /\ \A p \in Pairs : active[p] # c
            /\ \A k \in Kinds, x \in Places : ~Holds(k, x, c)
        BY <1>1, <2>1 DEF IInv, Custody, AwayOK
      <3>2. \A p \in Pairs : active'[p] # c
        BY <1>5, <3>1
      <3> QED BY <3>1, <3>2
    <2>2. CASE c = b /\ ClosedBy(t, c)'
      <3>1. \A p \in Pairs : active'[p] # c
        BY <1>5, <2>2 DEF IInv, Custody, MadeOK, TypeOK
      <3> QED BY <1>3, <2>2, <3>1
    <2> QED BY <1>4, <2>1, <2>2
  <1>9. GivenOK'
    BY <1>3, <1>4 DEF IInv, Custody, GivenOK
  <1>10. GoneOK'
    BY <1>3, <1>4 DEF IInv, Custody, GoneOK
  <1>11. FullOK'
    BY <1>3 DEF IInv, Custody, FullOK
  <1> QED BY <1>6, <1>7, <1>8, <1>9, <1>10, <1>11 DEF Custody

\* What CloseBlock does, with what its callers do to the descriptor.
LEMMA CloseStep ==
    ASSUME IInv, NEW t \in Threads, NEW fd \in Fds, NEW b \in Blocks,
           CloseBlock(t, fd, b), receiving, ~Away(b), pair[b] # None,
           sock[fd].owner = t,
           sock[fd].state \in {"ACTIVE", "BINDED", "LISTENING"},
           sock[fd].state = "ACTIVE" => sock[fd].tcb = b,
           \A x \in Fds : x # fd => sock'[x] = sock[x],
           sock'[fd].state = sock[fd].state, sock'[fd].tcb = sock[fd].tcb,
           ~CloseFails(blk[b]) \/ sock[fd].state # "ACTIVE"
              => sock'[fd].owner = sock[fd].owner,
           CloseFails(blk[b]) /\ sock[fd].state = "ACTIVE"
              => Retries \/ sock'[fd].owner = None,
           \E k \in Kinds, x \in Places : Wants(k, x, b),
           sock' \in [Fds -> SocketBlock], SocksOK', QueuesOK',
           \A c \in Blocks, k \in Kinds, x \in Places :
              Holds(k, x, c)' => Holds(k, x, c),
           \A k \in Kinds, x \in Places :
              Holds(k, x, b)' => k = "socket" /\ x = fd
    PROVE  IInv' /\ (~Retries => Opens)
  <1> USE DEF exitVars
  <1> DEFINE fails == CloseFails(blk[b])
             now == IF fails THEN AfterClose(t, fd) ELSE Doing("push", fd, b, 0)
  <1>1. /\ LockFree
        /\ active' = [active EXCEPT ![pair[b]] = None]
        /\ \E becomes \in Closed(blk[b]) : blk' = [blk EXCEPT ![b] = becomes]
        /\ Goes(t, now) /\ lock' = IF fails THEN lock ELSE t
        /\ UNCHANGED <<listening, aborted, ended, pair, deleted, orphaned,
                       orphans, recycler, exitVars>>
    BY DEF CloseBlock, Block_
  <1>2. /\ blk \in [Blocks -> Block] /\ blk[b] \in Block
        /\ active \in [Pairs -> Blocks \cup {None}] /\ lock \in Actors \cup {None}
    BY DEF IInv, TypeOK
  <1>3. /\ blk' \in [Blocks -> Block] /\ active' \in [Pairs -> Blocks \cup {None}]
        /\ lock' \in Actors \cup {None}
    BY <1>1, <1>2, ClosedType
  <1>4. /\ Doing("push", fd, b, 0) \in Activity
        /\ Doing("push", fd, b, 0).step = "push" /\ Doing("push", fd, b, 0).fd = fd
        /\ Doing("push", fd, b, 0).tcb = b
        /\ Doing("drain", fd, None, 0) \in Activity
        /\ Doing("drain", fd, None, 0).step = "drain"
        /\ Doing("drain", fd, None, 0).fd = fd
        /\ Doing("drain", fd, None, 0).tcb = None
    BY DEF Doing, Activity
  <1>5. \/ ~fails /\ now = Doing("push", fd, b, 0)
        \/ fails /\ sock[fd].state = "ACTIVE" /\ now = Idle
        \/ fails /\ sock[fd].state # "ACTIVE" /\ now = Doing("drain", fd, None, 0)
    BY DEF AfterClose
  <1> HIDE DEF fails, now
  <1>6. now \in Activity
    BY <1>4, <1>5, IdleIs
  <1>7. at' \in [Actors -> Activity] /\ at'[t] = now /\ Only(t)
    BY <1>1, <1>6, Going
  <1>8. TypeOK'
    BY <1>1, <1>3, <1>7 DEF IInv, TypeOK
  <1>9. Custody'
    <2>1. at'[t] = Doing("push", fd, b, 0) \/ at'[t].step \in {"idle", "drain"}
      BY <1>4, <1>5, <1>7, IdleIs
    <2> QED BY <1>1, <1>7, <2>1, CloseCustody
  <1>10. Doings'
    <2>1. Keeps(t)
      BY DEF Keeps
    <2>2. CallOK(t)'
      <3>1. CASE ~fails /\ now = Doing("push", fd, b, 0)
        BY <1>1, <1>4, <1>7, <3>1 DEF CallOK, InCall, Pushing, fails
      <3>2. CASE fails /\ now = Idle
        BY <1>1, <1>7, <3>2, IdleIs DEF CallOK, InCall, Pushing
      <3>3. CASE sock[fd].state # "ACTIVE" /\ now = Doing("drain", fd, None, 0)
        BY <1>1, <1>4, <1>7, <3>3 DEF CallOK, InCall, Pushing
      <3> QED BY <1>5, <3>1, <3>2, <3>3
    <2>3. CallsOK'
      BY <1>1, <1>7, <2>1, <2>2, OtherCalls DEF CallsOK, IInv, Doings
    <2>4. at'[Exit] = at[Exit]
      BY <1>7 DEF Only
    <2>5. ExitOK' /\ RecyclerOK'
      BY <1>1, <2>4 DEF IInv, Doings, ExitOK, RecyclerOK
    <2>6. LockOK'
      <3>1. \A a \in Actors : at[a].step \notin Pushing \cup {"closing"}
        BY <1>1, NobodyPushes
      <3>2. now.step \in Pushing \cup {"closing"} <=> ~fails
        BY <1>4, <1>5, IdleIs DEF Pushing
      <3> QED BY <1>1, <1>7, <3>1, <3>2 DEF LockOK, Only, LockFree
    <2> QED BY <2>3, <2>5, <2>6 DEF Doings
  <1>11. ASSUME ~Retries, OpenOK
         PROVE  OpenOK'
    <2>1. PICK c \in Block : blk' = [blk EXCEPT ![b] = c] /\ c.state \notin OpenStates
      BY <1>1, <1>2, ClosedType
    <2>2. \A d \in Blocks : blk'[d] = IF d = b THEN c ELSE blk[d]
      BY <1>2, <2>1
    <2>3. InMap(b)
      BY <1>11 DEF OpenOK
    <2>4. ASSUME NEW d \in Blocks, d # b, InMap(d)
          PROVE  InMap(d)'
      BY <1>1, <1>2, <2>3, <2>4 DEF InMap
    <2> SUFFICES ASSUME NEW d \in Blocks
                 PROVE  /\ pair[d] # None /\ blk'[d].state \in OpenStates => InMap(d)'
                        /\ \A k \in Kinds, x \in Places : Wants(k, x, d)' => InMap(d)'
      BY <1>1 DEF OpenOK
    <2>5. ASSUME pair[d] # None, blk'[d].state \in OpenStates
          PROVE  InMap(d)'
      BY <1>11, <2>1, <2>2, <2>4, <2>5 DEF OpenOK
    <2>6. ASSUME NEW k \in Kinds, NEW x \in Places, Wants(k, x, d)'
          PROVE  InMap(d)'
      <3>1. Holds(k, x, d)' /\ Holds(k, x, d)
        BY <2>6 DEF Wants
      <3>2. d # b
        <4>1. ASSUME d = b
              PROVE  FALSE
          <5>1. /\ k = "socket" /\ x = fd /\ sock[fd].state = "ACTIVE"
                /\ sock'[fd].owner # None /\ ~ClosedBy(sock[fd].owner, b)'
            BY <2>6, <3>1, <4>1 DEF Wants, Holds
          <5>2. ~fails /\ sock'[fd].owner = t
            BY <1>11, <5>1 DEF fails
          <5>3. ClosedBy(t, b)'
            BY <1>4, <1>5, <1>7, <5>2 DEF ClosedBy, Pushing
          <5> QED BY <5>1, <5>2, <5>3 DEF ClosedBy
        <4> QED BY <4>1
      <3>3. Wants(k, x, d)
        <4>1. CASE k = "socket"
          <5>1. x \in Fds /\ x # fd
            BY <3>1, <3>2, <4>1 DEF Holds
          <5>2. at[t].step \notin Pushing
            BY <1>1, NobodyPushes
          <5> QED BY <1>7, <2>6, <4>1, <5>1, <5>2, SocketWants
        <4>2. CASE k # "socket"
          BY <3>1, <4>2 DEF Wants
        <4> QED BY <4>1, <4>2
      <3> QED BY <1>11, <2>4, <3>2, <3>3 DEF OpenOK
    <2> QED BY <2>5, <2>6
  <1>12. IInv'
    BY <1>8, <1>9, <1>10 DEF IInv
  <1> QED BY <1>11, <1>12 DEF Opens

LEMMA CloseOK ==
    ASSUME IInv, NEW t \in Threads, NEW fd \in Fds, Close(t, fd)
    PROVE  IInv' /\ (~Retries => Opens)
  <1> DEFINE b == sock[fd].tcb
  <1>1. /\ Free(t) /\ sock[fd].owner = t /\ sock[fd].state = "ACTIVE"
        /\ CloseBlock(t, fd, b)
        /\ \/ sock' = sock /\ (~CloseFails(blk[b]) \/ Retries)
           \/ CloseFails(blk[b]) /\ sock' = [sock EXCEPT ![fd].owner = None]
    BY DEF Close, Calls
  <1>2. LockFree /\ receiving
    BY <1>1, FreeKnown DEF CloseBlock
  <1>3. b \in Blocks /\ sock \in [Fds -> SocketBlock] /\ sock[fd] \in SocketBlock
    BY <1>1, Known DEF IInv, Doings, SocksOK, TypeOK
  <1>4. Holds("socket", fd, b) /\ "socket" \in Kinds /\ fd \in Places
    BY <1>1 DEF Holds, Kinds, Places
  <1>5. ~Away(b) /\ pair[b] # None
    BY <1>2, <1>3, <1>4, NotAway
  <1>6. /\ \A x \in Fds : /\ x # fd => sock'[x] = sock[x]
                          /\ sock'[x].state = sock[x].state
                          /\ sock'[x].tcb = sock[x].tcb
                          /\ sock'[x].accepting = sock[x].accepting
        /\ CloseFails(blk[b]) \/ sock'[fd].owner = sock[fd].owner
        /\ sock'[fd].owner \in {sock[fd].owner, None}
        /\ CloseFails(blk[b]) => Retries \/ sock'[fd].owner = None
    BY <1>1, <1>3 DEF SocketBlock
  <1>7. sock' \in [Fds -> SocketBlock]
    <2>1. [sock[fd] EXCEPT !.owner = None] \in SocketBlock
      BY <1>3 DEF SocketBlock
    <2> QED BY <1>1, <1>3, <2>1
  <1>8. SocksOK' /\ QueuesOK'
    BY <1>6 DEF IInv, Doings, SocksOK, Custody, QueuesOK
  <1>9. ASSUME NEW c \in Blocks, NEW k \in Kinds, NEW x \in Places,
               Holds(k, x, c)'
        PROVE  Holds(k, x, c)
    <2>1. CASE k = "thread" /\ x # t
      <3>1. at'[x] = at[x]
        BY <1>1, <1>9, <2>1 DEF CloseBlock, Goes, IInv, TypeOK, Holds
      <3> QED BY <1>9, <2>1, <3>1 DEF Holds
    <2>2. CASE k = "thread" /\ x = t
      <3>1. at'[t].step # "look"
        BY <1>1, IdleIs DEF CloseBlock, Goes, AfterClose, IInv, TypeOK, Doing
      <3> QED BY <1>9, <2>2, <3>1 DEF Holds
    <2>3. CASE k # "thread"
      BY <1>6, <1>9, <2>3 DEF Holds
    <2> QED BY <2>1, <2>2, <2>3
  <1>10. \A k \in Kinds, x \in Places : Holds(k, x, b) => k = "socket" /\ x = fd
    BY <1>3, <1>4 DEF IInv, Custody, OneHolder
  <1>11. \E k \in Kinds, x \in Places : Wants(k, x, b)
    <2>1. sock[fd].owner # None /\ ~ClosedBy(sock[fd].owner, b)
      BY <1>1, <1>2, NobodyPushes DEF ClosedBy
    <2>2. Wants("socket", fd, b)
      BY <1>4, <2>1 DEF Wants
    <2> QED BY <1>4, <2>2
  <1> HIDE DEF b
  <1> QED BY <1>1, <1>2, <1>3, <1>5, <1>6, <1>7, <1>8, <1>9, <1>10, <1>11, CloseStep
             DEF b

LEMMA DrainOK ==
    ASSUME IInv, NEW t \in Threads, Drain(t)
    PROVE  IInv' /\ (~Retries => Opens)
  <1>1. PICK fd \in Fds : fd = at[t].fd /\ at[t].step = "drain"
                          /\ receiving /\ sock[fd].owner = t
                          /\ sock[fd].state \in {"BINDED", "LISTENING"}
    BY Known DEF Drain, CallOK, Pushing
  <1> DEFINE queue == sock[fd].accepting
  <1>2. /\ sock \in [Fds -> SocketBlock] /\ sock[fd] \in SocketBlock
        /\ queue \in Seq(Blocks) /\ Distinct(queue)
    BY DEF IInv, TypeOK, SocketBlock, Custody, QueuesOK
  <1>3. CASE queue = <<>>
    <2> DEFINE new == [sock[fd] EXCEPT !.state = "CLOSED"]
    <2>1. /\ sock' = [sock EXCEPT ![fd] = new] /\ Goes(t, Idle)
          /\ UNCHANGED <<listening, aborted, ended, blk, pair, deleted, mapVars,
                         orphans, lock, recycler, exitVars>>
      BY <1>1, <1>2, <1>3 DEF Drain, tcpVars, blockVars
    <2>2. /\ new \in SocketBlock /\ new.state = "CLOSED"
          /\ new.accepting = sock[fd].accepting
      BY <1>2 DEF SocketBlock
    <2> HIDE DEF new
    <2>3. listening' \in Fds \cup {None}
      BY <2>1 DEF IInv, TypeOK
    <2> QED BY <1>1, <2>1, <2>2, <2>3, SockStep DEF Pushing
  <1>4. CASE queue # <<>>
    <2>1. PICK b \in Blocks : b = Head(queue)
      <3> HIDE DEF queue
      <3> QED BY <1>2, <1>4, ItemsTail
    <2>2. /\ sock' = [sock EXCEPT ![fd].accepting = Tail(queue)]
          /\ CloseBlock(t, fd, b)
      BY <1>1, <1>4, <2>1 DEF Drain, Popped
    <2>3. /\ Tail(queue) \in Seq(Blocks) /\ b \in Items(queue)
          /\ Items(queue) = Items(Tail(queue)) \cup {b}
          /\ Distinct(Tail(queue)) /\ b \notin Items(Tail(queue))
      <3> HIDE DEF queue
      <3> QED BY <1>2, <1>4, <2>1, ItemsTail
    <2>4. /\ \A x \in Fds : /\ x # fd => sock'[x] = sock[x]
                            /\ sock'[x].state = sock[x].state
                            /\ sock'[x].tcb = sock[x].tcb
                            /\ sock'[x].owner = sock[x].owner
                            /\ sock'[x].accepting =
                                  IF x = fd THEN Tail(queue) ELSE sock[x].accepting
      BY <1>2, <2>2 DEF SocketBlock
    <2>5. sock' \in [Fds -> SocketBlock]
      <3>1. [sock[fd] EXCEPT !.accepting = Tail(queue)] \in SocketBlock
        BY <1>2, <2>3 DEF SocketBlock
      <3>2. sock' = [sock EXCEPT ![fd] = [sock[fd] EXCEPT !.accepting = Tail(queue)]]
        BY <1>2, <2>2
      <3> QED BY <1>2, <3>1, <3>2
    <2>6. SocksOK' /\ QueuesOK'
      BY <2>3, <2>4 DEF IInv, Doings, SocksOK, Custody, QueuesOK
    <2>7. Holds("queue", fd, b) /\ "queue" \in Kinds /\ fd \in Places
      BY <2>3 DEF Holds, Kinds, Places
    <2>8. LockFree
      BY <2>2 DEF CloseBlock
    <2>9. ~Away(b) /\ pair[b] # None
      BY <1>1, <2>7, <2>8, NotAway
    <2>10. ASSUME NEW c \in Blocks, NEW k \in Kinds, NEW x \in Places,
                  Holds(k, x, c)'
           PROVE  Holds(k, x, c) /\ ~(k = "queue" /\ x = fd /\ c = b)
      <3>1. CASE k = "thread"
        <4>1. CASE x # t
          <5>1. at'[x] = at[x]
            BY <2>2, <2>10, <3>1, <4>1 DEF CloseBlock, Goes, IInv, TypeOK, Holds
          <5> QED BY <2>10, <3>1, <5>1 DEF Holds
        <4>2. CASE x = t
          <5>1. at'[t].step # "look"
            BY <2>2, IdleIs DEF CloseBlock, Goes, AfterClose, IInv, TypeOK, Doing
          <5> QED BY <2>10, <3>1, <4>2, <5>1 DEF Holds
        <4> QED BY <4>1, <4>2
      <3>2. CASE k = "socket"
        BY <2>4, <2>10, <3>2 DEF Holds
      <3>3. CASE k = "queue"
        BY <2>3, <2>4, <2>10, <3>3 DEF Holds
      <3> QED BY <3>1, <3>2, <3>3 DEF Kinds
    <2>11. \A k \in Kinds, x \in Places : ~Holds(k, x, b)'
      <3>1. OneHolder
        BY DEF IInv, Custody
      <3> QED BY <2>7, <2>10, <3>1 DEF OneHolder
    <2>12. /\ \A x \in Fds : x # fd => sock'[x] = sock[x]
           /\ sock'[fd].state = sock[fd].state /\ sock'[fd].tcb = sock[fd].tcb
           /\ sock'[fd].owner = sock[fd].owner /\ sock[fd].state # "ACTIVE"
           /\ sock[fd].state \in {"ACTIVE", "BINDED", "LISTENING"}
      BY <1>1, <2>4
    <2>13. \A c \in Blocks, k \in Kinds, x \in Places : Holds(k, x, c)' => Holds(k, x, c)
      BY <2>10
    <2>14. \E k \in Kinds, x \in Places : Wants(k, x, b)
      BY <2>7 DEF Wants
    <2> HIDE DEF queue
    <2> QED BY <1>1, <2>2, <2>5, <2>6, <2>9, <2>11, <2>12, <2>13, <2>14, CloseStep, ZenonT(60)
  <1> QED BY <1>3, <1>4

-----------------------------------------------------------------------------
(* The end of _tcp_close, in the program's threads and at exit.            *)

\* A block in the hand of a thread that has not pushed it is not with the
\* recycler, and no other thread has it.
LEMMA PushingAlone ==
    ASSUME IInv, NEW a \in Actors, at[a].step \in Pushing
    PROVE  /\ lock = a /\ at[a].tcb \in Blocks /\ at[a] \in Activity
           /\ \A c \in Actors : c # a => at[c].step \notin Pushing \cup {"closing"}
           /\ at[a].step # "insert" => ~Given(at[a].tcb)
           /\ ~Gone(at[a].tcb) /\ ClosedBy(a, at[a].tcb)
  <1>1. lock = a /\ \A c \in Actors : c # a => at[c].step \notin Pushing \cup {"closing"}
    BY DEF IInv, Doings, LockOK
  <1>2. at[a].tcb \in Blocks /\ at[a] \in Activity
    BY DEF IInv, Doings, CallsOK, CallOK, ExitOK, TypeOK
  <1>3. ClosedBy(a, at[a].tcb)
    BY DEF ClosedBy
  <1>4. at[a].step # "insert" => ~Given(at[a].tcb)
    BY <1>2, <1>3 DEF IInv, Custody, GivenOK
  <1>5. ~Gone(at[a].tcb)
    BY <1>2, <1>3 DEF IInv, Custody, GoneOK
  <1> QED BY <1>1, <1>2, <1>3, <1>4, <1>5

\* Steps within the push of an orphan: what is left to say of the queue.
LEMMA PushStep ==
    ASSUME IInv, NEW a \in Actors, at[a].step \in {"push", "wait"},
           NEW step \in {"wait", "insert"},
           Goes(a, [at[a] EXCEPT !.step = step]),
           orphans' \in Seq(Blocks), Len(orphans') <= OrphanCapacity,
           Len(orphans) <= Len(orphans'),
           Distinct(orphans'),
           Items(orphans') \subseteq Items(orphans) \cup {at[a].tcb},
           Items(orphans) \subseteq Items(orphans'),
           step = "wait" => orphans' = orphans /\ Len(orphans) = OrphanCapacity,
           UNCHANGED <<socketVars, blockVars, mapVars, lock, recycler, exitVars>>
    PROVE  IInv'
  <1> USE DEF exitVars, mapVars, blockVars, socketVars
  <1> DEFINE b == at[a].tcb
             now == [at[a] EXCEPT !.step = step]
  <1>1. /\ lock = a /\ b \in Blocks /\ at[a] \in Activity
        /\ \A c \in Actors : c # a => at[c].step \notin Pushing \cup {"closing"}
        /\ ~Given(b) /\ ~Gone(b) /\ ClosedBy(a, b)
    BY PushingAlone DEF Pushing
  <1>2. /\ now \in Activity /\ now.step = step /\ now.tcb = b /\ now.fd = at[a].fd
    BY <1>1 DEF Activity
  <1> HIDE DEF now
  <1>3. at' \in [Actors -> Activity] /\ at'[a] = now /\ Only(a)
    BY <1>2, Going DEF now
  <1>4. TypeOK'
    BY <1>3 DEF IInv, TypeOK
  <1>5. Doings'
    <2>1. ASSUME NEW t \in Threads
          PROVE  CallOK(t)'
      <3>1. CallOK(t)
        BY DEF IInv, Doings, CallsOK
      <3>2. CASE t = a
        BY <1>1, <1>2, <1>3, <3>1, <3>2 DEF CallOK, InCall, Pushing
      <3>3. CASE t # a
        <4>1. at'[t] = at[t]
          BY <1>3, <3>3 DEF Only
        <4> QED BY <3>1, <4>1 DEF CallOK
      <3> QED BY <3>2, <3>3
    <2>2. ExitOK'
      <3>1. CASE a = Exit
        BY <1>1, <1>2, <1>3, <3>1, IdleIs DEF IInv, Doings, ExitOK, Pushing
      <3>2. CASE a # Exit
        BY <1>3, <3>2 DEF IInv, Doings, ExitOK, Only
      <3> QED BY <3>1, <3>2
    <2>3. LockOK'
      BY <1>1, <1>2, <1>3 DEF IInv, Doings, LockOK, Only, Pushing
    <2> QED BY <2>1, <2>2, <2>3 DEF IInv, Doings, CallsOK, SocksOK, RecyclerOK
  <1>6. Custody'
    <2>1. \A c \in Blocks, d \in Actors : ClosedBy(d, c)' <=> ClosedBy(d, c)
      BY <1>1, <1>2, <1>3 DEF ClosedBy, Only, Pushing
    <2>2. \A d \in Actors : at'[d].fd = at[d].fd
      BY <1>2, <1>3 DEF Only
    <2>3. \A c \in Blocks : /\ Given(c)' => Given(c) \/ c = b
                            /\ Given(c) => Given(c)'
                            /\ Gone(c)' <=> Gone(c)
                            /\ Away(c)' <=> Away(c)
      <3>1. \A c \in Blocks : /\ Given(c)' => Given(c) \/ c = b
                              /\ Given(c) => Given(c)'
                              /\ Gone(c)' <=> Gone(c)
        BY DEF Given, Gone
      <3> QED BY <1>1, <2>1, <3>1 DEF Away
    <2>4. \A c \in Blocks, k \in Kinds, x \in Places : Holds(k, x, c)' <=> Holds(k, x, c)
      BY <1>2, <1>3 DEF Holds, Only
    <2>5. QueuesOK' /\ OneHolder'
      BY <2>4 DEF IInv, Custody, QueuesOK, OneHolder
    <2>6. MadeOK'
      BY <2>3, <2>4 DEF IInv, Custody, MadeOK
    <2>7. AwayOK'
      BY <2>1, <2>2, <2>3, <2>4 DEF IInv, Custody, AwayOK
    <2>8. GivenOK'
      <3>1. recycler.tcb # b /\ b \notin Items(orphans)
        BY <1>1 DEF Given
      <3>2. recycler.tcb \notin Items(orphans')
        BY <3>1 DEF IInv, Custody, GivenOK
      <3>3. ASSUME NEW c \in Blocks, NEW d \in Actors, Given(c)', ClosedBy(d, c)'
            PROVE  at'[d].step = "insert"
        <4>1. d = a /\ c = b
          BY <1>1, <2>1, <3>3 DEF ClosedBy
        <4>2. step = "insert"
          BY <1>1, <3>3, <4>1 DEF Given
        <4> QED BY <1>2, <1>3, <4>1, <4>2
      <3> QED BY <3>2, <3>3 DEF GivenOK
    <2>9. GoneOK'
      BY <1>1, <2>1, <2>3 DEF IInv, Custody, GoneOK
    <2>10. ToCloseOK'
      BY <2>3 DEF IInv, Custody, ToCloseOK
    <2>11. FullOK'
      <3>1. Len(orphans) \in Nat /\ Len(orphans') \in Nat
        BY LenProperties DEF IInv, TypeOK
      <3>2. \A d \in Actors : at'[d].step = "wait" => Len(orphans') = OrphanCapacity
        BY <1>1, <1>2, <1>3 DEF Only, Pushing
      <3>3. recycler.step = "wait" => Len(orphans) = OrphanCapacity
        BY DEF IInv, Custody, FullOK
      <3>4. recycler.step = "wait" => Len(orphans') = OrphanCapacity
        BY <3>1, <3>3
      <3> QED BY <3>2, <3>4 DEF FullOK
    <2> QED BY <2>5, <2>6, <2>7, <2>8, <2>9, <2>10, <2>11 DEF Custody
  <1> QED BY <1>4, <1>5, <1>6 DEF IInv

LEMMA PushOrphanOK ==
    ASSUME IInv, NEW a \in Actors, PushOrphan(a)
    PROVE  IInv'
  <1>1. /\ at[a].step \in {"push", "wait"} /\ Len(orphans) # OrphanCapacity
        /\ orphans' = Append(orphans, at[a].tcb)
        /\ Goes(a, [at[a] EXCEPT !.step = "insert"])
        /\ UNCHANGED <<socketVars, blockVars, mapVars, lock, recycler, exitVars>>
    BY DEF PushOrphan, OrphansFull
  <1>2. at[a].tcb \in Blocks /\ ~Given(at[a].tcb)
    BY <1>1, PushingAlone DEF Pushing
  <1>3. /\ orphans \in Seq(Blocks) /\ Len(orphans) \in Nat
        /\ Len(orphans) <= OrphanCapacity /\ Distinct(orphans)
    BY LenProperties DEF IInv, TypeOK, Custody, GivenOK
  <1>4. at[a].tcb \notin Items(orphans)
    BY <1>2 DEF Given
  <1>5. /\ orphans' \in Seq(Blocks) /\ Len(orphans') = Len(orphans) + 1
        /\ Items(orphans') = Items(orphans) \cup {at[a].tcb}
        /\ Distinct(orphans')
    BY <1>1, <1>2, <1>3, <1>4, ItemsAppend
  <1>6. Len(orphans') <= OrphanCapacity /\ Len(orphans) <= Len(orphans')
    BY <1>1, <1>3, <1>5
  <1> QED BY <1>1, <1>5, <1>6, PushStep

LEMMA StaysInQueue ==
    ASSUME IInv, UNCHANGED orphans
    PROVE  /\ orphans' \in Seq(Blocks) /\ Len(orphans') <= OrphanCapacity
           /\ Len(orphans) <= Len(orphans') /\ Distinct(orphans')
           /\ Items(orphans') = Items(orphans)
  <1>1. Len(orphans) \in Nat
    BY LenProperties DEF IInv, TypeOK
  <1> QED BY <1>1 DEF IInv, TypeOK, Custody, GivenOK

LEMMA WaitForRoomOK ==
    ASSUME IInv, NEW a \in Actors, WaitForRoom(a)
    PROVE  IInv'
  <1>1. /\ at[a].step = "push" /\ Len(orphans) = OrphanCapacity
        /\ Goes(a, [at[a] EXCEPT !.step = "wait"])
        /\ UNCHANGED orphans
        /\ UNCHANGED <<socketVars, blockVars, mapVars, lock, recycler, exitVars>>
    BY DEF WaitForRoom, OrphansFull, tcpVars
  <1> QED BY <1>1, StaysInQueue, PushStep

LEMMA GiveUpPushOK ==
    ASSUME IInv, NEW a \in Actors, GiveUpPush(a)
    PROVE  IInv'
  <1>1. /\ at[a].step = "wait"
        /\ Goes(a, [at[a] EXCEPT !.step = "insert"])
        /\ UNCHANGED orphans
        /\ UNCHANGED <<socketVars, blockVars, mapVars, lock, recycler, exitVars>>
    BY DEF GiveUpPush, tcpVars
  <1> QED BY <1>1, StaysInQueue, PushStep

LEMMA AwayMade ==
    ASSUME IInv, NEW b \in Blocks, Away(b)
    PROVE  pair[b] \in Pairs
  <1>1. pair[b] # None
    BY DEF IInv, Custody, MadeOK
  <1>2. pair[b] \in Pairs \cup {None}
    BY DEF IInv, TypeOK
  <1> QED BY <1>1, <1>2

\* Where blocks are after the block of thread a has become an orphan.
LEMMA InsertCustody ==
    ASSUME IInv, NEW a \in Actors, at[a].step = "insert", Only(a),
           at'[a].step \notin Pushing,
           orphaned' = [orphaned EXCEPT ![pair[at[a].tcb]] = at[a].tcb],
           UNCHANGED <<pair, deleted, active, orphans, recycler, exitVars>>,
           QueuesOK',
           \A c \in Blocks, k \in Kinds, x \in Places :
              Holds(k, x, c)' =>
                 Holds(k, x, c) /\ (receiving /\ k = "socket" => x # at[a].fd)
    PROVE  Custody'
  <1> USE DEF exitVars
  <1> DEFINE b == at[a].tcb
  <1>1. /\ b \in Blocks /\ ~Gone(b) /\ ClosedBy(a, b)
        /\ \A c \in Actors : c # a => at[c].step \notin Pushing
    BY PushingAlone DEF Pushing
  <1>2. /\ \A c \in Blocks, d \in Actors : ~ClosedBy(d, c)'
        /\ \A c \in Blocks, d \in Actors : ClosedBy(d, c) => d = a
        /\ \A d \in Actors : at'[d].step # "wait"
    BY <1>1 DEF ClosedBy, Only, Pushing
  <1>3. \A c \in Blocks : /\ Given(c)' <=> Given(c)
                          /\ Gone(c)' <=> Gone(c)
                          /\ Away(c)' => Away(c)
    BY <1>2 DEF Given, Gone, Away
  <1>4. pair[b] \in Pairs
    BY <1>1, AwayMade DEF Away
  <1> HIDE DEF b
  <1>5. \A p \in Pairs : orphaned'[p] = IF p = pair[b] THEN b ELSE orphaned[p]
    BY <1>4 DEF IInv, TypeOK, b
  <1>6. OneHolder' /\ ToCloseOK'
    BY <1>3 DEF IInv, Custody, OneHolder, ToCloseOK
  <1>7. MadeOK'
    BY <1>3, <1>5 DEF IInv, Custody, MadeOK
  <1>8. AwayOK'
    <2> SUFFICES ASSUME receiving, NEW c \in Blocks, Away(c)'
                 PROVE  /\ \A p \in Pairs : active[p] # c
                        /\ \A k \in Kinds, x \in Places : ~Holds(k, x, c)'
      BY DEF AwayOK
    <2>1. /\ \A p \in Pairs : active[p] # c
          /\ \A k \in Kinds, x \in Places : Holds(k, x, c) =>
                k = "socket" /\ \E t \in Threads : ClosedBy(t, c) /\ at[t].fd = x
      BY <1>3 DEF IInv, Custody, AwayOK
    <2> QED BY <1>2, <2>1
  <1>9. GivenOK'
    BY <1>2 DEF IInv, Custody, GivenOK
  <1>10. GoneOK'
    BY <1>1, <1>2, <1>3, <1>5 DEF IInv, Custody, GoneOK
  <1>11. FullOK'
    BY <1>2 DEF IInv, Custody, FullOK
  <1> QED BY <1>6, <1>7, <1>8, <1>9, <1>10, <1>11 DEF Custody

LEMMA InsertType ==
    ASSUME IInv, NEW a \in Actors, at[a].step = "insert",
           orphaned' = [orphaned EXCEPT ![pair[at[a].tcb]] = at[a].tcb]
    PROVE  orphaned' \in [Pairs -> Blocks \cup {None}]
  <1>1. at[a].tcb \in Blocks
    BY PushingAlone DEF Pushing
  <1> QED BY <1>1 DEF IInv, TypeOK

LEMMA InsertOrphanOK ==
    ASSUME IInv, NEW t \in Threads, InsertOrphan(t)
    PROVE  IInv' /\ Opens
  <1> USE DEF exitVars
  <1> DEFINE fd == at[t].fd
             now == AfterClose(t, fd)
  <1>1. /\ at[t].step = "insert" /\ lock' = None /\ Goes(t, now)
        /\ orphaned' = [orphaned EXCEPT ![pair[at[t].tcb]] = at[t].tcb]
        /\ sock' = IF sock[fd].state = "ACTIVE"
                   THEN [sock EXCEPT ![fd].state = "CLOSED"] ELSE sock
        /\ UNCHANGED <<listening, aborted, ended, blk, pair, deleted, active,
                       orphans, recycler, exitVars>>
    BY DEF InsertOrphan, blockVars
  <1>2. /\ fd \in Fds /\ receiving /\ sock[fd].owner = t
        /\ sock[fd].state \in {"ACTIVE", "BINDED", "LISTENING"}
    BY <1>1, Known DEF CallOK, Pushing
  <1>3. sock \in [Fds -> SocketBlock] /\ sock[fd] \in SocketBlock
    BY <1>2 DEF IInv, TypeOK
  <1>4. \/ now = Idle
        \/ sock[fd].state # "ACTIVE" /\ now = Doing("drain", fd, None, 0)
    BY DEF AfterClose
  <1>5. /\ Doing("drain", fd, None, 0) \in Activity
        /\ Doing("drain", fd, None, 0).step = "drain"
        /\ Doing("drain", fd, None, 0).fd = fd
        /\ Doing("drain", fd, None, 0).tcb = None
    BY <1>2 DEF Doing, Activity
  <1> HIDE DEF now
  <1>6. /\ now \in Activity /\ now.step \in {"idle", "drain"}
        /\ at' \in [Actors -> Activity] /\ at'[t] = now /\ Only(t)
    <2>1. now \in Activity /\ now.step \in {"idle", "drain"}
      BY <1>4, <1>5, IdleIs
    <2> QED BY <1>1, <2>1, Going
  <1>7. /\ \A x \in Fds : /\ x # fd => sock'[x] = sock[x]
                          /\ sock'[x].tcb = sock[x].tcb
                          /\ sock'[x].owner = sock[x].owner
                          /\ sock'[x].accepting = sock[x].accepting
        /\ sock'[fd].state \in {"CLOSED", "BINDED", "LISTENING"}
        /\ sock[fd].state # "ACTIVE" => sock'[fd].state = sock[fd].state
    <2> HIDE DEF fd
    <2>1. CASE sock[fd].state = "ACTIVE"
      BY <1>1, <1>2, <1>3, <2>1 DEF SocketBlock
    <2>2. CASE sock[fd].state # "ACTIVE"
      BY <1>1, <1>2, <1>3, <2>2
    <2> QED BY <2>1, <2>2
  <1>8. sock' \in [Fds -> SocketBlock]
    <2> HIDE DEF fd
    <2>1. [sock[fd] EXCEPT !.state = "CLOSED"] \in SocketBlock
      BY <1>3 DEF SocketBlock
    <2>2. \/ sock' = sock
          \/ sock' = [sock EXCEPT ![fd] = [sock[fd] EXCEPT !.state = "CLOSED"]]
      BY <1>1, <1>2, <1>3
    <2> QED BY <1>3, <2>1, <2>2
  <1>9. TypeOK'
    <2>1. orphaned' \in [Pairs -> Blocks \cup {None}]
      BY <1>1, InsertType
    <2> QED BY <1>1, <1>6, <1>8, <2>1 DEF IInv, TypeOK
  <1>10. Doings'
    <2>1. Keeps(t)
      BY <1>2, <1>7 DEF Keeps
    <2>2. CallOK(t)'
      <3>1. CASE now = Idle
        BY <1>6, <3>1, IdleIs DEF CallOK, InCall, Pushing
      <3>2. CASE sock[fd].state # "ACTIVE" /\ now = Doing("drain", fd, None, 0)
        BY <1>1, <1>2, <1>5, <1>6, <1>7, <3>2 DEF CallOK, InCall, Pushing
      <3> QED BY <1>4, <3>1, <3>2
    <2>3. CallsOK'
      BY <1>1, <1>6, <2>1, <2>2, OtherCalls DEF CallsOK, IInv, Doings
    <2>4. at'[Exit] = at[Exit]
      BY <1>6 DEF Only
    <2>5. ExitOK' /\ RecyclerOK' /\ SocksOK'
      <3>1. SocksOK'
        <4> HIDE DEF fd
        <4> QED BY <1>7 DEF IInv, Doings, SocksOK
      <3> QED BY <1>1, <2>4, <3>1 DEF IInv, Doings, ExitOK, RecyclerOK
    <2>6. LockOK'
      <3>1. \A a \in Actors : a # t => at[a].step \notin Pushing \cup {"closing"}
        BY <1>1, PushingAlone DEF Pushing
      <3> QED BY <1>1, <1>6, <3>1 DEF LockOK, Only, Pushing
    <2> QED BY <2>3, <2>5, <2>6 DEF Doings
  <1>11. ASSUME NEW c \in Blocks, NEW k \in Kinds, NEW x \in Places,
               Holds(k, x, c)'
        PROVE  Holds(k, x, c) /\ (k = "socket" => x # at[t].fd)
    <2> HIDE DEF fd
    <2>1. CASE k = "socket"
      <3>1. x # fd
        BY <1>7, <1>11, <2>1 DEF Holds
      <3> QED BY <1>7, <1>11, <2>1, <3>1 DEF Holds, fd
    <2>2. CASE k = "thread"
      BY <1>6, <1>11, <2>2 DEF Holds, Only
    <2>3. CASE k = "queue"
      BY <1>7, <1>11, <2>3 DEF Holds
    <2> QED BY <2>1, <2>2, <2>3 DEF Kinds
  <1>12. Custody'
    <2>1. QueuesOK'
      <3> HIDE DEF fd
      <3> QED BY <1>7 DEF IInv, Custody, QueuesOK
    <2> QED BY <1>1, <1>6, <1>11, <2>1, InsertCustody DEF Pushing
  <1>13. Opens
    <2> HIDE DEF fd
    <2>1. ASSUME NEW c \in Blocks, NEW x \in Fds, Holds("socket", x, c), x # fd
          PROVE  \A a \in Actors : ~ClosedBy(a, c)
      <3>1. \A a \in Actors : ClosedBy(a, c) => a = t
        BY <1>1, PushingAlone DEF ClosedBy, Pushing
      <3>2. "socket" \in Kinds /\ x \in Places
        BY DEF Kinds, Places
      <3>3. ClosedBy(t, c) => Away(c)
        BY DEF Away
      <3>4. Away(c) => \E u \in Threads : ClosedBy(u, c) /\ at[u].fd = x
        <4>1. AwayOK
          BY DEF IInv, Custody
        <4> QED BY <1>2, <2>1, <3>2, <4>1 DEF AwayOK
      <3>5. x # at[t].fd
        BY <2>1 DEF fd
      <3> QED BY <3>1, <3>3, <3>4, <3>5
    <2>2. ASSUME NEW c \in Blocks, NEW k \in Kinds, NEW x \in Places,
                 Wants(k, x, c)'
          PROVE  Wants(k, x, c)
      <3>1. Holds(k, x, c) /\ (k = "socket" => x # fd)
        BY <1>11, <2>2 DEF Wants, fd
      <3>2. CASE k = "socket"
        <4>1. x \in Fds
          BY <3>1, <3>2 DEF Holds
        <4>2. sock[x].owner \in Threads
          <5>1. sock[x].owner = sock'[x].owner
            BY <1>7, <4>1
          <5>2. sock'[x].owner # None
            BY <2>2, <3>2 DEF Wants
          <5> QED BY <1>3, <4>1, <5>1, <5>2 DEF SocketBlock
        <4> QED BY <2>1, <3>1, <3>2, <4>1, <4>2 DEF Wants
      <3>3. CASE k # "socket"
        BY <3>1, <3>3 DEF Wants
      <3> QED BY <3>2, <3>3
    <2> QED BY <1>1, <2>2, EndsSame, OpenKept DEF Opens
  <1> QED BY <1>9, <1>10, <1>12, <1>13 DEF IInv

-----------------------------------------------------------------------------
(* The threads of the stack.                                               *)

\* A step that changes only what is in a block.
LEMMA BlockOnly ==
    ASSUME IInv, blk' \in [Blocks -> Block],
           UNCHANGED <<socketVars, pair, deleted, mapVars, orphans, lock, at,
                       recycler, exitVars>>
    PROVE  IInv'
  <1> USE DEF socketVars
  <1>1. TypeOK'
    BY DEF IInv, TypeOK, mapVars, exitVars
  <1>2. Doings'
    <2>1. Only(None) /\ Keeps(None)
      BY DEF Only, Keeps
    <2>2. SocksOK'
      BY DEF IInv, Doings, SocksOK
    <2> QED BY <2>1, <2>2, DoingsKept
  <1>3. Custody'
    <2>1. QueuesOK' /\ NoPush
      BY DEF IInv, Custody, QueuesOK, NoPush
    <2>2. \A b \in Blocks : Moves(b)
      BY DEF Moves, Holds
    <2> QED BY <2>1, <2>2, BlocksMove DEF IInv
  <1> QED BY <1>1, <1>2, <1>3 DEF IInv

LEMMA ReceiveSegmentOK ==
    ASSUME IInv, ReceiveSegment
    PROVE  IInv'
  <1>1. PICK p \in Pairs : /\ Found(p) # None
                           /\ \E becomes \in OnSegment(blk[Found(p)]) :
                                 Block_(Found(p), becomes)
    BY DEF ReceiveSegment
  <1>2. Found(p) \in Blocks /\ blk \in [Blocks -> Block]
    BY <1>1 DEF Found, IInv, TypeOK
  <1>3. blk' \in [Blocks -> Block]
    BY <1>1, <1>2, SegmentType DEF Block_
  <1> QED BY <1>3, BlockOnly DEF ReceiveSegment

LEMMA TimerOK ==
    ASSUME IInv, NEW b \in Blocks, Timer(b)
    PROVE  IInv'
  <1>1. blk \in [Blocks -> Block]
    BY DEF IInv, TypeOK
  <1>2. blk' \in [Blocks -> Block]
    BY <1>1, TimerType DEF Timer, Block_
  <1> QED BY <1>2, BlockOnly DEF Timer

\* A step of the recycler.
LEMMA RecyclerStep ==
    ASSUME IInv,
           UNCHANGED <<socketVars, blk, pair, active, lock, at, exitVars>>,
           TypeOK', RecyclerOK',
           \A b \in Blocks : Away(b)' => Away(b),
           \A p \in Pairs : orphaned'[p] \in {orphaned[p], None},
           GivenOK', GoneOK', FullOK'
    PROVE  IInv'
  <1> USE DEF socketVars, exitVars
  <1>1. Doings'
    <2>1. Only(None) /\ Keeps(None)
      BY DEF Only, Keeps
    <2>2. CallsOK'
      BY <2>1, OtherCalls DEF IInv, Doings, CallsOK
    <2>3. SocksOK' /\ ExitOK' /\ LockOK'
      BY DEF IInv, Doings, SocksOK, ExitOK, LockOK
    <2> QED BY <2>2, <2>3 DEF Doings
  <1>2. Custody'
    <2>1. /\ \A b \in Blocks, k \in Kinds, x \in Places : Holds(k, x, b)' <=> Holds(k, x, b)
          /\ \A b \in Blocks, a \in Actors : ClosedBy(a, b)' <=> ClosedBy(a, b)
      BY DEF Holds, ClosedBy
    <2>2. QueuesOK' /\ OneHolder'
      BY <2>1 DEF IInv, Custody, QueuesOK, OneHolder
    <2>3. MadeOK'
      BY <2>1 DEF IInv, Custody, MadeOK
    <2>4. AwayOK'
      <3> SUFFICES ASSUME receiving, NEW b \in Blocks, Away(b)'
                   PROVE  /\ \A p \in Pairs : active[p] # b
                          /\ \A k \in Kinds, x \in Places : Holds(k, x, b) =>
                                /\ k = "socket"
                                /\ \E u \in Threads : ClosedBy(u, b) /\ at[u].fd = x
        BY <2>1 DEF AwayOK
      <3> QED BY DEF IInv, Custody, AwayOK
    <2>5. ToCloseOK'
      BY DEF IInv, Custody, ToCloseOK
    <2> QED BY <2>2, <2>3, <2>4, <2>5 DEF Custody
  <1> QED BY <1>1, <1>2 DEF IInv

LEMMA RecyclerIs ==
    ASSUME NEW step, NEW b
    PROVE  Recycling(step, b).step = step /\ Recycling(step, b).tcb = b
  BY DEF Recycling

LEMMA RecyclingType ==
    ASSUME NEW step \in {"pop", "join", "delete", "push", "wait", "stopped"},
           NEW b \in Blocks \cup {None}
    PROVE  Recycling(step, b) \in
              [step : {"pop", "join", "delete", "push", "wait", "stopped"},
               tcb : Blocks \cup {None}]
  BY DEF Recycling

\* What the recycler has in hand.
LEMMA InHand ==
    ASSUME IInv
    PROVE  /\ recycler.tcb \in Blocks \cup {None}
           /\ recycler.step \notin {"pop", "stopped"} =>
                 /\ recycler.tcb \in Blocks /\ Given(recycler.tcb)
                 /\ recycler.tcb \notin Items(orphans)
                 /\ recycler.tcb \notin deleted
           /\ recycler.step \in {"pop", "stopped"} => recycler.tcb = None
  <1>1. recycler.tcb \in Blocks \cup {None}
    BY DEF IInv, TypeOK
  <1>2. recycler.step \in {"pop", "stopped"} <=> recycler.tcb = None
    BY DEF IInv, Doings, RecyclerOK
  <1>3. recycler.tcb \notin Items(orphans)
    BY DEF IInv, Custody, GivenOK
  <1>4. recycler.tcb \in Blocks => recycler.tcb \notin deleted
    BY DEF IInv, Custody, GoneOK, Gone
  <1> QED BY <1>1, <1>2, <1>3, <1>4 DEF Given

LEMMA OrphansKnown ==
    ASSUME IInv
    PROVE  /\ orphans \in Seq(Blocks) /\ Len(orphans) \in Nat
           /\ Len(orphans) <= OrphanCapacity /\ OrphanCapacity \in Nat
           /\ Distinct(orphans) /\ Items(orphans) \subseteq Blocks
           /\ \A b \in Items(orphans) : b \notin deleted
  <1>1. orphans \in Seq(Blocks) /\ Len(orphans) <= OrphanCapacity /\ Distinct(orphans)
    BY DEF IInv, TypeOK, Custody, GivenOK
  <1>2. Items(orphans) \subseteq Blocks /\ Len(orphans) \in Nat
    BY <1>1, ItemsOf, LenProperties
  <1>3. \A b \in Items(orphans) : b \notin deleted
    BY <1>2 DEF IInv, Custody, GoneOK, Gone
  <1> QED BY <1>1, <1>2, <1>3

LEMMA RecyclerPopOK ==
    ASSUME IInv, RecyclerPop
    PROVE  IInv'
  <1> USE DEF socketVars, blockVars, mapVars, exitVars
  <1>1. /\ recycler.step = "pop" /\ orphans # <<>> /\ orphans' = Tail(orphans)
        /\ UNCHANGED <<socketVars, blockVars, mapVars, lock, at, exitVars>>
        /\ \E step \in {"join", "push"} : recycler' = Recycling(step, Head(orphans))
    BY DEF RecyclerPop
  <1>2. PICK b \in Blocks : b = Head(orphans)
    BY <1>1, OrphansKnown, ItemsTail
  <1>3. PICK step \in {"join", "push"} :
           /\ recycler.step = "pop" /\ orphans # <<>>
           /\ b = Head(orphans) /\ orphans' = Tail(orphans)
           /\ recycler' = Recycling(step, b)
           /\ UNCHANGED <<socketVars, blockVars, mapVars, lock, at, exitVars>>
    BY <1>1, <1>2
  <1>4. /\ orphans' \in Seq(Blocks) /\ b \in Blocks
        /\ Len(orphans') = Len(orphans) - 1 /\ Len(orphans) \in Nat \ {0}
        /\ Items(orphans) = Items(orphans') \cup {b}
        /\ Distinct(orphans') /\ b \notin Items(orphans')
        /\ b \notin deleted /\ b # None
    BY <1>3, OrphansKnown, ItemsTail
  <1>5. recycler'.step = step /\ recycler'.tcb = b /\ recycler.tcb = None
    BY <1>3, RecyclerIs, InHand
  <1>6. /\ \A c \in Blocks : Given(c)' <=> Given(c)
        /\ \A c \in Blocks : Gone(c)' <=> c \in deleted
        /\ \A c \in Blocks, a \in Actors : ClosedBy(a, c)' <=> ClosedBy(a, c)
    BY <1>3, <1>4, <1>5 DEF Given, Gone, ClosedBy
  <1>7. \A c \in Blocks : Away(c)' => Away(c)
    BY <1>3, <1>6 DEF Away
  <1>8. TypeOK'
    <2>1. Len(orphans') <= OrphanCapacity
      BY <1>4, OrphansKnown
    <2> QED BY <1>3, <1>4, <2>1, RecyclingType DEF IInv, TypeOK
  <1>9. GivenOK'
    BY <1>3, <1>4, <1>5, <1>6 DEF IInv, Custody, GivenOK
  <1>10. GoneOK'
    BY <1>3, <1>4, <1>5, <1>6 DEF IInv, Custody, GoneOK, Gone
  <1>11. FullOK'
    <2>1. ASSUME NEW a \in Actors, at[a].step = "wait"
          PROVE  Len(orphans') + 1 = OrphanCapacity
      <3>1. Len(orphans) = OrphanCapacity
        BY <1>3, <2>1 DEF IInv, Custody, FullOK
      <3> QED BY <1>4, <3>1
    <2> QED BY <1>3, <1>5, <2>1 DEF FullOK
  <1>12. RecyclerOK'
    BY <1>4, <1>5 DEF RecyclerOK
  <1> QED BY <1>3, <1>7, <1>8, <1>9, <1>10, <1>11, <1>12, RecyclerStep

LEMMA RecyclerEraseOK ==
    ASSUME IInv, RecyclerErase
    PROVE  IInv'
  <1> USE DEF socketVars, blockVars, exitVars
  <1> DEFINE b == recycler.tcb
  <1>1. /\ recycler.step = "join" /\ LockFree
        /\ orphaned' = [orphaned EXCEPT ![pair[b]] = None]
        /\ recycler' = Recycling("delete", b)
        /\ UNCHANGED <<socketVars, blockVars, active, orphans, lock, at, exitVars>>
    BY DEF RecyclerErase, MayErase
  <1>2. b \in Blocks /\ Given(b) /\ b \notin Items(orphans) /\ b \notin deleted
    BY <1>1, InHand
  <1>3. recycler'.step = "delete" /\ recycler'.tcb = b
    BY <1>1, RecyclerIs
  <1>4. pair[b] \in Pairs
    BY <1>2, AwayMade DEF Away
  <1>5. /\ \A p \in Pairs : orphaned'[p] = IF p = pair[b] THEN None ELSE orphaned[p]
        /\ orphaned' \in [Pairs -> Blocks \cup {None}]
    BY <1>1, <1>4 DEF IInv, TypeOK
  <1>6. \A c \in Blocks, a \in Actors : ~ClosedBy(a, c)'
    BY <1>1, NobodyPushes DEF ClosedBy
  <1> HIDE DEF b
  <1>7. /\ \A c \in Blocks : Given(c)' <=> Given(c)
        /\ \A c \in Blocks : Away(c)' => Away(c)
    BY <1>1, <1>3, <1>6 DEF Given, Away, b
  <1>8. TypeOK'
    BY <1>1, <1>2, <1>5, RecyclingType DEF IInv, TypeOK
  <1>9. GivenOK'
    BY <1>1, <1>3, <1>6 DEF IInv, Custody, GivenOK, b
  <1>10. GoneOK'
    <2> SUFFICES ASSUME NEW c \in Blocks, Gone(c)'
                 PROVE  /\ c \notin Items(orphans)
                        /\ c \in deleted => b # c
                        /\ \A p \in Pairs : orphaned'[p] # c
      BY <1>1, <1>3, <1>6 DEF GoneOK
    <2>1. CASE c = b
      <3>1. \A p \in Pairs : orphaned[p] = b => p = pair[b]
        BY <1>2 DEF IInv, Custody, MadeOK, TypeOK
      <3> QED BY <1>2, <1>5, <2>1, <3>1
    <2>2. CASE c # b
      <3>1. c \in deleted
        BY <1>1, <1>3, <2>2 DEF Gone
      <3> QED BY <1>5, <2>2, <3>1 DEF IInv, Custody, GoneOK, Gone
    <2> QED BY <2>1, <2>2
  <1>11. FullOK'
    BY <1>1, <1>3, NobodyPushes DEF FullOK, Pushing
  <1>12. RecyclerOK'
    BY <1>2, <1>3 DEF RecyclerOK
  <1> QED BY <1>1, <1>5, <1>7, <1>8, <1>9, <1>10, <1>11, <1>12, RecyclerStep

LEMMA RecyclerDeleteOK ==
    ASSUME IInv, RecyclerDelete
    PROVE  IInv'
  <1> USE DEF socketVars, mapVars, exitVars
  <1> DEFINE b == recycler.tcb
  <1>1. /\ recycler.step = "delete" /\ deleted' = deleted \cup {b}
        /\ recycler' = Recycling("pop", None)
        /\ UNCHANGED <<socketVars, blk, pair, mapVars, orphans, lock, at, exitVars>>
    BY DEF RecyclerDelete
  <1>2. b \in Blocks /\ Given(b) /\ b \notin Items(orphans)
    BY <1>1, InHand
  <1>3. recycler'.step = "pop" /\ recycler'.tcb = None
    BY <1>1, RecyclerIs
  <1> HIDE DEF b
  <1>4. /\ \A c \in Blocks : Given(c)' => Given(c)
        /\ \A c \in Blocks : Gone(c)' => Gone(c)
        /\ \A c \in Blocks, a \in Actors : ClosedBy(a, c)' <=> ClosedBy(a, c)
        /\ \A c \in Blocks : Away(c)' => Away(c)
    BY <1>1, <1>2, <1>3 DEF Given, Gone, ClosedBy, Away, b
  <1>5. TypeOK'
    BY <1>1, <1>2, RecyclingType DEF IInv, TypeOK
  <1>6. GivenOK'
    <2>1. None \notin Items(orphans)
      BY OrphansKnown
    <2> QED BY <1>1, <1>3, <1>4, <2>1 DEF IInv, Custody, GivenOK
  <1>7. GoneOK'
    BY <1>1, <1>3, <1>4 DEF IInv, Custody, GoneOK
  <1>8. FullOK'
    BY <1>1, <1>3 DEF IInv, Custody, FullOK
  <1>9. RecyclerOK'
    BY <1>3 DEF RecyclerOK
  <1> QED BY <1>1, <1>4, <1>5, <1>6, <1>7, <1>8, <1>9, RecyclerStep

LEMMA RecyclerPutBackOK ==
    ASSUME IInv, RecyclerPutBack
    PROVE  IInv'
  <1> USE DEF socketVars, blockVars, mapVars, exitVars
  <1> DEFINE b == recycler.tcb
  <1>1. /\ recycler.step \in {"push", "wait"}
        /\ UNCHANGED <<socketVars, blockVars, mapVars, lock, at, exitVars>>
        /\ \/ /\ Len(orphans) # OrphanCapacity
              /\ orphans' = Append(orphans, b)
              /\ recycler' = Recycling("pop", None)
           \/ /\ Len(orphans) = OrphanCapacity
              /\ orphans' = orphans
              /\ recycler' = Recycling("wait", b)
    BY DEF RecyclerPutBack, OrphansFull
  <1>2. b \in Blocks /\ Given(b) /\ b \notin Items(orphans) /\ b \notin deleted
    BY <1>1, InHand
  <1>3. \A c \in Blocks, a \in Actors : ClosedBy(a, c)' <=> ClosedBy(a, c)
    BY <1>1 DEF ClosedBy
  <1> HIDE DEF b
  <1>4. CASE /\ Len(orphans) # OrphanCapacity
             /\ orphans' = Append(orphans, b)
             /\ recycler' = Recycling("pop", None)
    <2>1. /\ orphans' \in Seq(Blocks) /\ Len(orphans') = Len(orphans) + 1
          /\ Items(orphans') = Items(orphans) \cup {b} /\ Distinct(orphans')
      BY <1>2, <1>4, OrphansKnown, ItemsAppend
    <2>2. Len(orphans') <= OrphanCapacity /\ None \notin Items(orphans')
      BY <1>2, <1>4, <2>1, OrphansKnown
    <2>3. recycler'.step = "pop" /\ recycler'.tcb = None
      BY <1>4, RecyclerIs
    <2>4. /\ \A c \in Blocks : Given(c)' <=> Given(c)
          /\ \A c \in Blocks : Gone(c)' <=> c \in deleted
      BY <1>1, <2>1, <2>3 DEF Given, Gone, b
    <2>5. \A c \in Blocks : Away(c)' => Away(c)
      BY <1>1, <1>3, <2>4 DEF Away
    <2>6. TypeOK'
      BY <1>1, <1>4, <2>1, <2>2, RecyclingType DEF IInv, TypeOK
    <2>7. GivenOK'
      BY <1>1, <1>3, <2>1, <2>2, <2>3, <2>4 DEF IInv, Custody, GivenOK
    <2>8. GoneOK'
      BY <1>1, <1>2, <1>3, <2>1, <2>3, <2>4 DEF IInv, Custody, GoneOK, Gone
    <2>9. FullOK'
      <3>1. \A a \in Actors : at[a].step = "wait" => Len(orphans) + 1 = OrphanCapacity
        BY <1>4 DEF IInv, Custody, FullOK
      <3> QED BY <1>1, <2>1, <2>3, <3>1 DEF FullOK
    <2>10. RecyclerOK'
      BY <2>3 DEF RecyclerOK
    <2> QED BY <1>1, <2>5, <2>6, <2>7, <2>8, <2>9, <2>10, RecyclerStep
  <1>5. CASE /\ Len(orphans) = OrphanCapacity
             /\ orphans' = orphans
             /\ recycler' = Recycling("wait", b)
    <2>1. recycler'.step = "wait" /\ recycler'.tcb = b
      BY <1>5, RecyclerIs
    <2>2. /\ \A c \in Blocks : Given(c)' <=> Given(c)
          /\ \A c \in Blocks : Gone(c)' <=> Gone(c)
      BY <1>1, <1>5, <2>1 DEF Given, Gone, b
    <2>3. \A c \in Blocks : Away(c)' => Away(c)
      BY <1>1, <1>3, <2>2 DEF Away
    <2>4. TypeOK'
      BY <1>1, <1>2, <1>5, RecyclingType DEF IInv, TypeOK
    <2>5. GivenOK'
      BY <1>1, <1>3, <1>5, <2>1, <2>2 DEF IInv, Custody, GivenOK, b
    <2>6. GoneOK'
      BY <1>1, <1>3, <1>5, <2>1, <2>2 DEF IInv, Custody, GoneOK, b
    <2>7. FullOK'
      BY <1>5 DEF FullOK
    <2>8. RecyclerOK'
      BY <1>2, <2>1 DEF RecyclerOK
    <2> QED BY <1>1, <2>3, <2>4, <2>5, <2>6, <2>7, <2>8, RecyclerStep
  <1> QED BY <1>1, <1>4, <1>5

LEMMA RecyclerGiveUpOK ==
    ASSUME IInv, RecyclerGiveUp
    PROVE  IInv'
  <1> USE DEF socketVars, tcpVars, blockVars, mapVars, exitVars
  <1>1. /\ recycler.step = "wait" /\ recycler' = Recycling("pop", None)
        /\ UNCHANGED <<socketVars, tcpVars, at, exitVars>>
    BY DEF RecyclerGiveUp
  <1>2. recycler'.step = "pop" /\ recycler'.tcb = None
    BY <1>1, RecyclerIs
  <1>3. None \notin Items(orphans)
    BY OrphansKnown
  <1>4. /\ \A c \in Blocks : Given(c)' => Given(c)
        /\ \A c \in Blocks : Gone(c)' => Gone(c)
        /\ \A c \in Blocks, a \in Actors : ClosedBy(a, c)' <=> ClosedBy(a, c)
        /\ \A c \in Blocks : Away(c)' => Away(c)
    BY <1>1, <1>2 DEF Given, Gone, ClosedBy, Away
  <1>5. TypeOK'
    BY <1>1, RecyclingType DEF IInv, TypeOK
  <1>6. GivenOK'
    BY <1>1, <1>2, <1>3, <1>4 DEF IInv, Custody, GivenOK
  <1>7. GoneOK'
    BY <1>1, <1>2, <1>4 DEF IInv, Custody, GoneOK
  <1>8. FullOK'
    <2>1. Len(orphans) = OrphanCapacity
      BY <1>1 DEF IInv, Custody, FullOK
    <2> QED BY <1>1, <2>1 DEF FullOK
  <1>9. RecyclerOK'
    BY <1>2 DEF RecyclerOK
  <1> QED BY <1>1, <1>4, <1>5, <1>6, <1>7, <1>8, <1>9, RecyclerStep

LEMMA RecyclerStopOK ==
    ASSUME IInv, RecyclerStop
    PROVE  IInv'
  <1> USE DEF socketVars, tcpVars, blockVars, mapVars, exitVars
  <1>1. /\ recycler.step = "pop" /\ recycler' = Recycling("stopped", None)
        /\ UNCHANGED <<socketVars, tcpVars, at, exitVars>>
    BY DEF RecyclerStop
  <1>2. recycler'.step = "stopped" /\ recycler'.tcb = None /\ recycler.tcb = None
    BY <1>1, RecyclerIs, InHand
  <1>3. None \notin Items(orphans)
    BY OrphansKnown
  <1>4. /\ \A c \in Blocks : Given(c)' => Given(c)
        /\ \A c \in Blocks : Gone(c)' => Gone(c)
        /\ \A c \in Blocks, a \in Actors : ClosedBy(a, c)' <=> ClosedBy(a, c)
        /\ \A c \in Blocks : Away(c)' => Away(c)
    BY <1>1, <1>2 DEF Given, Gone, ClosedBy, Away
  <1>5. TypeOK'
    BY <1>1, RecyclingType DEF IInv, TypeOK
  <1>6. GivenOK'
    BY <1>1, <1>2, <1>3, <1>4 DEF IInv, Custody, GivenOK
  <1>7. GoneOK'
    BY <1>1, <1>2, <1>4 DEF IInv, Custody, GoneOK
  <1>8. FullOK'
    BY <1>1, <1>2 DEF IInv, Custody, FullOK
  <1>9. RecyclerOK'
    BY <1>2 DEF RecyclerOK
  <1> QED BY <1>1, <1>4, <1>5, <1>6, <1>7, <1>8, <1>9, RecyclerStep

-----------------------------------------------------------------------------
(* exit()                                                                  *)

\* Once the receiving threads are joined, the program is in no call.
LEMMA LeftAlone ==
    ASSUME IInv, ~receiving
    PROVE  \A t \in Threads : at[t].step = "idle"
  BY DEF IInv, Doings, CallsOK, CallOK

LEMMA ExitDoings ==
    ASSUME IInv, Only(Exit), \A t \in Threads : at[t].step = "idle",
           at'[Exit].step \in {"closing", "join", "done"} \cup Pushing,
           at'[Exit].step \in Pushing => at'[Exit].tcb \in Blocks,
           at'[Exit].step \notin Pushing => at'[Exit].tcb = None,
           ~receiving',
           lock' = IF at'[Exit].step \in Pushing \cup {"closing"} THEN Exit
                   ELSE None,
           UNCHANGED <<socketVars, recycler>>
    PROVE  Doings'
  <1> USE DEF socketVars
  <1>1. \A t \in Threads : at'[t] = at[t] /\ t # Exit
    BY DEF Only
  <1>2. CallsOK'
    BY <1>1 DEF IInv, Doings, CallsOK, CallOK, InCall, Pushing
  <1>3. ExitOK'
    BY IdleIs DEF ExitOK, Pushing
  <1>4. LockOK'
    BY <1>1 DEF LockOK, Pushing
  <1> QED BY <1>2, <1>3, <1>4 DEF IInv, Doings, SocksOK, RecyclerOK

\* Steps of exit() between the closing of two blocks.
LEMMA ExitStep ==
    ASSUME IInv, Only(Exit), \A t \in Threads : at[t].step = "idle",
           at[Exit].step \notin Pushing,
           at'[Exit].step \in {"closing", "join", "done"}, at'[Exit].tcb = None,
           ~receiving',
           lock' = IF at'[Exit].step = "closing" THEN Exit ELSE None,
           TypeOK',
           \A p \in toClose' : p \in Pairs /\ active[p] # None
                               /\ \A b \in Blocks : active[p] = b => ~Away(b),
           UNCHANGED <<socketVars, pair, deleted, mapVars, orphans, recycler>>
    PROVE  IInv'
  <1> USE DEF socketVars, mapVars
  <1>1. Doings'
    BY ExitDoings DEF Pushing
  <1>2. \A a \in Actors, b \in Blocks : /\ ClosedBy(a, b)' <=> ClosedBy(a, b)
                                        /\ at'[a].step # "wait"
    BY DEF ClosedBy, Only, Pushing
  <1>3. \A b \in Blocks : /\ Given(b)' <=> Given(b)
                          /\ Gone(b)' <=> Gone(b)
                          /\ Away(b)' <=> Away(b)
    BY <1>2 DEF Given, Gone, Away
  <1>4. \A b \in Blocks, k \in Kinds, x \in Places : Holds(k, x, b)' <=> Holds(k, x, b)
    BY DEF Holds, Only
  <1>5. QueuesOK' /\ OneHolder' /\ AwayOK'
    BY <1>4 DEF IInv, Custody, QueuesOK, OneHolder, AwayOK
  <1>6. MadeOK'
    BY <1>3, <1>4 DEF IInv, Custody, MadeOK
  <1>7. GivenOK'
    <2>1. \A b \in Blocks, a \in Actors : ~ClosedBy(a, b)
      BY DEF ClosedBy, Pushing
    <2> QED BY <1>2, <2>1 DEF IInv, Custody, GivenOK
  <1>8. GoneOK'
    BY <1>2, <1>3 DEF IInv, Custody, GoneOK
  <1>9. ToCloseOK'
    BY <1>3 DEF ToCloseOK
  <1>10. FullOK'
    <2>1. \A a \in Actors : at'[a].step # "wait"
      BY DEF Only
    <2> QED BY <2>1 DEF IInv, Custody, FullOK
  <1> QED BY <1>1, <1>5, <1>6, <1>7, <1>8, <1>9, <1>10 DEF IInv, Custody

LEMMA ExitingIs ==
    ASSUME NEW step \in {"closing", "join", "done"}
    PROVE  /\ Doing(step, None, None, 0) \in Activity
           /\ Doing(step, None, None, 0).step = step
           /\ Doing(step, None, None, 0).tcb = None
  BY DEF Doing, Activity

LEMMA ExitStartOK ==
    ASSUME IInv, ExitStart
    PROVE  IInv'
  <1> USE DEF mapVars, socketVars, blockVars
  <1> DEFINE now == Doing("closing", None, None, 0)
  <1>1. /\ at[Exit] = Idle /\ LockFree /\ \A t \in Threads : at[t] = Idle
        /\ receiving' = FALSE /\ toClose' = {p \in Pairs : active[p] # None}
        /\ lock' = Exit /\ Goes(Exit, now)
        /\ UNCHANGED <<socketVars, blockVars, mapVars, orphans, recycler>>
    BY DEF ExitStart
  <1>2. now \in Activity /\ now.step = "closing" /\ now.tcb = None
    BY ExitingIs
  <1> HIDE DEF now
  <1>3. at' \in [Actors -> Activity] /\ at'[Exit] = now /\ Only(Exit)
    BY <1>1, <1>2, Going
  <1>4. TypeOK'
    BY <1>1, <1>3 DEF IInv, TypeOK
  <1>5. \A p \in toClose' : /\ p \in Pairs /\ active[p] # None
                            /\ \A b \in Blocks : active[p] = b => ~Away(b)
    <2>1. receiving
      BY <1>1 DEF IInv, Doings, ExitOK
    <2> QED BY <1>1, <2>1 DEF IInv, Custody, AwayOK
  <1>6. \A t \in Threads : at[t].step = "idle"
    BY <1>1, IdleIs
  <1>7. at[Exit].step \notin Pushing
    BY <1>1, IdleIs DEF Pushing
  <1> QED BY <1>1, <1>2, <1>3, <1>4, <1>5, <1>6, <1>7, ExitStep

\* Not in the middle of exit()'s closing, Exit has no block.
LEMMA Exiting ==
    ASSUME IInv, at[Exit].step \in {"closing", "join", "done"} \cup Pushing
    PROVE  /\ ~receiving /\ \A t \in Threads : at[t].step = "idle"
           /\ lock = IF at[Exit].step \in Pushing \cup {"closing"} THEN Exit
                     ELSE None
           /\ at[Exit].step \notin Pushing => at[Exit].tcb = None
           /\ at[Exit] \in Activity
           /\ \A p \in toClose : p \in Pairs /\ active[p] # None
                                 /\ \A b \in Blocks : active[p] = b => ~Away(b)
  <1>1. ~receiving
    BY IdleIs DEF IInv, Doings, ExitOK, Pushing
  <1>2. \A t \in Threads : at[t].step = "idle"
    BY <1>1, LeftAlone
  <1>3. lock = IF at[Exit].step \in Pushing \cup {"closing"} THEN Exit ELSE None
    <2>1. \A t \in Threads : lock # t
      BY <1>2 DEF IInv, Doings, LockOK, Pushing
    <2>2. lock \in Actors \cup {None}
      BY DEF IInv, TypeOK
    <2> QED BY <2>1, <2>2 DEF IInv, Doings, LockOK
  <1>4. /\ at[Exit].step \notin Pushing => at[Exit].tcb = None
        /\ at[Exit] \in Activity
    BY DEF IInv, Doings, ExitOK, TypeOK
  <1>5. \A p \in toClose : p \in Pairs /\ active[p] # None
                           /\ \A b \in Blocks : active[p] = b => ~Away(b)
    BY DEF IInv, Custody, ToCloseOK, TypeOK
  <1> QED BY <1>1, <1>2, <1>3, <1>4, <1>5

LEMMA ExitJoinOK ==
    ASSUME IInv, ExitJoin
    PROVE  IInv'
  <1> USE DEF mapVars, socketVars, blockVars, exitVars
  <1> DEFINE now == Doing("join", None, None, 0)
  <1>1. /\ at[Exit].step = "closing" /\ lock' = None /\ Goes(Exit, now)
        /\ UNCHANGED <<socketVars, blockVars, mapVars, orphans, recycler, exitVars>>
    BY DEF ExitJoin, LockAfterClosing
  <1>2. now \in Activity /\ now.step = "join" /\ now.tcb = None
    BY ExitingIs
  <1> HIDE DEF now
  <1>3. at' \in [Actors -> Activity] /\ at'[Exit] = now /\ Only(Exit)
    BY <1>1, <1>2, Going
  <1>4. TypeOK'
    BY <1>1, <1>3 DEF IInv, TypeOK
  <1> QED BY <1>1, <1>2, <1>3, <1>4, Exiting, ExitStep DEF Pushing

LEMMA ExitEndOK ==
    ASSUME IInv, ExitEnd
    PROVE  IInv'
  <1> USE DEF mapVars, socketVars, blockVars, exitVars, tcpVars
  <1> DEFINE now == Doing("done", None, None, 0)
  <1>1. /\ at[Exit].step = "join" /\ Goes(Exit, now)
        /\ UNCHANGED <<socketVars, tcpVars, recycler, exitVars>>
    BY DEF ExitEnd
  <1>2. now \in Activity /\ now.step = "done" /\ now.tcb = None
    BY ExitingIs
  <1> HIDE DEF now
  <1>3. at' \in [Actors -> Activity] /\ at'[Exit] = now /\ Only(Exit)
    BY <1>1, <1>2, Going
  <1>4. TypeOK'
    BY <1>1, <1>3 DEF IInv, TypeOK
  <1> QED BY <1>1, <1>2, <1>3, <1>4, Exiting, ExitStep DEF Pushing

LEMMA ExitCloseOK ==
    ASSUME IInv, NEW p \in Pairs, ExitClose(p)
    PROVE  IInv'
  <1> USE DEF mapVars, socketVars, exitVars
  <1>1. /\ at[Exit].step = "closing" /\ p \in toClose
        /\ toClose' = toClose \ {p}
        /\ UNCHANGED <<socketVars, pair, deleted, mapVars, orphans, lock,
                       recycler, receiving>>
    BY DEF ExitClose
  <1>2. PICK b \in Blocks : b = active[p]
    BY <1>1, Exiting DEF IInv, TypeOK
  <1>3. /\ \E becomes \in Closed(blk[b]) : blk' = [blk EXCEPT ![b] = becomes]
        /\ Goes(Exit, IF CloseFails(blk[b]) THEN at[Exit]
                      ELSE Doing("push", None, b, 0))
    BY <1>2 DEF ExitClose, Block_
  <1>4. blk' \in [Blocks -> Block]
    <2>1. blk \in [Blocks -> Block]
      BY DEF IInv, TypeOK
    <2> QED BY <1>3, <2>1, ClosedType
  <1>5. /\ ~receiving /\ \A t \in Threads : at[t].step = "idle"
        /\ lock = Exit /\ at[Exit].tcb = None /\ at[Exit] \in Activity
        /\ \A q \in toClose : /\ q \in Pairs /\ active[q] # None
                              /\ \A c \in Blocks : active[q] = c => ~Away(c)
    BY <1>1, Exiting DEF Pushing
  <1>6. ~Away(b) /\ pair[b] = p /\ p # None
    BY <1>1, <1>2, <1>5 DEF IInv, Custody, MadeOK
  <1>7. CASE Goes(Exit, at[Exit])
    <2>1. at' \in [Actors -> Activity] /\ at'[Exit] = at[Exit] /\ Only(Exit)
      BY <1>5, <1>7, Going
    <2>2. TypeOK'
      BY <1>1, <1>4, <2>1 DEF IInv, TypeOK
    <2> QED BY <1>1, <1>5, <2>1, <2>2, ExitStep DEF Pushing
  <1>8. CASE Goes(Exit, Doing("push", None, b, 0))
    <2> DEFINE now == Doing("push", None, b, 0)
    <2>1. now \in Activity /\ now.step = "push" /\ now.tcb = b
      BY DEF Doing, Activity
    <2> HIDE DEF now
    <2>2. at' \in [Actors -> Activity] /\ at'[Exit] = now /\ Only(Exit)
      BY <1>8, <2>1, Going DEF now
    <2>3. TypeOK'
      BY <1>1, <1>4, <2>2 DEF IInv, TypeOK
    <2>4. Doings'
      BY <1>1, <1>5, <2>1, <2>2, ExitDoings DEF Pushing
    <2>5. /\ \A c \in Blocks, a \in Actors : ClosedBy(a, c)' <=> a = Exit /\ c = b
          /\ \A c \in Blocks, a \in Actors : ~ClosedBy(a, c)
          /\ \A a \in Actors : at'[a].step # "wait"
      BY <1>1, <1>5, <2>1, <2>2 DEF ClosedBy, Only, Pushing
    <2>6. \A c \in Blocks : /\ Given(c)' <=> Given(c)
                            /\ Gone(c)' <=> Gone(c)
                            /\ Away(c)' <=> Away(c) \/ c = b
                            /\ Gone(c) \/ Given(c) => Away(c)
      BY <1>1, <2>5 DEF Given, Gone, Away
    <2>7. \A c \in Blocks, k \in Kinds, x \in Places : Holds(k, x, c)' <=> Holds(k, x, c)
      BY <1>1, <2>2 DEF Holds, Only
    <2>8. QueuesOK' /\ OneHolder' /\ AwayOK'
      BY <1>1, <1>5, <2>7 DEF IInv, Custody, QueuesOK, OneHolder, AwayOK
    <2>9. MadeOK'
      BY <1>1, <1>6, <2>6, <2>7 DEF IInv, Custody, MadeOK
    <2>10. GivenOK'
      BY <1>1, <1>6, <2>5, <2>6 DEF IInv, Custody, GivenOK
    <2>11. GoneOK'
      BY <1>1, <1>6, <2>5, <2>6 DEF IInv, Custody, GoneOK
    <2>12. ToCloseOK'
      <3>1. \A q \in toClose' : q \in toClose /\ q # p
        BY <1>1
      <3>2. \A q \in Pairs : active[q] = b => q = p
        BY <1>6 DEF IInv, Custody, MadeOK
      <3> QED BY <1>1, <1>5, <2>6, <3>1, <3>2 DEF ToCloseOK
    <2>13. FullOK'
      BY <1>1, <2>5 DEF IInv, Custody, FullOK
    <2> QED BY <2>3, <2>4, <2>8, <2>9, <2>10, <2>11, <2>12, <2>13 DEF IInv, Custody
  <1> QED BY <1>3, <1>7, <1>8

LEMMA ExitInsertOK ==
    ASSUME IInv, ExitInsert
    PROVE  IInv'
  <1> USE DEF blockVars, socketVars, exitVars
  <1> DEFINE now == Doing("closing", None, None, 0)
  <1>1. /\ at[Exit].step = "insert" /\ Goes(Exit, now)
        /\ orphaned' = [orphaned EXCEPT ![pair[at[Exit].tcb]] = at[Exit].tcb]
        /\ UNCHANGED <<socketVars, blockVars, active, orphans, lock, recycler,
                       exitVars>>
    BY DEF ExitInsert
  <1>2. now \in Activity /\ now.step = "closing" /\ now.tcb = None
    BY ExitingIs
  <1> HIDE DEF now
  <1>3. at' \in [Actors -> Activity] /\ at'[Exit] = now /\ Only(Exit)
    BY <1>1, <1>2, Going
  <1>4. TypeOK'
    <2>1. orphaned' \in [Pairs -> Blocks \cup {None}]
      BY <1>1, InsertType
    <2> QED BY <1>1, <1>3, <2>1 DEF IInv, TypeOK
  <1>5. ~receiving /\ lock = Exit /\ \A t \in Threads : at[t].step = "idle"
    BY <1>1, Exiting DEF Pushing
  <1>6. Doings'
    BY <1>1, <1>2, <1>3, <1>5, ExitDoings DEF Pushing
  <1>7. Custody'
    <2>1. QueuesOK'
      BY <1>1 DEF IInv, Custody, QueuesOK
    <2>2. \A c \in Blocks, k \in Kinds, x \in Places : Holds(k, x, c)' => Holds(k, x, c)
      BY <1>1, <1>3 DEF Holds, Only
    <2> QED BY <1>1, <1>2, <1>3, <1>5, <2>1, <2>2, InsertCustody DEF Pushing
  <1> QED BY <1>4, <1>6, <1>7 DEF IInv

-----------------------------------------------------------------------------
(* The invariant.                                                          *)

LEMMA InitInv == Init => IInv
  <1> SUFFICES ASSUME Init
               PROVE  IInv
    OBVIOUS
  <1> USE DEF Init
  <1>1. /\ <<>> \in Seq(Blocks) /\ Len(<<>>) = 0 /\ Items(<<>>) = {}
        /\ Distinct(<<>>)
    BY EmptySeq DEF Items, Distinct
  <1>2. NoSocket \in SocketBlock /\ NoBlock \in Block
    BY <1>1 DEF NoSocket, SocketBlock, NoBlock, Block, States
  <1>3. recycler.step = "pop" /\ recycler.tcb = None
    BY RecyclerIs
  <1>4. TypeOK
    <2>1. recycler \in [step : {"pop", "join", "delete", "push", "wait", "stopped"},
                        tcb : Blocks \cup {None}]
      BY RecyclingType
    <2>2. orphans \in Seq(Blocks) /\ Len(orphans) <= OrphanCapacity
      BY <1>1
    <2>3. sock \in [Fds -> SocketBlock] /\ blk \in [Blocks -> Block]
      BY <1>2
    <2>4. at \in [Actors -> Activity]
      BY IdleIs
    <2>5. /\ pair \in [Blocks -> Pairs \cup {None}]
          /\ active \in [Pairs -> Blocks \cup {None}]
          /\ orphaned \in [Pairs -> Blocks \cup {None}]
          /\ lock \in Actors \cup {None} /\ listening \in Fds \cup {None}
      OBVIOUS
    <2>6. /\ deleted \subseteq Blocks /\ ended \subseteq Fds /\ toClose \subseteq Pairs
          /\ receiving \in BOOLEAN /\ aborted \in BOOLEAN
      OBVIOUS
    <2> HIDE DEF Init
    <2> QED BY <2>1, <2>2, <2>3, <2>4, <2>5, <2>6 DEF TypeOK
  <1>5. Doings
    <2>1. CallsOK
      BY IdleIs DEF CallsOK, CallOK, InCall, Pushing
    <2>2. SocksOK
      BY DEF SocksOK, NoSocket
    <2>3. ExitOK /\ LockOK
      BY IdleIs DEF ExitOK, LockOK, Pushing
    <2> QED BY <1>3, <2>1, <2>2, <2>3 DEF Doings, RecyclerOK
  <1>6. Custody
    <2>1. \A b \in Blocks : ~Given(b) /\ b \notin deleted /\ ~Gone(b)
      BY <1>1, <1>3 DEF Given, Gone
    <2>2. \A a \in Actors, b \in Blocks : ~ClosedBy(a, b) /\ at[a].step # "wait"
      BY IdleIs DEF ClosedBy, Pushing
    <2>3. \A b \in Blocks : ~Away(b)
      BY <2>1, <2>2 DEF Away
    <2>4. \A b \in Blocks, k \in Kinds, x \in Places : ~Holds(k, x, b)
      BY <1>1, IdleIs DEF Holds, NoSocket
    <2>5. QueuesOK /\ OneHolder
      BY <1>1, <2>4 DEF QueuesOK, OneHolder, NoSocket
    <2>6. MadeOK /\ AwayOK
      BY <2>3, <2>4 DEF MadeOK, AwayOK
    <2>7. GivenOK /\ GoneOK /\ ToCloseOK
      BY <1>1, <2>1 DEF GivenOK, GoneOK, ToCloseOK
    <2>8. FullOK
      BY <1>3, <2>2, IdleIs DEF FullOK
    <2> QED BY <2>5, <2>6, <2>7, <2>8 DEF Custody
  <1> QED BY <1>4, <1>5, <1>6 DEF IInv

LEMMA StutterOK ==
    ASSUME IInv, UNCHANGED vars
    PROVE  IInv'
  <1>1. UNCHANGED <<socketVars, pair, deleted, mapVars, orphans, lock, at,
                    recycler, exitVars>> /\ UNCHANGED blk
    BY DEF vars, tcpVars, blockVars
  <1>2. blk' \in [Blocks -> Block]
    BY <1>1 DEF IInv, TypeOK
  <1> QED BY <1>1, <1>2, BlockOnly

LEMMA CallInv ==
    ASSUME IInv, NEW t \in Threads, Call(t)
    PROVE  IInv'
  BY SocketOK, BindOK, ListenOK, ConnectOK, AcceptOK, ReadOK, WriteOK, CloseOK,
     CloseListeningOK DEF Call

LEMMA ContinueInv ==
    ASSUME IInv, NEW t \in Threads, Continue(t)
    PROVE  IInv'
  BY ConnectedOK, AcceptPopOK, AcceptTakeOK, AcceptPutBackOK, ReadAgainOK,
     ReadStateOK, WriteAgainOK, WriteStateOK, DrainOK, InsertOrphanOK,
     PushOrphanOK, WaitForRoomOK, GiveUpPushOK DEF Continue

LEMMA RecyclerInv ==
    ASSUME IInv, Recycler
    PROVE  IInv'
  BY RecyclerPopOK, RecyclerEraseOK, RecyclerDeleteOK, RecyclerPutBackOK,
     RecyclerGiveUpOK, RecyclerStopOK DEF Recycler

LEMMA LeavingInv ==
    ASSUME IInv, Leaving
    PROVE  IInv'
  BY ExitCloseOK, PushOrphanOK, WaitForRoomOK, GiveUpPushOK, ExitInsertOK,
     ExitJoinOK, ExitEndOK DEF Leaving

LEMMA StepInv == IInv /\ [Next]_vars => IInv'
  <1> SUFFICES ASSUME IInv, [Next]_vars
               PROVE  IInv'
    OBVIOUS
  <1>1. CASE \E t \in Threads : Call(t) \/ Continue(t)
    BY <1>1, CallInv, ContinueInv
  <1>2. CASE ReceiveSyn
    BY <1>2, ReceiveSynOK
  <1>3. CASE ReceiveSegment
    BY <1>3, ReceiveSegmentOK
  <1>4. CASE \E b \in Blocks : Timer(b)
    BY <1>4, TimerOK
  <1>5. CASE Recycler
    BY <1>5, RecyclerInv
  <1>6. CASE ExitStart
    BY <1>6, ExitStartOK
  <1>7. CASE Leaving
    BY <1>7, LeavingInv
  <1>8. CASE UNCHANGED vars
    BY <1>8, StutterOK
  <1> QED BY <1>1, <1>2, <1>3, <1>4, <1>5, <1>6, <1>7, <1>8 DEF Next

\* Where each block is, and what each thread does with it.
THEOREM Invariant == Spec => []IInv
  BY InitInv, StepInv, PTL DEF Spec

\* The state of a host keeps its type: of the blocks also, whatever a segment,
\* a timer or a call does to them, and the queue of orphans its limit.
THEOREM TypeCorrect == Spec => []TypeOK
  <1>1. IInv => TypeOK
    BY DEF IInv
  <1> QED BY <1>1, Invariant, PTL

LEMMA DeletedOut ==
    ASSUME IInv
    PROVE  DeletedOutOfReach
  <1> SUFFICES ASSUME NEW b \in deleted
               PROVE  /\ ~InCare(b)
                      /\ \A a \in Actors : at[a].tcb # b
                      /\ receiving =>
                            /\ \A fd \in Fds :
                                  /\ sock[fd].state = "ACTIVE" => sock[fd].tcb # b
                                  /\ b \notin Items(sock[fd].accepting)
                            /\ \A p \in Pairs : active[p] # b /\ orphaned[p] # b
    BY DEF DeletedOutOfReach
  <1>1. b \in Blocks /\ b # None /\ Gone(b) /\ Away(b)
    BY DEF IInv, TypeOK, Gone, Away
  <1>2. /\ b \notin Items(orphans) /\ recycler.tcb # b
        /\ \A a \in Actors : ~ClosedBy(a, b)
        /\ \A p \in Pairs : orphaned[p] # b
    BY <1>1 DEF IInv, Custody, GoneOK
  <1>3. receiving => /\ \A p \in Pairs : active[p] # b
                     /\ \A k \in Kinds, x \in Places : ~Holds(k, x, b)
    BY <1>1, <1>2 DEF IInv, Custody, AwayOK
  <1>4. receiving => \A fd \in Fds :
                        /\ sock[fd].state = "ACTIVE" => sock[fd].tcb # b
                        /\ b \notin Items(sock[fd].accepting)
    <2>1. \A fd \in Fds : /\ fd \in Places
                          /\ "socket" \in Kinds /\ "queue" \in Kinds
      BY DEF Kinds, Places
    <2> QED BY <1>3, <2>1 DEF Holds
  <1>5. ~InCare(b)
    BY <1>2 DEF InCare, ClosedBy, Pushing
  <1>6. at[Exit].tcb # b
    BY <1>1, <1>2 DEF ClosedBy, IInv, Doings, ExitOK
  <1>7. ASSUME NEW t \in Threads, at[t].tcb = b
        PROVE  FALSE
    <2>1. CallOK(t) /\ at[t] \in Activity
      BY Known
    <2>2. at[t].step \notin Pushing
      BY <1>2, <1>7 DEF ClosedBy
    <2>3. at[t].step # "idle" /\ receiving
      BY <1>1, <1>7, <2>1, IdleIs DEF CallOK
    <2>4. at[t].step \in InCall \cup {"look"}
      BY <1>1, <1>7, <2>1, <2>2, <2>3 DEF CallOK, Activity, InCall, Pushing
    <2>5. CASE at[t].step = "look"
      <3>1. Holds("thread", t, b) /\ "thread" \in Kinds /\ t \in Places
        BY <1>7, <2>5 DEF Holds, Kinds, Places
      <3> QED BY <1>3, <2>3, <3>1
    <2>6. CASE at[t].step \in InCall
      <3>1. at[t].fd \in Fds /\ sock[at[t].fd].state = "ACTIVE" /\ sock[at[t].fd].tcb = b
        BY <1>7, <2>1, <2>3, <2>6 DEF CallOK
      <3> QED BY <1>4, <2>3, <3>1
    <2> QED BY <2>4, <2>5, <2>6
  <1> QED BY <1>2, <1>3, <1>4, <1>5, <1>6, <1>7

\* A block is deleted when nobody can reach it any more: no thread in a call,
\* no queue, and, while segments arrive, no descriptor and neither map
\* (tcb_recycler frees the blocks without tcp_lock).
THEOREM DeletedIsOutOfReach == Spec => []DeletedOutOfReach
  BY Invariant, DeletedOut, PTL

LEMMA HolderIs ==
    ASSUME NEW b \in Blocks, NEW e \in Holders(b)
    PROVE  \E k \in Kinds, x \in Places :
              /\ Holds(k, x, b)
              /\ \/ k # "queue" /\ e = <<k, x, 0>>
                 \/ /\ k = "queue" /\ x \in Fds
                    /\ \E i \in 1..Len(sock[x].accepting) :
                          sock[x].accepting[i] = b /\ e = <<k, x, i>>
  <1>1. /\ "socket" \in Kinds /\ "thread" \in Kinds /\ "queue" \in Kinds
        /\ Fds \subseteq Places /\ Threads \subseteq Places
    BY DEF Kinds, Places
  <1>2. CASE \E fd \in Fds : /\ sock[fd].state = "ACTIVE" /\ sock[fd].tcb = b
                             /\ e = <<"socket", fd, 0>>
    BY <1>1, <1>2 DEF Holds
  <1>3. CASE \E t \in Threads : /\ at[t].step = "look" /\ at[t].tcb = b
                                /\ e = <<"thread", t, 0>>
    BY <1>1, <1>3 DEF Holds
  <1>4. CASE \E fd \in Fds : \E i \in 1..Len(sock[fd].accepting) :
                sock[fd].accepting[i] = b /\ e = <<"queue", fd, i>>
    <2>1. PICK fd \in Fds : \E i \in 1..Len(sock[fd].accepting) :
             sock[fd].accepting[i] = b /\ e = <<"queue", fd, i>>
      BY <1>4
    <2>2. Holds("queue", fd, b)
      BY <2>1 DEF Holds, Items
    <2> QED BY <1>1, <2>1, <2>2
  <1> QED BY <1>2, <1>3, <1>4 DEF Holders

LEMMA OnlyHolder ==
    ASSUME IInv, NEW b \in Blocks, NEW e \in Holders(b), NEW f \in Holders(b)
    PROVE  e = f
  <1>1. PICK k \in Kinds, x \in Places :
              /\ Holds(k, x, b)
              /\ \/ k # "queue" /\ e = <<k, x, 0>>
                 \/ /\ k = "queue" /\ x \in Fds
                    /\ \E i \in 1..Len(sock[x].accepting) :
                          sock[x].accepting[i] = b /\ e = <<k, x, i>>
    BY HolderIs
  <1>2. PICK l \in Kinds, y \in Places :
              /\ Holds(l, y, b)
              /\ \/ l # "queue" /\ f = <<l, y, 0>>
                 \/ /\ l = "queue" /\ y \in Fds
                    /\ \E i \in 1..Len(sock[y].accepting) :
                          sock[y].accepting[i] = b /\ f = <<l, y, i>>
    BY HolderIs
  <1>3. k = l /\ x = y
    BY <1>1, <1>2 DEF IInv, Custody, OneHolder
  <1>4. CASE k = "queue"
    <2>1. Distinct(sock[x].accepting)
      BY <1>1, <1>4 DEF IInv, Custody, QueuesOK
    <2> QED BY <1>1, <1>2, <1>3, <1>4, <2>1 DEF Distinct
  <1> QED BY <1>1, <1>2, <1>3, <1>4

LEMMA HandedOut ==
    ASSUME IInv
    PROVE  HandedOutOnce
  <1> SUFFICES ASSUME NEW b \in Blocks
               PROVE  Cardinality(Holders(b)) <= 1
    BY DEF HandedOutOnce
  <1>1. CASE Holders(b) = {}
    BY <1>1, FS_EmptySet
  <1>2. CASE Holders(b) # {}
    <2>1. PICK e : e \in Holders(b)
      BY <1>2
    <2>2. \A f \in Holders(b) : f = e
      BY <2>1, OnlyHolder
    <2>3. Holders(b) = {e}
      BY <2>1, <2>2
    <2>4. Cardinality(Holders(b)) = 1
      BY <2>3, FS_Singleton
    <2> QED BY <2>4
  <1> QED BY <1>1, <1>2

\* A connection is handed to the application once, however many threads wait
\* in accept() and whatever close() drains.
THEOREM ConnectionsHandedOutOnce == Spec => []HandedOutOnce
  BY Invariant, HandedOut, PTL

-----------------------------------------------------------------------------
(* How many blocks are in care, and when one is lost.                      *)

LEMMA ItemsCount ==
    ASSUME NEW S, NEW s \in Seq(S), Distinct(s)
    PROVE  IsFiniteSet(Items(s)) /\ Cardinality(Items(s)) = Len(s)
  <1> DEFINE f == [i \in 1..Len(s) |-> s[i]]
  <1>1. Len(s) \in Nat
    BY LenProperties
  <1>2. \A i \in 1..Len(s) : s[i] \in Items(s)
    BY DEF Items
  <1>3. f \in Surjection(1..Len(s), Items(s)) /\ f \in Injection(1..Len(s), Items(s))
    <2>1. f \in [1..Len(s) -> Items(s)] /\ \A i \in 1..Len(s) : f[i] = s[i]
      BY <1>2
    <2>2. \A e \in Items(s) : \E i \in 1..Len(s) : s[i] = e
      BY DEF Items
    <2>3. \A i, j \in 1..Len(s) : s[i] = s[j] => i = j
      BY DEF Distinct
    <2> HIDE DEF f
    <2>4. \A e \in Items(s) : \E i \in 1..Len(s) : f[i] = e
      BY <2>1, <2>2
    <2>5. \A i, j \in 1..Len(s) : f[i] = f[j] => i = j
      BY <2>1, <2>3
    <2> QED BY <2>1, <2>4, <2>5 DEF Surjection, Injection, IsInjective
  <1> HIDE DEF f
  <1>4. IsFiniteSet(1..Len(s)) /\ Cardinality(1..Len(s)) = Len(s)
    <2>1. 1 \in Int /\ Len(s) \in Int
      BY <1>1
    <2>2. Cardinality(1..Len(s)) = IF 1 > Len(s) THEN 0 ELSE Len(s) - 1 + 1
      BY <2>1, FS_Interval
    <2>3. (IF 1 > Len(s) THEN 0 ELSE Len(s) - 1 + 1) = Len(s)
      BY <1>1
    <2>4. IsFiniteSet(1..Len(s))
      BY <2>1, FS_Interval
    <2> QED BY <2>2, <2>3, <2>4
  <1> QED BY <1>3, <1>4, FS_Surjection

Cares == {c \in Blocks : InCare(c)}

LEMMA CaresFinite ==
    ASSUME IInv
    PROVE  IsFiniteSet(Cares)
  <1> DEFINE held == Items(orphans) \cup {recycler.tcb} \cup {at[lock].tcb}
  <1>1. IsFiniteSet(Items(orphans))
    BY OrphansKnown, ItemsCount
  <1>2. IsFiniteSet(held)
    BY <1>1, FS_AddElement
  <1>3. Cares \subseteq held
    <2>1. ASSUME NEW a \in Actors, at[a].step \in {"push", "wait"}
          PROVE  lock = a
      BY <2>1 DEF IInv, Doings, LockOK, Pushing
    <2> QED BY <2>1 DEF Cares, InCare
  <1> QED BY <1>2, <1>3, FS_Subset

\* The queue is full, and one more or two are in care.
LEMMA CaresMany ==
    ASSUME IInv, NEW b \in Blocks, InCare(b), b \notin Items(orphans),
           \/ Len(orphans) = OrphanCapacity
           \/ /\ Len(orphans) + 1 = OrphanCapacity
              /\ recycler.step \in {"join", "push"} /\ recycler.tcb # b
    PROVE  Cardinality(Cares) > OrphanCapacity
  <1> DEFINE one == Items(orphans) \cup {b}
             two == one \cup {recycler.tcb}
  <1>1. /\ IsFiniteSet(Items(orphans)) /\ Cardinality(Items(orphans)) = Len(orphans)
        /\ Len(orphans) \in Nat /\ OrphanCapacity \in Nat
        /\ Items(orphans) \subseteq Blocks
    BY OrphansKnown, ItemsCount
  <1>2. IsFiniteSet(one) /\ Cardinality(one) = Len(orphans) + 1
    BY <1>1, FS_AddElement
  <1>3. IsFiniteSet(Cares)
    BY CaresFinite
  <1>4. one \subseteq Cares
    BY <1>1 DEF Cares, InCare
  <1>5. \A T : T \subseteq Cares => Cardinality(T) <= Cardinality(Cares)
    BY <1>3, FS_Subset
  <1>6. Cardinality(Cares) \in Nat
    BY <1>3, FS_CardinalityType
  <1>7. CASE Len(orphans) = OrphanCapacity
    <2>1. Cardinality(one) <= Cardinality(Cares)
      BY <1>4, <1>5
    <2> QED BY <1>1, <1>2, <1>6, <1>7, <2>1
  <1>8. CASE /\ Len(orphans) + 1 = OrphanCapacity
             /\ recycler.step \in {"join", "push"} /\ recycler.tcb # b
    <2>1. recycler.tcb \in Blocks /\ recycler.tcb \notin Items(orphans)
      BY <1>8, InHand
    <2>2. recycler.tcb \notin one
      BY <1>8, <2>1
    <2> HIDE DEF one
    <2>3. Cardinality(two) = Cardinality(one) + 1
      BY <1>2, <2>2, FS_AddElement
    <2>4. two \subseteq Cares
      BY <1>4, <2>1 DEF Cares, InCare
    <2>5. Cardinality(two) <= Cardinality(Cares)
      BY <1>5, <2>4
    <2> QED BY <1>1, <1>2, <1>6, <1>8, <2>3, <2>5
  <1> QED BY <1>7, <1>8

\* A step that leaves the queue, the recycler and the pushes alone.
LEMMA CareKept ==
    ASSUME UNCHANGED <<orphans, recycler>>, NEW b \in Blocks, InCare(b),
           \A a \in Actors : at[a].step \in {"push", "wait"} => at'[a] = at[a]
    PROVE  InCare(b)'
  BY DEF InCare

\* A step of one thread, that is not in a push.
Elsewhere(a) ==
    /\ UNCHANGED <<orphans, recycler>>
    /\ at[a].step \notin {"push", "wait"}
    /\ at' = at \/ \E now : Goes(a, now)

LEMMA ElsewhereKeeps ==
    ASSUME IInv, NEW a \in Actors, Elsewhere(a), NEW b \in Blocks, InCare(b)
    PROVE  InCare(b)'
  <1>1. \A c \in Actors : at[c].step \in {"push", "wait"} => at'[c] = at[c]
    BY DEF Elsewhere, Goes, IInv, TypeOK
  <1> QED BY <1>1, CareKept DEF Elsewhere

LEMMA CallElsewhere ==
    ASSUME IInv, NEW t \in Threads, Call(t)
    PROVE  Elsewhere(t)
  <1> USE DEF tcpVars, Elsewhere
  <1>1. ASSUME Free(t)
        PROVE  at[t].step \notin {"push", "wait"}
    BY <1>1, FreeKnown
  <1>2. CASE Socket(t)
    BY <1>1, <1>2 DEF Socket
  <1>3. ASSUME NEW fd \in Fds, Bind(t, fd) \/ Listen(t, fd) \/ Connect(t, fd)
        PROVE  Elsewhere(t)
    BY <1>1, <1>3 DEF Bind, Listen, Connect, Calls, Open
  <1>4. ASSUME NEW fd \in Fds, Accept(t, fd) \/ Read(t, fd) \/ CloseListening(t, fd)
        PROVE  Elsewhere(t)
    BY <1>1, <1>4 DEF Accept, Read, Receive, CloseListening, Calls
  <1>5. ASSUME NEW fd \in Fds, NEW n \in 0..MaxWrite, Write(t, fd, n)
        PROVE  Elsewhere(t)
    BY <1>1, <1>5 DEF Write, Send, Calls
  <1>6. ASSUME NEW fd \in Fds, Close(t, fd)
        PROVE  Elsewhere(t)
    BY <1>1, <1>6 DEF Close, CloseBlock, Calls
  <1> QED BY <1>2, <1>3, <1>4, <1>5, <1>6 DEF Call

LEMMA ContinueElsewhere ==
    ASSUME NEW t \in Threads, Continue(t),
           ~PushOrphan(t), ~WaitForRoom(t), ~GiveUpPush(t)
    PROVE  Elsewhere(t)
  <1> USE DEF tcpVars, Elsewhere
  <1>1. CASE Connected(t) \/ AcceptPop(t) \/ AcceptTake(t) \/ AcceptPutBack(t)
    BY <1>1 DEF Connected, AcceptPop, AcceptTake, AcceptPutBack
  <1>2. CASE ReadAgain(t) \/ ReadState(t)
    BY <1>2 DEF ReadAgain, ReadState, Receive
  <1>3. CASE WriteAgain(t) \/ WriteState(t)
    BY <1>3 DEF WriteAgain, WriteState, Send
  <1>4. CASE Drain(t) \/ InsertOrphan(t)
    BY <1>4 DEF Drain, CloseBlock, InsertOrphan
  <1> QED BY <1>1, <1>2, <1>3, <1>4 DEF Continue

LEMMA ExitElsewhere ==
    ASSUME \/ ExitStart \/ \E p \in Pairs : ExitClose(p)
           \/ ExitInsert \/ ExitJoin \/ ExitEnd
    PROVE  Elsewhere(Exit)
  <1> USE DEF tcpVars, Elsewhere
  <1>1. CASE ExitStart
    BY <1>1, IdleIs DEF ExitStart
  <1>2. CASE \E p \in Pairs : ExitClose(p)
    BY <1>2 DEF ExitClose
  <1>3. CASE ExitInsert \/ ExitJoin \/ ExitEnd
    BY <1>3 DEF ExitInsert, ExitJoin, ExitEnd
  <1> QED BY <1>1, <1>2, <1>3

LEMMA StackElsewhere ==
    ASSUME ReceiveSyn \/ ReceiveSegment \/ (\E b \in Blocks : Timer(b)) \/ UNCHANGED vars
    PROVE  UNCHANGED <<orphans, recycler, at>>
  BY DEF ReceiveSyn, Open, ReceiveSegment, Timer, vars, tcpVars

\* The push of an orphan keeps it, or gives up on it.
LEMMA PushKeeps ==
    ASSUME IInv, NEW a \in Actors,
           PushOrphan(a) \/ WaitForRoom(a) \/ GiveUpPush(a),
           NEW b \in Blocks, InCare(b), ~InCare(b)'
    PROVE  /\ b \notin Items(orphans)
           /\ \/ Len(orphans) = OrphanCapacity
              \/ /\ Len(orphans) + 1 = OrphanCapacity
                 /\ recycler.step \in {"join", "push"} /\ recycler.tcb # b
  <1>1. /\ at[a].step \in {"push", "wait"} /\ recycler' = recycler
        /\ \E step : Goes(a, [at[a] EXCEPT !.step = step])
    BY DEF PushOrphan, WaitForRoom, GiveUpPush
  <1>2. /\ lock = a /\ at[a].tcb \in Blocks /\ ~Given(at[a].tcb)
        /\ \A c \in Actors : c # a => at[c].step \notin {"push", "wait"}
    BY <1>1, PushingAlone DEF Pushing
  <1>3. Items(orphans) \subseteq Items(orphans')
    <2>1. CASE orphans' = orphans
      BY <2>1
    <2>2. CASE orphans' = Append(orphans, at[a].tcb)
      BY <1>2, <2>2, OrphansKnown, ItemsAppend
    <2> QED BY <2>1, <2>2 DEF PushOrphan, WaitForRoom, GiveUpPush, tcpVars
  <1>4. b = at[a].tcb
    BY <1>1, <1>2, <1>3 DEF InCare
  <1>5. b \notin Items(orphans) /\ recycler.tcb # b
    BY <1>2, <1>4 DEF Given
  <1>6. CASE PushOrphan(a)
    <2>1. orphans' = Append(orphans, b)
      BY <1>4, <1>6 DEF PushOrphan
    <2>2. b \in Items(orphans')
      BY <2>1, OrphansKnown, ItemsAppend
    <2> QED BY <2>2 DEF InCare
  <1>7. CASE WaitForRoom(a)
    BY <1>5, <1>7 DEF WaitForRoom, OrphansFull
  <1>8. CASE GiveUpPush(a)
    <2>1. at[a].step = "wait"
      BY <1>8 DEF GiveUpPush
    <2> QED BY <1>5, <2>1 DEF IInv, Custody, FullOK
  <1> QED BY <1>6, <1>7, <1>8

\* The recycler keeps an orphan, deletes it, or gives up on it.
LEMMA RecyclerKeeps ==
    ASSUME IInv, Recycler, NEW b \in Blocks, InCare(b), ~InCare(b)', b \notin deleted'
    PROVE  b \notin Items(orphans) /\ Len(orphans) = OrphanCapacity
  <1>1. at' = at
    BY DEF Recycler, RecyclerPop, RecyclerErase, RecyclerDelete, RecyclerPutBack,
           RecyclerGiveUp, RecyclerStop
  <1>2. b \in Items(orphans) \/ recycler.tcb = b
    BY <1>1 DEF InCare
  <1>3. b \notin Items(orphans') /\ recycler'.tcb # b
    BY DEF InCare
  <1>4. CASE RecyclerPop
    <2>1. /\ recycler.step = "pop" /\ orphans # <<>> /\ orphans' = Tail(orphans)
          /\ \E step : recycler' = Recycling(step, Head(orphans))
      BY <1>4 DEF RecyclerPop
    <2>2. recycler.tcb = None /\ recycler'.tcb = Head(orphans)
      BY <2>1, InHand, RecyclerIs
    <2>3. Items(orphans) = Items(orphans') \cup {Head(orphans)}
      BY <2>1, OrphansKnown, ItemsTail
    <2> QED BY <1>2, <1>3, <2>2, <2>3
  <1>5. CASE RecyclerErase
    BY <1>2, <1>3, <1>5, RecyclerIs DEF RecyclerErase
  <1>6. CASE RecyclerDelete
    BY <1>2, <1>3, <1>6 DEF RecyclerDelete
  <1>7. CASE RecyclerPutBack
    <2>1. recycler.tcb \in Blocks
      BY <1>7, InHand DEF RecyclerPutBack
    <2>2. CASE orphans' = Append(orphans, recycler.tcb)
      BY <1>2, <1>3, <2>1, <2>2, OrphansKnown, ItemsAppend
    <2>3. CASE orphans' = orphans /\ recycler' = Recycling("wait", recycler.tcb)
      BY <1>2, <1>3, <2>3, RecyclerIs
    <2> QED BY <1>7, <2>2, <2>3 DEF RecyclerPutBack
  <1>8. CASE RecyclerGiveUp
    <2>1. recycler.step = "wait" /\ orphans' = orphans
      BY <1>8 DEF RecyclerGiveUp, tcpVars
    <2> QED BY <1>3, <2>1 DEF IInv, Custody, FullOK
  <1>9. CASE RecyclerStop
    <2>1. recycler.step = "pop" /\ orphans' = orphans
      BY <1>9 DEF RecyclerStop, tcpVars
    <2> QED BY <1>2, <1>3, <2>1, InHand
  <1> QED BY <1>4, <1>5, <1>6, <1>7, <1>8, <1>9 DEF Recycler

LEMMA LostStep ==
    ASSUME IInv, [Next]_vars, NEW b \in Blocks, InCare(b), ~InCare(b)', b \notin deleted'
    PROVE  Cardinality(Cares) > OrphanCapacity
  <1>1. CASE \E t \in Threads : Call(t)
    BY <1>1, CallElsewhere, ElsewhereKeeps
  <1>2. CASE \E t \in Threads : Continue(t)
    BY <1>2, ContinueElsewhere, ElsewhereKeeps, PushKeeps, CaresMany
  <1>3. CASE ReceiveSyn \/ ReceiveSegment \/ (\E c \in Blocks : Timer(c)) \/ UNCHANGED vars
    BY <1>3, StackElsewhere, CareKept
  <1>4. CASE Recycler
    BY <1>4, RecyclerKeeps, CaresMany
  <1>5. CASE ExitStart
    BY <1>5, ExitElsewhere, ElsewhereKeeps
  <1>6. CASE Leaving
    BY <1>6, ExitElsewhere, ElsewhereKeeps, PushKeeps, CaresMany DEF Leaving
  <1> QED BY <1>1, <1>2, <1>3, <1>4, <1>5, <1>6 DEF Next

\* A push gives up on an orphan, which then is never deleted, only while there
\* are more orphans than orphaned_tcb has places: be it the push of tcp_close
\* or the one with which the recycler puts an open orphan back.
THEOREM OrphansLostOnlyWhenFull == Spec => LostOnlyWhenFull
  <1> DEFINE Lost == \A b \in Blocks :
                        InCare(b) /\ ~InCare(b)' /\ b \notin deleted'
                        => Cardinality({c \in Blocks : InCare(c)}) > OrphanCapacity
  <1>1. IInv /\ [Next]_vars => Lost
    BY LostStep DEF Cares
  <1>2. IInv /\ [Next]_vars => [Lost]_vars
    BY <1>1
  <1> QED BY <1>2, Invariant, PTL DEF Spec, LostOnlyWhenFull

-----------------------------------------------------------------------------
(* Steps that leave the map of active blocks alone.                        *)

LEMMA ReceiveOpen ==
    ASSUME OInv, NEW t \in Threads, NEW fd, NEW b \in Blocks, NEW n \in Nat,
           Receive(t, fd, b, n), at[t].step \notin Pushing
    PROVE  OpenOK'
  <1> DEFINE now == IF Taken(blk[b], n) > 0 THEN Idle ELSE Doing("peek", fd, b, n)
  <1>1. /\ UNCHANGED <<sock, pair, active, receiving>> /\ Goes(t, now)
        /\ blk' = [blk EXCEPT ![b] = Received(blk[b], n)]
    BY DEF Receive, socketVars, mapVars, exitVars, Block_
  <1>2. now.step # "look"
    BY IdleIs DEF Doing
  <1> HIDE DEF now
  <1>3. \A d \in Blocks : Ends(blk[d], blk'[d])
    <2>1. blk[b] \in Block
      BY DEF OInv, IInv, TypeOK
    <2> QED BY <1>1, <2>1, ReceivedType, EndsOne DEF OInv
  <1> QED BY <1>1, <1>2, <1>3, GoesOnOpen

LEMMA SendOpen ==
    ASSUME OInv, NEW t \in Threads, NEW fd, NEW b \in Blocks, NEW n \in Nat,
           Send(t, fd, b, n), at[t].step \notin Pushing
    PROVE  OpenOK'
  <1>1. /\ UNCHANGED <<sock, pair, active, receiving>>
        /\ \/ blk' = blk
           \/ \E c \in Sent(blk[b], n) : blk' = [blk EXCEPT ![b] = c]
    BY DEF Send, socketVars, mapVars, exitVars, Block_
  <1>2. \E now : Goes(t, now) /\ now.step # "look"
    <2> DEFINE full == Doing("full", fd, b, n)
               write == Doing("write", fd, b, n - Pushed(blk[b], n))
    <2>1. Goes(t, Idle) \/ Goes(t, full) \/ Goes(t, write)
      BY DEF Send
    <2>2. full.step # "look" /\ write.step # "look"
      BY DEF Doing
    <2> HIDE DEF full, write
    <2> QED BY <2>1, <2>2, IdleIs
  <1>3. \A d \in Blocks : Ends(blk[d], blk'[d])
    <2>1. blk[b] \in Block
      BY DEF OInv, IInv, TypeOK
    <2> QED BY <1>1, <2>1, SentType, EndsOne, EndsSame DEF OInv
  <1> QED BY <1>1, <1>2, <1>3, GoesOnOpen

\* The calls and steps of a thread that change no descriptor.
LEMMA QuietCalls ==
    ASSUME OInv, NEW t \in Threads,
           \/ Connected(t) \/ ReadAgain(t) \/ ReadState(t)
           \/ WriteAgain(t) \/ WriteState(t)
           \/ \E fd \in Fds : \/ Accept(t, fd) \/ Read(t, fd) \/ CloseListening(t, fd)
                              \/ \E n \in 0..MaxWrite : Write(t, fd, n)
    PROVE  OpenOK'
  <1> USE DEF socketVars, tcpVars, blockVars, mapVars, exitVars
  <1>1. ASSUME Free(t)
        PROVE  at[t].step \notin Pushing
    BY <1>1, FreeKnown DEF OInv, Pushing
  <1>2. at[t] \in Activity /\ CallOK(t)
    BY Known DEF OInv
  <1>3. CASE Connected(t)
    BY <1>3, IdleIs, EndsSame, GoesOnOpen DEF Connected, Pushing
  <1>4. CASE ReadAgain(t)
    <2>1. at[t].step = "read" /\ at[t].tcb \in Blocks /\ at[t].rest \in Nat
      BY <1>2, <1>4 DEF ReadAgain, CallOK, InCall, Activity
    <2> QED BY <1>4, <2>1, ReceiveOpen DEF ReadAgain, Pushing
  <1>5. CASE WriteAgain(t)
    <2>1. at[t].step = "write" /\ at[t].tcb \in Blocks /\ at[t].rest \in Nat
      BY <1>2, <1>5 DEF WriteAgain, CallOK, InCall, Activity
    <2> QED BY <1>5, <2>1, SendOpen DEF WriteAgain, Pushing
  <1>6. CASE ReadState(t) \/ WriteState(t)
    <2>1. /\ at[t].step \notin Pushing /\ UNCHANGED <<sock, pair, active, receiving, blk>>
          /\ \/ Goes(t, Idle) \/ Goes(t, [at[t] EXCEPT !.step = "read"])
             \/ Goes(t, [at[t] EXCEPT !.step = "write"])
      BY <1>6 DEF ReadState, WriteState, Pushing
    <2>2. /\ [at[t] EXCEPT !.step = "read"].step = "read"
          /\ [at[t] EXCEPT !.step = "write"].step = "write"
      BY <1>2 DEF Activity
    <2> QED BY <2>1, <2>2, IdleIs, EndsSame, GoesOnOpen
  <1>7. ASSUME NEW fd \in Fds, Accept(t, fd) \/ CloseListening(t, fd)
        PROVE  OpenOK'
    <2>1. /\ at[t].step \notin Pushing /\ UNCHANGED <<sock, pair, active, receiving, blk>>
          /\ \E step \in {"accept", "drain"} : Goes(t, Doing(step, fd, None, 0))
      BY <1>1, <1>7 DEF Accept, CloseListening, Calls
    <2>2. \A step \in {"accept", "drain"} : Doing(step, fd, None, 0).step # "look"
      BY DEF Doing
    <2> QED BY <2>1, <2>2, EndsSame, GoesOnOpen
  <1>8. ASSUME NEW fd \in Fds, Read(t, fd)
        PROVE  OpenOK'
    <2>1. sock[fd].tcb \in Blocks /\ 1 \in Nat /\ at[t].step \notin Pushing
      BY <1>1, <1>8, Known DEF Read, Calls, OInv, IInv, Doings, SocksOK
    <2> QED BY <1>8, <2>1, ReceiveOpen DEF Read
  <1>9. ASSUME NEW fd \in Fds, NEW n \in 0..MaxWrite, Write(t, fd, n)
        PROVE  OpenOK'
    <2>1. sock[fd].tcb \in Blocks /\ n \in Nat /\ at[t].step \notin Pushing
      BY <1>1, <1>9, Known DEF Write, Calls, OInv, IInv, Doings, SocksOK
    <2> QED BY <1>9, <2>1, SendOpen DEF Write
  <1> QED BY <1>3, <1>4, <1>5, <1>6, <1>7, <1>8, <1>9

\* The push of an orphan; the handler, the timers and the recycler.
LEMMA PushOpen ==
    ASSUME OInv, NEW a \in Actors, PushOrphan(a) \/ WaitForRoom(a) \/ GiveUpPush(a)
    PROVE  OpenOK'
  <1>1. /\ at[a].step \in Pushing
        /\ UNCHANGED <<sock, blk, pair, active, receiving>>
        /\ \E step \in Pushing : Goes(a, [at[a] EXCEPT !.step = step])
    BY DEF PushOrphan, WaitForRoom, GiveUpPush, Pushing, socketVars, tcpVars,
           blockVars, mapVars, exitVars
  <1>2. at[a] \in Activity
    BY DEF OInv, IInv, TypeOK
  <1>3. PICK step \in Pushing : at' = [at EXCEPT ![a] = [at[a] EXCEPT !.step = step]]
    BY <1>1 DEF Goes
  <1>4. at'[a] = [at[a] EXCEPT !.step = step] /\ Only(a)
    BY <1>3 DEF OInv, IInv, TypeOK, Only
  <1>5. at'[a].step = step /\ at'[a].tcb = at[a].tcb
    BY <1>2, <1>4 DEF Activity
  <1> QED BY <1>1, <1>4, <1>5, EndsSame, QuietOpen

LEMMA StackOpen ==
    ASSUME OInv,
           \/ ReceiveSegment \/ (\E b \in Blocks : Timer(b))
           \/ Recycler \/ UNCHANGED vars
    PROVE  OpenOK'
  <1> USE DEF socketVars, tcpVars, blockVars, mapVars, exitVars
  <1>1. UNCHANGED <<sock, pair, active, receiving, at>>
    BY DEF ReceiveSegment, Timer, vars, Recycler, RecyclerPop, RecyclerErase,
           RecyclerDelete, RecyclerPutBack, RecyclerGiveUp, RecyclerStop
  <1>2. blk \in [Blocks -> Block]
    BY DEF OInv, IInv, TypeOK
  <1>3. CASE ReceiveSegment
    <2>1. PICK p \in Pairs : /\ Found(p) # None
                             /\ \E c \in OnSegment(blk[Found(p)]) :
                                   blk' = [blk EXCEPT ![Found(p)] = c]
      BY <1>3 DEF ReceiveSegment, Block_
    <2>2. Found(p) \in Blocks
      BY <2>1 DEF Found, OInv, IInv, TypeOK
    <2>3. \A b \in Blocks : Ends(blk[b], blk'[b])
      BY <1>2, <2>1, <2>2, SegmentType, EndsOne DEF OInv
    <2> QED BY <1>1, <2>3, QuietOpen DEF Only
  <1>4. ASSUME NEW b \in Blocks, Timer(b)
        PROVE  OpenOK'
    <2>1. \A d \in Blocks : Ends(blk[d], blk'[d])
      BY <1>2, <1>4, TimerType, EndsOne DEF OInv, Timer, Block_
    <2> QED BY <1>1, <2>1, QuietOpen DEF Only
  <1>5. CASE Recycler \/ UNCHANGED vars
    <2>1. UNCHANGED blk
      BY <1>5 DEF vars, Recycler, RecyclerPop, RecyclerErase, RecyclerDelete,
                  RecyclerPutBack, RecyclerGiveUp, RecyclerStop
    <2> QED BY <1>1, <2>1, EndsSame, QuietOpen DEF Only
  <1> QED BY <1>3, <1>4, <1>5

-----------------------------------------------------------------------------
(* The other steps, and what follows.                                      *)

\* After the receiving threads have stopped nothing is to be found.
LEMMA ExitOpen ==
    ASSUME OInv, ExitStart \/ Leaving
    PROVE  OpenOK'
  <1>1. CASE ExitStart
    BY <1>1 DEF ExitStart, OpenOK
  <1>2. CASE PushOrphan(Exit) \/ WaitForRoom(Exit) \/ GiveUpPush(Exit)
    BY <1>2, PushOpen
  <1>3. CASE (\E p \in Pairs : ExitClose(p)) \/ ExitInsert \/ ExitJoin \/ ExitEnd
    <2>1. at[Exit].step \in {"closing", "insert", "join"} /\ receiving' = receiving
      BY <1>3 DEF ExitClose, ExitInsert, ExitJoin, ExitEnd, exitVars
    <2>2. ~receiving
      BY <2>1, IdleIs DEF OInv, IInv, Doings, ExitOK
    <2> QED BY <2>1, <2>2 DEF OpenOK
  <1> QED BY <1>1, <1>2, <1>3 DEF Leaving

LEMMA StepOpen ==
    ASSUME ~Retries, OInv, [Next]_vars
    PROVE  OInv'
  <1>1. SUFFICES OpenOK'
    BY StepInv DEF OInv
  <1>2. ASSUME NEW t \in Threads, Call(t)
        PROVE  OpenOK'
    <2>1. CASE Socket(t)
      BY <2>1, SocketOK DEF OInv, Opens
    <2>2. ASSUME NEW fd \in Fds,
                 Bind(t, fd) \/ Listen(t, fd) \/ Connect(t, fd) \/ Close(t, fd)
          PROVE  OpenOK'
      BY <2>2, BindOK, ListenOK, ConnectOK, CloseOK DEF OInv, Opens
    <2>3. ASSUME NEW fd \in Fds,
                 \/ Accept(t, fd) \/ Read(t, fd) \/ CloseListening(t, fd)
                 \/ \E n \in 0..MaxWrite : Write(t, fd, n)
          PROVE  OpenOK'
      BY <2>3, QuietCalls
    <2> QED BY <1>2, <2>1, <2>2, <2>3 DEF Call
  <1>3. ASSUME NEW t \in Threads, Continue(t)
        PROVE  OpenOK'
    <2>1. CASE Connected(t) \/ ReadAgain(t) \/ ReadState(t) \/ WriteAgain(t)
               \/ WriteState(t)
      BY <2>1, QuietCalls
    <2>2. CASE AcceptPop(t) \/ AcceptTake(t) \/ AcceptPutBack(t)
      BY <2>2, AcceptPopOK, AcceptTakeOK, AcceptPutBackOK DEF OInv, Opens
    <2>3. CASE Drain(t) \/ InsertOrphan(t)
      BY <2>3, DrainOK, InsertOrphanOK DEF OInv, Opens
    <2>4. CASE PushOrphan(t) \/ WaitForRoom(t) \/ GiveUpPush(t)
      BY <2>4, PushOpen
    <2> QED BY <1>3, <2>1, <2>2, <2>3, <2>4 DEF Continue
  <1>4. CASE ReceiveSyn
    BY <1>4, ReceiveSynOK DEF OInv, Opens
  <1>5. CASE \/ ReceiveSegment \/ (\E b \in Blocks : Timer(b)) \/ Recycler
             \/ UNCHANGED vars
    BY <1>5, StackOpen
  <1>6. CASE ExitStart \/ Leaving
    BY <1>6, ExitOpen
  <1> QED BY <1>2, <1>3, <1>4, <1>5, <1>6 DEF Next

LEMMA InitOpen == Init => OInv
  <1> SUFFICES ASSUME Init
               PROVE  OInv
    OBVIOUS
  <1>1. IInv
    BY InitInv
  <1>2. \A b \in Blocks : pair[b] = None
    BY DEF Init
  <1>3. OpenOK
    BY <1>1, <1>2 DEF OpenOK, Wants, IInv, Custody, MadeOK
  <1> QED BY <1>1, <1>3 DEF OInv

LEMMA OpenFound == OInv => OpenMeansFound
  <1> SUFFICES ASSUME OInv, receiving, NEW fd \in Fds, sock[fd].state = "ACTIVE",
                      sock[fd].tcb # None, blk[sock[fd].tcb].state \in OpenStates
               PROVE  Found(pair[sock[fd].tcb]) = sock[fd].tcb
    BY DEF OpenMeansFound, OpenStates
  <1>1. sock[fd].tcb \in Blocks
    BY DEF OInv, IInv, TypeOK, SocketBlock
  <1>2. PICK b \in Blocks : b = sock[fd].tcb
    BY <1>1
  <1>3. pair[b] # None
    <2>1. Holds("socket", fd, b) /\ "socket" \in Kinds /\ fd \in Places
      BY <1>2 DEF Holds, Kinds, Places
    <2> QED BY <2>1 DEF OInv, IInv, Custody, MadeOK
  <1>4. active[pair[b]] = b /\ b # None
    BY <1>2, <1>3 DEF OInv, OpenOK, InMap
  <1> QED BY <1>2, <1>4 DEF Found

\* The segments of a connection that is open, and that a descriptor has, find
\* its block in tcp_segment_handler, if programs do not call close() again when
\* it has failed.
THEOREM OpenConnectionsFound ==
    ASSUME Retries = FALSE
    PROVE  Spec => []OpenMeansFound
  <1>1. OInv /\ [Next]_vars => OInv'
    BY StepOpen
  <1> QED BY <1>1, InitOpen, OpenFound, PTL DEF Spec

=============================================================================
