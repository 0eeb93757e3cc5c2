------------------------------ MODULE Sockets ------------------------------
(***************************************************************************)
(* One host: the calls of pnx_socket.cc, the maps of pnx_tcp.cc that hold  *)
(* the blocks, the recycler thread with its bounded queue of orphans, and  *)
(* the clean-up at exit.                                                   *)
(*                                                                         *)
(* A call is as many steps as it takes and gives back locks.  The handler  *)
(* and the timers hold tcp_lock from beginning to end, so they are single  *)
(* steps that need the lock to be free; tcp_close gives up the processor   *)
(* with the lock held while the queue of orphans is full.                  *)
(***************************************************************************)
EXTENDS TcbStates, Sequences, FiniteSetsExt

CONSTANTS
    Threads,        \* the application's threads
    Exit,           \* the thread in which exit() runs
    Fds,            \* bound: the descriptors the program gets, in order
    Blocks,         \* bound: the blocks that can be made, in order
    Inbound,        \* address pairs of connections that others open
    Outbound,       \* address pairs connect() can choose (a port by rand())
    Backlog,        \* the argument of listen()
    AcceptCapacity, \* the size of SocketBlock::accepting (1024)
    OrphanCapacity, \* the size of orphaned_tcb (100)
    MaxWrite,       \* bound: the longest argument of write()
    Retries,        \* whether programs call close() again when it has failed
    None

Actors == Threads \cup {Exit}
Pairs == Inbound \cup Outbound

ASSUME SocketAssumption ==
    /\ Fds \subseteq Nat /\ Blocks \subseteq Nat
    /\ Exit \notin Threads
    /\ Inbound \cap Outbound = {}
    /\ None \notin Fds \cup Blocks \cup Actors \cup Pairs
    /\ Backlog \in Nat \ {0} /\ AcceptCapacity \in Nat /\ OrphanCapacity \in Nat
    /\ MaxWrite \in Nat /\ Retries \in BOOLEAN
    \* Every thread can hold one connection of the backlog in its hand.
    /\ Backlog + Cardinality(Threads) <= AcceptCapacity

VARIABLES
    sock,       \* the socket block of each descriptor
    listening,  \* listening_socket: the descriptor that has the port
    blk,        \* what is in each block
    pair,       \* the address pair of each block that has been made
    deleted,    \* the blocks given to delete
    active,     \* active_tcb_map
    orphaned,   \* orphaned_tcb_map
    orphans,    \* orphaned_tcb
    lock,       \* who keeps tcp_lock from one step to the next
    at,         \* what each thread is doing: step, descriptor, block, bytes
    recycler,   \* the step of tcb_recycler and the block it has in hand
    receiving,  \* whether the receiving threads still run
    toClose,    \* the active pairs the clean-up at exit has not come to
    aborted,    \* whether an assert has failed
    ended       \* (history) the descriptors whose read() has returned 0

socketVars == <<sock, listening, aborted, ended>>
blockVars == <<blk, pair, deleted>>
mapVars == <<active, orphaned>>
tcpVars == <<blockVars, mapVars, orphans, lock>>
exitVars == <<receiving, toClose>>
vars == <<socketVars, tcpVars, at, recycler, exitVars>>

NoSocket == [state |-> "none", tcb |-> None, accepting |-> <<>>, owner |-> None]
Doing(step, fd, b, rest) == [step |-> step, fd |-> fd, tcb |-> b, rest |-> rest]
Idle == Doing("idle", None, None, 0)
Recycling(step, b) == [step |-> step, tcb |-> b]

Init ==
    /\ sock = [fd \in Fds |-> NoSocket]
    /\ listening = None
    /\ blk = [b \in Blocks |-> NoBlock]
    /\ pair = [b \in Blocks |-> None]
    /\ deleted = {}
    /\ active = [p \in Pairs |-> None]
    /\ orphaned = [p \in Pairs |-> None]
    /\ orphans = <<>>
    /\ lock = None
    /\ at = [a \in Actors |-> Idle]
    /\ recycler = Recycling("pop", None)
    /\ receiving = TRUE
    /\ toClose = {}
    /\ aborted = FALSE
    /\ ended = {}

LockFree == lock = None

Unmade == {b \in Blocks : pair[b] = None}
Unused == {fd \in Fds : sock[fd].state = "none"}

\* The program has not been left, and thread t is in no call.
Free(t) == at[t] = Idle /\ at[Exit] = Idle /\ ~aborted

\* A program that keeps each descriptor to one thread, and does not use one on
\* which listen(), connect() or (without Retries) close() has failed.
Calls(t, fd) == Free(t) /\ sock[fd].owner = t

Block_(b, becomes) == blk' = [blk EXCEPT ![b] = becomes]
Goes(t, doing) == at' = [at EXCEPT ![t] = doing]

-----------------------------------------------------------------------------
(* Making descriptors and connections.                                     *)

\* Mutant: only the orphans are looked at.
PairTakenByOrphan(p) == orphaned[p] # None

\* _tcp_open refuses a pair that has a block.
PairTaken(p) == active[p] # None \/ orphaned[p] # None

\* _tcp_open of a pair that has none.
Open(b, p, passive) ==
    /\ b = Min(Unmade)
    /\ Block_(b, Opened(passive))
    /\ pair' = [pair EXCEPT ![b] = p]
    /\ active' = [active EXCEPT ![p] = b]
    /\ UNCHANGED <<deleted, orphaned, orphans, lock>>

\* socket()
Socket(t) ==
    /\ Free(t)
    /\ \E fd \in Unused :
          /\ fd = Min(Unused)
          /\ sock' = [sock EXCEPT ![fd] =
                          [NoSocket EXCEPT !.state = "DEFAULT", !.owner = t]]
    /\ UNCHANGED <<listening, aborted, ended, tcpVars, at, recycler, exitVars>>

\* bind()
Bind(t, fd) ==
    /\ Calls(t, fd) /\ sock[fd].state = "DEFAULT"
    /\ sock' = [sock EXCEPT ![fd].state = "BINDED"]
    /\ UNCHANGED <<listening, aborted, ended, tcpVars, at, recycler, exitVars>>

\* tcp_register_listening_socket and tcp_unregister_listening_socket.
Registering(fd) == IF listening = None THEN fd ELSE listening
Unregistering(fd) == IF listening = fd THEN None ELSE listening

\* listen(): where the port has been taken it fails, but the state has changed.
Listen(t, fd) ==
    /\ Calls(t, fd) /\ sock[fd].state = "BINDED"
    /\ LockFree
    /\ sock' = [sock EXCEPT ![fd].state = "LISTENING",
                            ![fd].owner = IF listening = None THEN t ELSE None]
    /\ listening' = Registering(fd)
    /\ UNCHANGED <<aborted, ended, tcpVars, at, recycler, exitVars>>

\* connect(): where the pair has been taken it fails, but the state has changed.
Connect(t, fd) ==
    /\ Calls(t, fd) /\ sock[fd].state = "DEFAULT"
    /\ LockFree
    /\ \E p \in Outbound :
          IF PairTaken(p)
          THEN /\ sock' = [sock EXCEPT ![fd].state = "ACTIVE",
                                       ![fd].owner = None]
               /\ UNCHANGED <<tcpVars, at>>
          ELSE \E b \in Unmade :
                  /\ Open(b, p, FALSE)
                  /\ sock' = [sock EXCEPT ![fd].state = "ACTIVE", ![fd].tcb = b]
                  /\ Goes(t, Doing("connect", fd, b, 0))
    /\ UNCHANGED <<listening, aborted, ended, recycler, exitVars>>

\* connect() looks every 10 ms, and for one state only.
Connected(t) ==
    /\ at[t].step = "connect" /\ LockFree
    /\ blk[at[t].tcb].state = "ESTABLISHED"
    /\ Goes(t, Idle)
    /\ UNCHANGED <<socketVars, tcpVars, recycler, exitVars>>

\* socket_recv_new_tcp_conn
HasRoom(fd) == /\ sock[fd].state = "LISTENING"
               /\ Len(sock[fd].accepting) < Backlog
               /\ Len(sock[fd].accepting) < AcceptCapacity

\* tcp_segment_handler of a SYN: the block is made before the backlog is asked,
\* and its answer is ignored.
ReceiveSyn ==
    /\ receiving /\ LockFree
    /\ listening # None
    /\ \E p \in Inbound, b \in Unmade :
          /\ ~PairTaken(p)
          /\ Open(b, p, TRUE)
          /\ sock' = IF HasRoom(listening)
                     THEN [sock EXCEPT ![listening].accepting = Append(@, b)]
                     ELSE sock
    /\ UNCHANGED <<listening, aborted, ended, at, recycler, exitVars>>

-----------------------------------------------------------------------------
(* accept()                                                                *)

\* Mutant: the connection is looked at, and stays in the queue.
Unpopped(queue) == queue

Popped(queue) == Tail(queue)

\* Any thread may wait at a listening socket.
Accept(t, fd) ==
    /\ Free(t) /\ sock[fd].state = "LISTENING" /\ sock[fd].owner # None
    /\ Goes(t, Doing("accept", fd, None, 0))
    /\ UNCHANGED <<socketVars, tcpVars, recycler, exitVars>>

AcceptPop(t) ==
    LET queue == sock[at[t].fd].accepting
    IN  /\ at[t].step = "accept" /\ queue # <<>>
        /\ sock' = [sock EXCEPT ![at[t].fd].accepting = Popped(@)]
        /\ Goes(t, Doing("look", at[t].fd, Head(queue), 0))
        /\ UNCHANGED <<listening, aborted, ended, tcpVars, recycler, exitVars>>

\* The candidate is established: it gets a descriptor.
AcceptTake(t) ==
    /\ at[t].step = "look" /\ LockFree
    /\ blk[at[t].tcb].state = "ESTABLISHED"
    /\ \E fd \in Unused :
          /\ fd = Min(Unused)
          /\ sock' = [sock EXCEPT ![fd] =
                          [state |-> "ACTIVE", tcb |-> at[t].tcb,
                           accepting |-> <<>>, owner |-> t]]
    /\ Goes(t, Idle)
    /\ UNCHANGED <<listening, aborted, ended, tcpVars, recycler, exitVars>>

\* Mutant: the candidate is put back where it was.
PutFirst(queue, b) == <<b>> \o queue

PutBack(queue, b) == Append(queue, b)

\* It is not: assert(1 == sb->accepting.push(candidate)).
AcceptPutBack(t) ==
    /\ at[t].step = "look" /\ LockFree
    /\ blk[at[t].tcb].state # "ESTABLISHED"
    /\ IF Len(sock[at[t].fd].accepting) < AcceptCapacity
       THEN /\ sock' = [sock EXCEPT ![at[t].fd].accepting =
                            PutBack(@, at[t].tcb)]
            /\ UNCHANGED aborted
       ELSE aborted' = TRUE /\ UNCHANGED sock
    /\ Goes(t, Doing("accept", at[t].fd, None, 0))
    /\ UNCHANGED <<listening, ended, tcpVars, recycler, exitVars>>

-----------------------------------------------------------------------------
(* read() and write()                                                      *)

\* tcp_receive: the bytes that are there, or a look at the state.
Receive(t, fd, b, n) ==
    /\ LockFree
    /\ Block_(b, Received(blk[b], n))
    /\ Goes(t, IF Taken(blk[b], n) > 0 THEN Idle ELSE Doing("peek", fd, b, n))
    /\ UNCHANGED <<socketVars, pair, deleted, mapVars, orphans, lock,
                   recycler, exitVars>>

Read(t, fd) ==
    /\ Calls(t, fd) /\ sock[fd].state = "ACTIVE"
    /\ Receive(t, fd, sock[fd].tcb, 1)

ReadAgain(t) ==
    /\ at[t].step = "read"
    /\ Receive(t, at[t].fd, at[t].tcb, at[t].rest)

\* No bytes: the end of the stream, or the loop goes on.
ReadState(t) ==
    /\ at[t].step = "peek" /\ LockFree
    /\ IF NoDataIncoming(blk[at[t].tcb])
       THEN Goes(t, Idle) /\ ended' = ended \cup {at[t].fd}
       ELSE /\ Goes(t, [at[t] EXCEPT !.step = "read"])
            /\ UNCHANGED ended
    /\ UNCHANGED <<sock, listening, aborted, tcpVars, recycler, exitVars>>

\* tcp_send of what is left: all of it, some, none, or refused.
Send(t, fd, b, n) ==
    /\ LockFree
    /\ IF blk[b].state # "ESTABLISHED"
       THEN Goes(t, Idle) /\ UNCHANGED blk
       ELSE /\ \E becomes \in Sent(blk[b], n) : Block_(b, becomes)
            /\ LET use == Pushed(blk[b], n)
               IN  Goes(t, CASE use = n -> Idle
                             [] use = 0 /\ n # 0 -> Doing("full", fd, b, n)
                             [] OTHER -> Doing("write", fd, b, n - use))
    /\ UNCHANGED <<socketVars, pair, deleted, mapVars, orphans, lock,
                   recycler, exitVars>>

Write(t, fd, n) ==
    /\ Calls(t, fd) /\ sock[fd].state = "ACTIVE"
    /\ Send(t, fd, sock[fd].tcb, n)

WriteAgain(t) ==
    /\ at[t].step = "write"
    /\ Send(t, at[t].fd, at[t].tcb, at[t].rest)

\* No room: the loop goes on while the state allows.
WriteState(t) ==
    /\ at[t].step = "full" /\ LockFree
    /\ Goes(t, IF CanSend(blk[at[t].tcb])
               THEN [at[t] EXCEPT !.step = "write"] ELSE Idle)
    /\ UNCHANGED <<socketVars, tcpVars, recycler, exitVars>>

-----------------------------------------------------------------------------
(* close()                                                                 *)

\* What a thread does once a block is closed, or the closing has failed.
AfterClose(t, fd) ==
    IF sock[fd].state = "ACTIVE" THEN Idle ELSE Doing("drain", fd, None, 0)

\* tcp_close takes tcp_lock, forgets the pair, and closes the block.
CloseBlock(t, fd, b) ==
    /\ LockFree
    /\ active' = [active EXCEPT ![pair[b]] = None]
    /\ \E becomes \in Closed(blk[b]) : Block_(b, becomes)
    /\ IF CloseFails(blk[b])
       THEN Goes(t, AfterClose(t, fd)) /\ UNCHANGED lock
       ELSE Goes(t, Doing("push", fd, b, 0)) /\ lock' = t
    /\ UNCHANGED <<listening, aborted, ended, pair, deleted, orphaned,
                   orphans, recycler, exitVars>>

Close(t, fd) ==
    /\ Calls(t, fd) /\ sock[fd].state = "ACTIVE"
    /\ CloseBlock(t, fd, sock[fd].tcb)
    /\ sock' = IF CloseFails(blk[sock[fd].tcb]) /\ ~Retries
               THEN [sock EXCEPT ![fd].owner = None] ELSE sock

\* close() of a bound socket: tcp_unregister_listening_socket, then the loop.
CloseListening(t, fd) ==
    /\ Calls(t, fd) /\ sock[fd].state \in {"BINDED", "LISTENING"}
    /\ LockFree
    /\ listening' = Unregistering(fd)
    /\ Goes(t, Doing("drain", fd, None, 0))
    /\ UNCHANGED <<sock, aborted, ended, tcpVars, recycler, exitVars>>

\* The loop: pop and tcp_close are one step, since nobody else has the block
\* that has been popped.
Drain(t) ==
    LET fd == at[t].fd
        queue == sock[fd].accepting
    IN  /\ at[t].step = "drain"
        /\ IF queue # <<>>
           THEN /\ sock' = [sock EXCEPT ![fd].accepting = Popped(@)]
                /\ CloseBlock(t, fd, Head(queue))
           ELSE /\ sock' = [sock EXCEPT ![fd].state = "CLOSED"]
                /\ Goes(t, Idle)
                /\ UNCHANGED <<listening, aborted, ended, tcpVars, recycler,
                               exitVars>>

\* Mutant: the queue grows.
NeverFull == FALSE

\* Mutant: the slot the ring buffer keeps free is one of the hundred.
FullTooEarly == Len(orphans) + 1 >= OrphanCapacity

OrphansFull == Len(orphans) = OrphanCapacity

\* orphaned_tcb.push finds room ...
PushOrphan(a) ==
    /\ at[a].step \in {"push", "wait"} /\ ~OrphansFull
    /\ orphans' = Append(orphans, at[a].tcb)
    /\ Goes(a, [at[a] EXCEPT !.step = "insert"])
    /\ UNCHANGED <<socketVars, blockVars, mapVars, lock, recycler, exitVars>>

\* ... or waits, with tcp_lock held ...
WaitForRoom(a) ==
    /\ at[a].step = "push" /\ OrphansFull
    /\ Goes(a, [at[a] EXCEPT !.step = "wait"])
    /\ UNCHANGED <<socketVars, tcpVars, recycler, exitVars>>

\* ... and gives up after the third time, room or not: the orphan is lost.
GiveUpPush(a) ==
    /\ at[a].step = "wait"
    /\ Goes(a, [at[a] EXCEPT !.step = "insert"])
    /\ UNCHANGED <<socketVars, tcpVars, recycler, exitVars>>

\* orphaned_tcb_map[pair] = tcb; the lock is given back.
InsertOrphan(t) ==
    /\ t # Exit /\ at[t].step = "insert"
    /\ orphaned' = [orphaned EXCEPT ![pair[at[t].tcb]] = at[t].tcb]
    /\ lock' = None
    /\ Goes(t, AfterClose(t, at[t].fd))
    /\ sock' = IF sock[at[t].fd].state = "ACTIVE"
               THEN [sock EXCEPT ![at[t].fd].state = "CLOSED"] ELSE sock
    /\ UNCHANGED <<listening, aborted, ended, blockVars, active, orphans,
                   recycler, exitVars>>

-----------------------------------------------------------------------------
(* The threads of the stack.                                               *)

\* The block tcp_segment_handler finds.
Found(p) == IF active[p] # None THEN active[p] ELSE orphaned[p]

\* tcp_segment_handler of any other segment.
ReceiveSegment ==
    /\ receiving /\ LockFree
    /\ \E p \in Pairs :
          /\ Found(p) # None
          /\ \E becomes \in OnSegment(blk[Found(p)]) : Block_(Found(p), becomes)
    /\ UNCHANGED <<socketVars, pair, deleted, mapVars, orphans, lock, at,
                   recycler, exitVars>>

Live == {b \in Blocks : pair[b] # None /\ b \notin deleted}

\* The timer thread of a block, which ends at CLOSE.
Timer(b) ==
    /\ b \in Live /\ LockFree
    /\ \E becomes \in OnTimer(blk[b]) : Block_(b, becomes)
    /\ UNCHANGED <<socketVars, pair, deleted, mapVars, orphans, lock, at,
                   recycler, exitVars>>

\* Mutant: the recycler waits for the wrong state.
LingersNoMore(b) == blk[b].state = "TIME_WAIT"

Recyclable(b) == blk[b].state = "CLOSE"

\* The recycler takes an orphan and looks at its state without the lock.
RecyclerPop ==
    /\ recycler.step = "pop" /\ orphans # <<>>
    /\ orphans' = Tail(orphans)
    /\ recycler' = Recycling(IF Recyclable(Head(orphans)) THEN "join"
                              ELSE "push", Head(orphans))
    /\ UNCHANGED <<socketVars, blockVars, mapVars, lock, at, exitVars>>

\* Mutant: the map is changed without the lock.
EraseAtOnce == recycler.step = "join"

MayErase == recycler.step = "join" /\ LockFree

\* The timer thread, which takes the lock once more, is joined; the pair is
\* forgotten under the lock.
RecyclerErase ==
    /\ MayErase
    /\ orphaned' = [orphaned EXCEPT ![pair[recycler.tcb]] = None]
    /\ recycler' = Recycling("delete", recycler.tcb)
    /\ UNCHANGED <<socketVars, blockVars, active, orphans, lock, at, exitVars>>

RecyclerDelete ==
    /\ recycler.step = "delete"
    /\ deleted' = deleted \cup {recycler.tcb}
    /\ recycler' = Recycling("pop", None)
    /\ UNCHANGED <<socketVars, blk, pair, mapVars, orphans, lock, at,
                   exitVars>>

\* An open orphan goes back to the queue, unless that stays full.
RecyclerPutBack ==
    /\ recycler.step \in {"push", "wait"}
    /\ IF ~OrphansFull
       THEN /\ orphans' = Append(orphans, recycler.tcb)
            /\ recycler' = Recycling("pop", None)
       ELSE /\ recycler' = Recycling("wait", recycler.tcb)
            /\ UNCHANGED orphans
    /\ UNCHANGED <<socketVars, blockVars, mapVars, lock, at, exitVars>>

RecyclerGiveUp ==
    /\ recycler.step = "wait"
    /\ recycler' = Recycling("pop", None)
    /\ UNCHANGED <<socketVars, tcpVars, at, exitVars>>

-----------------------------------------------------------------------------
(* exit()                                                                  *)

\* The clean-ups run by priority: the receiving threads are joined first, then
\* the TCP clean-up takes tcp_lock.
ExitStart ==
    /\ at[Exit] = Idle /\ LockFree
    /\ \A t \in Threads : at[t] = Idle
    /\ \E b \in Blocks : pair[b] # None
    /\ receiving' = FALSE
    /\ toClose' = {p \in Pairs : active[p] # None}
    /\ lock' = Exit
    /\ Goes(Exit, Doing("closing", None, None, 0))
    /\ UNCHANGED <<socketVars, blockVars, mapVars, orphans, recycler>>

\* _tcp_close of the next active block, which stays in the map.
ExitClose(p) ==
    LET b == active[p]
    IN  /\ at[Exit].step = "closing" /\ p \in toClose
        /\ toClose' = toClose \ {p}
        /\ \E becomes \in Closed(blk[b]) : Block_(b, becomes)
        /\ Goes(Exit, IF CloseFails(blk[b]) THEN at[Exit]
                      ELSE Doing("push", None, b, 0))
        /\ UNCHANGED <<socketVars, pair, deleted, mapVars, orphans, lock,
                       recycler, receiving>>

ExitInsert ==
    /\ at[Exit].step = "insert"
    /\ orphaned' = [orphaned EXCEPT ![pair[at[Exit].tcb]] = at[Exit].tcb]
    /\ Goes(Exit, Doing("closing", None, None, 0))
    /\ UNCHANGED <<socketVars, blockVars, active, orphans, lock, recycler,
                   exitVars>>

\* Mutant: the lock is kept while the recycler is joined.
LockKept == Exit

LockAfterClosing == None

\* tcb_recycler_can_stop; the recycler is joined.
ExitJoin ==
    /\ at[Exit].step = "closing" /\ toClose = {}
    /\ lock' = LockAfterClosing
    /\ Goes(Exit, Doing("join", None, None, 0))
    /\ UNCHANGED <<socketVars, blockVars, mapVars, orphans, recycler,
                   exitVars>>

\* The condition of the recycler's loop.
Stops == at[Exit].step = "join" /\ orphans = <<>>

RecyclerStop ==
    /\ recycler.step = "pop" /\ Stops
    /\ recycler' = Recycling("stopped", None)
    /\ UNCHANGED <<socketVars, tcpVars, at, exitVars>>

ExitEnd ==
    /\ at[Exit].step = "join" /\ recycler.step = "stopped"
    /\ Goes(Exit, Doing("done", None, None, 0))
    /\ UNCHANGED <<socketVars, tcpVars, recycler, exitVars>>

-----------------------------------------------------------------------------

\* The rest of a call under way.
Continue(t) ==
    \/ Connected(t)
    \/ AcceptPop(t) \/ AcceptTake(t) \/ AcceptPutBack(t)
    \/ ReadAgain(t) \/ ReadState(t)
    \/ WriteAgain(t) \/ WriteState(t)
    \/ Drain(t) \/ InsertOrphan(t)
    \/ PushOrphan(t) \/ WaitForRoom(t) \/ GiveUpPush(t)

Call(t) ==
    \/ Socket(t)
    \/ \E fd \in Fds :
          \/ Bind(t, fd) \/ Listen(t, fd) \/ Connect(t, fd) \/ Accept(t, fd)
          \/ Read(t, fd) \/ \E n \in 0..MaxWrite : Write(t, fd, n)
          \/ Close(t, fd) \/ CloseListening(t, fd)

Recycler == \/ RecyclerPop \/ RecyclerErase \/ RecyclerDelete
            \/ RecyclerPutBack \/ RecyclerGiveUp \/ RecyclerStop

Leaving == \/ \E p \in Pairs : ExitClose(p)
           \/ PushOrphan(Exit) \/ WaitForRoom(Exit) \/ GiveUpPush(Exit)
           \/ ExitInsert \/ ExitJoin \/ ExitEnd

Next ==
    \/ \E t \in Threads : Call(t) \/ Continue(t)
    \/ ReceiveSyn
    \/ ReceiveSegment
    \/ \E b \in Blocks : Timer(b)
    \/ Recycler
    \/ ExitStart
    \/ Leaving

Spec == Init /\ [][Next]_vars

\* The threads of the stack go on, and so does a call that can.
FairSpec ==
    /\ Spec
    /\ \A t \in Threads : WF_vars(Continue(t))
    /\ \A b \in Blocks : WF_vars(Timer(b))
    /\ WF_vars(Recycler)
    /\ WF_vars(Leaving)

=============================================================================
