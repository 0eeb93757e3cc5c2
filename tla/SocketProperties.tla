-------------------------- MODULE SocketProperties --------------------------
(***************************************************************************)
(* What the socket layer and the recycler promise a program that keeps     *)
(* each descriptor to one thread.                                          *)
(***************************************************************************)
EXTENDS Sockets

SocketBlock == [state : {"none", "DEFAULT", "ACTIVE", "BINDED", "LISTENING",
                         "CLOSED"},
                tcb : Blocks \cup {None}, accepting : Seq(Blocks),
                owner : Threads \cup {None}]

Activity == [step : {"idle", "connect", "accept", "look", "read", "peek",
                     "write", "full", "drain", "push", "wait", "insert",
                     "closing", "join", "done"},
             fd : Fds \cup {None}, tcb : Blocks \cup {None}, rest : Nat]

TypeOK ==
    /\ sock \in [Fds -> SocketBlock]
    /\ listening \in Fds \cup {None}
    /\ blk \in [Blocks -> Block]
    /\ pair \in [Blocks -> Pairs \cup {None}]
    /\ deleted \subseteq Blocks
    /\ active \in [Pairs -> Blocks \cup {None}]
    /\ orphaned \in [Pairs -> Blocks \cup {None}]
    /\ orphans \in Seq(Blocks) /\ Len(orphans) <= OrphanCapacity
    /\ lock \in Actors \cup {None}
    /\ at \in [Actors -> Activity]
    /\ recycler \in [step : {"pop", "join", "delete", "push", "wait",
                              "stopped"},
                     tcb : Blocks \cup {None}]
    /\ receiving \in BOOLEAN
    /\ toClose \subseteq Pairs
    /\ aborted \in BOOLEAN
    /\ ended \subseteq Fds

Items(s) == {s[i] : i \in 1..Len(s)}

\* What the recycler is responsible for.
InCare(b) == \/ b \in Items(orphans)
             \/ recycler.tcb = b
             \/ \E a \in Actors : /\ at[a].tcb = b
                                  /\ at[a].step \in {"push", "wait"}

\* A deleted block is out of everybody's reach: of the threads in a call, the
\* recycler and its queue, and, while the program runs and segments arrive, of
\* the descriptors, the accept queues and the two maps (use after delete: the
\* recycler works without tcp_lock except where it changes the map).
DeletedOutOfReach ==
    \A b \in deleted :
        /\ ~InCare(b)
        /\ \A a \in Actors : at[a].tcb # b
        /\ receiving =>
              /\ \A fd \in Fds :
                    /\ sock[fd].state = "ACTIVE" => sock[fd].tcb # b
                    /\ b \notin Items(sock[fd].accepting)
              /\ \A p \in Pairs : active[p] # b /\ orphaned[p] # b

\* Where a connection is on its way from the handler to the application.
Holders(b) ==
    {<<"socket", fd, 0>> : fd \in {fd \in Fds : sock[fd].state = "ACTIVE"
                                               /\ sock[fd].tcb = b}}
    \cup {<<"thread", t, 0>> : t \in {t \in Threads : at[t].step = "look"
                                                 /\ at[t].tcb = b}}
    \cup UNION {{<<"queue", fd, i>> : i \in {i \in 1..Len(sock[fd].accepting) :
                                           sock[fd].accepting[i] = b}} :
                fd \in Fds}

\* However many threads wait in accept(), and whatever close() drains at the
\* same time, a connection is handed out once.
HandedOutOnce == \A b \in Blocks : Cardinality(Holders(b)) <= 1

\* The segments of a connection whose application has not called close() find
\* its block, whatever has become of earlier blocks with the same addresses.
OpenMeansFound ==
    receiving =>
        \A fd \in Fds :
            sock[fd].state = "ACTIVE" /\ sock[fd].tcb # None
                /\ blk[sock[fd].tcb].state \in {"SYN_SENT", "SYN_RECV",
                                               "ESTABLISHED", "CLOSE_WAIT"}
            => Found(pair[sock[fd].tcb]) = sock[fd].tcb

\* pnx_socket.h:67 "@see [POSIX.1-2017:read]": read() returns 0 at the end
\* of the stream, when all its bytes have been read.
EndOfFileMeansAllRead ==
    \A fd \in ended : blk[sock[fd].tcb].unread = 0

\* pnx_socket.h:55 "@see [POSIX.1-2017:connect]" and robust_test_client.cpp:67
\* "if (connect(...) < 0)": connect() returns once the attempt is over, however
\* it has ended: established, given up by the timer, or closed by the peer.
ConnectReturns ==
    \A t \in Threads :
        at[t].step = "connect" /\ blk[at[t].tcb].state # "SYN_SENT"
        ~> at[t].step # "connect"

\* An orphan is lost by a push that gives up only when there are more orphans
\* than the queue has places, also when the recycler puts one back.
LostOnlyWhenFull ==
    [][\A b \in Blocks :
          InCare(b) /\ ~InCare(b)' /\ b \notin deleted'
          => Cardinality({c \in Blocks : InCare(c)}) > OrphanCapacity]_vars

\* An orphan that has reached CLOSE is deleted, unless orphans get too many:
\* with as many blocks as there are, time and again none is left.
OrphansDeleted ==
    []<>\/ \A b \in Blocks : InCare(b) => blk[b].state # "CLOSE"
        \/ Cardinality({b \in Blocks : InCare(b)}) > OrphanCapacity

\* The connection is in a queue at which a thread waits in accept().
Awaited(b) == \E fd \in Fds, t \in Threads :
                 /\ b \in Items(sock[fd].accepting)
                 /\ at[t].fd = fd /\ at[t].step \in {"accept", "look"}

\* An established connection does not wait behind dead ones for ever: while a
\* thread waits in accept(), and has a descriptor left for it, its turn comes.
EstablishedIsAccepted ==
    []<>\/ \A b \in Blocks : Awaited(b) => blk[b].state # "ESTABLISHED"
        \/ Unused = {}

\* Nothing the timers do will end this orphan (FIN_WAIT2, or a FIN that stays
\* in the send buffer).
OnlySegmentCloses(b) ==
    blk[b].state \notin {"CLOSE", "TIME_WAIT"} /\ ~blk[b].waiting

\* exit() returns, unless it waits for a connection that only a segment could
\* close, and the receiving threads have been stopped.
ExitEnds ==
    at[Exit].step = "closing"
    ~> \/ at[Exit].step = "done"
       \/ \E b \in Blocks : InCare(b) /\ OnlySegmentCloses(b)

=============================================================================
