------------------------------- MODULE MCTcp -------------------------------
(***************************************************************************)
(* The instances of a connection that TLC checks, with applications that   *)
(* do whatever the socket layer allows.                                    *)
(***************************************************************************)
EXTENDS TcpInvariant, TLC

ASSUME NoWrap

\* Initial sequence numbers that cannot be mistaken for each other.
FarApart == (Client :> {2}) @@ (Server :> {21})

\* How much the applications write.
TwoAndOne == (Client :> 2) @@ (Server :> 1)

-----------------------------------------------------------------------------
(* Liveness.  The receiving threads deliver what the network brings, and    *)
(* each block's timer thread wakes up every 10 ms.                         *)

SystemFairness ==
    \A e \in Endpoints : WF_vars(Receive(e)) /\ WF_vars(Timer(e))

FairSpec == Spec /\ SystemFairness

\* No sender waits for an acknowledgement forever, not even of a network that
\* withholds what it likes: the retransmissions are counted.
SenderSettles == \A e \in Endpoints : TimedOut(e) ~> ~TimedOut(e)

\* Applications that open, write and read, and keep the connection open.
TransferNext ==
    \/ \E e \in Endpoints :
          \/ Receive(e) \/ Timer(e) \/ Connect(e)
          \/ \E n \in 1..MaxBytes[e] : Write(e, n)
          \/ \E n \in 1..RecvCapacity : Read(e, n)
    \/ Lose

TransferSpec == Init /\ [][TransferNext]_vars /\ SystemFairness

\* pnx_tcp.h:11 "Support reliable transmission.": what tcp_send accepts
\* arrives, on a network that loses nothing.
AllBytesArrive ==
    \A e \in Endpoints : \A n \in 1..MaxBytes[e] :
        written[e] >= n ~> Len(Received(Peer(e))) >= n

=============================================================================
