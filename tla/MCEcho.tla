------------------------------ MODULE MCEcho -------------------------------
(***************************************************************************)
(* A connection used by the echo programs of checkpoints/: the client      *)
(* writes a line, reads its echo, writes the next one, and closes after the*)
(* last echo; the server writes back whatever it reads and closes at end of*)
(* file.  Applications that keep to this discipline are what makes the     *)
(* stop-and-wait sender live.                                              *)
(***************************************************************************)
EXTENDS TcpProperties, TLC

ASSUME NoWrap

FarApart == (Client :> {2}) @@ (Server :> {21})

\* The length of the lines, and of their echoes.
OneByte == [e \in Endpoints |-> 1]
ThreeBytes == [e \in Endpoints |-> 3]

Echoed == Len(delivered[Client]) = written[Client]

\* str_cli: writen() passes a line; it is written once the last one has come back.
WriteLine ==
    /\ Echoed
    /\ \E n \in 1..MaxBytes[Client] : Write(Client, n)

\* str_echo: what has been read and not yet written back.
Reply == /\ Len(delivered[Server]) > written[Server]
         /\ Write(Server, Len(delivered[Server]) - written[Server])

\* readline() takes a byte at a time, the read() of str_echo all there are.
ReadByte == tcb[Client].recvBuf # <<>> /\ Read(Client, 1)
ReadAll == /\ tcb[Server].recvBuf # <<>>
           /\ Read(Server, Len(tcb[Server].recvBuf))

\* read() returns 0 (tcp_no_data_incoming_state).
AtEof(e) ==
    /\ tcb[e].recvBuf = <<>>
    /\ FinTaken(e) \/ tcb[e].state = "CLOSE"

CloseClient == Echoed /\ written[Client] = MaxBytes[Client] /\ Close(Client)
CloseServer == AtEof(Server) /\ Close(Server)

EchoApps == \/ Connect(Client)
            \/ WriteLine
            \/ Reply
            \/ ReadByte
            \/ ReadAll
            \/ CloseClient
            \/ CloseServer

EchoNext == \/ EchoApps
            \/ \E e \in Endpoints : Receive(e) \/ Timer(e)
            \/ Lose

\* The programs go on while they can, the receiving threads deliver what the
\* network brings, and each block's timer thread wakes up every 10 ms.
EchoFairness ==
    /\ WF_vars(EchoApps)
    /\ \A e \in Endpoints : WF_vars(Receive(e)) /\ WF_vars(Timer(e))

EchoSpec == Init /\ [][EchoNext]_vars /\ EchoFairness

-----------------------------------------------------------------------------
\* The exchange ends: every line has come back to the client and both blocks
\* have reached CLOSE, where tcb_recycler deletes them.  Segments may be lost,
\* but none of the handshake: if its ACK is, the data that follows is refused
\* in SYN_RECV until the client gives up.
EchoCompletes ==
    [](\A e \in Endpoints :
          tcb[e].state \in {"SYN_SENT", "SYN_RECV"} => losses = 0)
    => <>(\A e \in Endpoints :
             Len(delivered[e]) = MaxBytes[e] /\ tcb[e].state = "CLOSE")

=============================================================================
