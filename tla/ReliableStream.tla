--------------------------- MODULE ReliableStream ---------------------------
(***************************************************************************)
(* What the applications at the two ends of a connection are promised      *)
(* (pnx_tcp.h: "Support reliable transmission"), without segments, sequence*)
(* numbers, timers or a network: in each direction a stream of bytes that  *)
(* the writer extends until it ends it, of which the reader is given       *)
(* longer and longer prefixes, and whose end it learns only after the last *)
(* byte.  The k-th byte of a stream is represented by the number k.        *)
(***************************************************************************)
EXTENDS Naturals, Sequences

CONSTANTS Client, Server

VARIABLES
    sent,       \* the length of the stream each end has written so far
    ended,      \* whether it can still be extended
    given,      \* what each end has of its peer's stream
    eof         \* whether it knows that this is all

vars == <<sent, ended, given, eof>>

Endpoints == {Client, Server}
Peer(e) == IF e = Client THEN Server ELSE Client

Init ==
    /\ sent = [e \in Endpoints |-> 0]
    /\ ended = [e \in Endpoints |-> FALSE]
    /\ given = [e \in Endpoints |-> <<>>]
    /\ eof = [e \in Endpoints |-> FALSE]

Extend(e) ==
    /\ ~ended[e]
    /\ sent'[e] \in Nat
    /\ sent'[e] > sent[e]
    /\ sent' = [sent EXCEPT ![e] = sent'[e]]
    /\ UNCHANGED <<ended, given, eof>>

End(e) ==
    /\ ended' = [ended EXCEPT ![e] = TRUE]
    /\ UNCHANGED <<sent, given, eof>>

\* e is given the next n bytes of its peer's stream.
Give(e) ==
    /\ ~eof[e]
    /\ \E n \in 1..(sent[Peer(e)] - Len(given[e])) :
          given' = [given EXCEPT ![e] = @ \o [i \in 1..n |-> Len(@) + i]]
    /\ UNCHANGED <<sent, ended, eof>>

EndOfFile(e) ==
    /\ ended[Peer(e)]
    /\ Len(given[e]) = sent[Peer(e)]
    /\ eof' = [eof EXCEPT ![e] = TRUE]
    /\ UNCHANGED <<sent, ended, given>>

Next == \E e \in Endpoints : Extend(e) \/ End(e) \/ Give(e) \/ EndOfFile(e)

Spec == Init /\ [][Next]_vars

=============================================================================
