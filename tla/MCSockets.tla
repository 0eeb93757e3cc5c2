----------------------------- MODULE MCSockets -----------------------------
(***************************************************************************)
(* The instances of a host that TLC checks.                                *)
(***************************************************************************)
EXTENDS SocketProperties, TLC

\* The threads run the same program.
ThreadSymmetry == Permutations(Threads) \cup Permutations(Inbound)

=============================================================================
