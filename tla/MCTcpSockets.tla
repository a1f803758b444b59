---------------------------- MODULE MCTcpSockets ----------------------------
(* Bounded instances of TcpSockets for TLC.                                *)
EXTENDS TcpSockets, TLC

HandleSymmetry == Permutations(Handles)
=============================================================================
