---------------------------- MODULE MCDpdkDevice ----------------------------
(* Bounded instances of DpdkDevice for TLC: each .cfg selects the part of  *)
(* the device its question is about.                                       *)
EXTENDS DpdkDevice

\* data frames per queue
NoFrames == [q \in Queues |-> 0]
TwoFrames == [q \in Queues |-> IF q = 0 THEN 0 ELSE 2]
OneFrameEach == [q \in Queues |-> 1]
ThreeFramesEach == [q \in Queues |-> 3]
=============================================================================
