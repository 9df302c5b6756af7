---------------------------- MODULE MCReadBarrier ---------------------------
(* ReadBarrier on small instances: one process with two backends, and two  *)
(* processes that share the one backend they have.                         *)
EXTENDS ReadBarrier, TLC

CONSTANTS p1, p2, session, index

MCRegistered == [p \in Processes |-> IF index \in Backends THEN <<session, index>> ELSE <<session>>]
MCSessionOf == [p \in Processes |-> session]

MCSymmetry == Permutations(Processes)
=============================================================================
