--------------------------- MODULE MCKrdmaSendRecv ---------------------------
(* KrdmaSendRecv on small instances. *)
EXTENDS KrdmaSendRecv, TLC

\* The threads of one side are interchangeable (safety runs only).
Symmetry == Permutations(Senders) \cup Permutations(Receivers)
=============================================================================
