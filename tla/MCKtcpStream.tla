---------------------------- MODULE MCKtcpStream ----------------------------
(* KtcpStream on small instances. *)
EXTENDS KtcpStream, TLC

\* The threads of one side are interchangeable (safety runs only).
Symmetry == Permutations(Senders) \cup Permutations(Receivers)
=============================================================================
