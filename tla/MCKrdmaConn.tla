----------------------------- MODULE MCKrdmaConn -----------------------------
(* KrdmaConn on small instances. *)
EXTENDS KrdmaConn
=============================================================================
