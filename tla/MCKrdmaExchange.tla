--------------------------- MODULE MCKrdmaExchange ---------------------------
(* KrdmaExchange on small instances. *)
EXTENDS KrdmaExchange
=============================================================================
