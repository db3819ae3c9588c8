--------------------------- MODULE MCSessionStatus ----------------------------
(* SessionStatus on a small instance.                                      *)
EXTENDS SessionStatus
=============================================================================
