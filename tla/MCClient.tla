------------------------------- MODULE MCClient -------------------------------
(* Two channels with three listeners, an array type and one that is none.  *)
EXTENDS Client
=============================================================================
