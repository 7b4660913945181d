----------------------------- MODULE MCSessionIO -----------------------------
(* A small instance of SessionIO for TLC. *)
EXTENDS SessionIO
=============================================================================
