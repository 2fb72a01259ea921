------------------------------- MODULE MCTls13 -------------------------------
(* A small instance of the TLS connection for TLC.                         *)
EXTENDS Tls13
=============================================================================
