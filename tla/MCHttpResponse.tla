---------------------------- MODULE MCHttpResponse ----------------------------
(* A small instance of a response for TLC: binary digits, numbers of two bits. *)
EXTENDS HttpResponse, TLC

MCDigits == <<"0", "1">>
MCContent == {"0", "CR", "LF"}
=============================================================================
