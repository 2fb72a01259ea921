---------------------------- MODULE MCHttpsConn -----------------------------
(* Small instances of the keep-alive fetch for TLC.                        *)
EXTENDS HttpsConn, TLC
=============================================================================
