----------------------------- MODULE MCPageView -----------------------------
(* Small pages for TLC: all sequences of a few pieces. *)
EXTENDS PageView, FiniteSets

CONSTANTS MaxPieces, UrlLen

Char(c, h) == [char |-> c, rows |-> 0, url |-> 0, href |-> h]
Image(n)   == [char |-> "RS", rows |-> n, url |-> UrlLen, href |-> "p"]

Pieces == {Char("x", ""), Char("x", "p"), Char("SP", ""), Char("LF", ""), Image(2)}

\* A placeholder starts a line of its own.
MCPages ==
    {ps \in UNION {[1..n -> Pieces] : n \in 0..MaxPieces} :
        \A k \in 2..Len(ps) : ps[k].char = "RS" => ps[k - 1].char \in {"LF", "RS"}}
=============================================================================
