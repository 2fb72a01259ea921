-------------------------------- MODULE Scan --------------------------------
(***************************************************************************)
(* The loops every parser of the repository is made of: run over the       *)
(* characters of a set, run up to a character of a set.  A text is a       *)
(* sequence of characters, a position is 1-based, and the position after   *)
(* the last character stands for the end of the text.                      *)
(***************************************************************************)
EXTENDS Integers, Sequences

CharAt(text, p) == IF p <= Len(text) THEN text[p] ELSE "NUL"

\* The first position from p on that ends a run of characters of the set cs.
After(text, p, cs) ==
    CHOOSE q \in p..(Len(text) + 1) :
        /\ CharAt(text, q) \notin cs
        /\ \A k \in p..(q - 1) : text[k] \in cs

\* The first position from p on that holds a character of cs, or the end.
Upto(text, p, cs) ==
    CHOOSE q \in p..(Len(text) + 1) :
        /\ CharAt(text, q) \in cs \cup {"NUL"}
        /\ \A k \in p..(q - 1) : text[k] \notin cs

\* The characters of [p, q).
Piece(text, p, q) == SubSeq(text, p, q - 1)

Begins(text, p, lit) ==
    p + Len(lit) <= Len(text) + 1 /\ Piece(text, p, p + Len(lit)) = lit

AtMost(s, n) == IF Len(s) <= n THEN s ELSE SubSeq(s, 1, n)
=============================================================================
