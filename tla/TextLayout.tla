----------------------------- MODULE TextLayout -----------------------------
(***************************************************************************)
(* text_layout.c: the next visual row of a page's text.  The renderer, its *)
(* scrolling and the hit test each walk the text with this function, every *)
(* one with a line buffer of its own.                                      *)
(*                                                                         *)
(* A text is a sequence of characters.  "RS" (0x1e) starts an image marker *)
(* row, a character of its own kind here is one the code tells apart.  The *)
(* text html_text.c writes holds no carriage return, so a row is a piece   *)
(* of the text and is given by where it starts and its length.             *)
(***************************************************************************)
EXTENDS Scan

SkipSpaces(text, p) == After(text, p, {"SP"})

\* Where the hard line of p ends: at its newline or at the end of the text.
HardEnd(text, p) ==
    CHOOSE q \in p..(Len(text) + 1) :
        /\ CharAt(text, q) \in {"LF", "NUL"}
        /\ \A k \in p..(q - 1) : text[k] # "LF"

Least(a, b) == IF a < b THEN a ELSE b

PastNewline(text, p) == IF CharAt(text, p) = "LF" THEN p + 1 ELSE p

\* Length of the piece [s, s + n) without the spaces at its end.
Trimmed(text, s, n) ==
    CHOOSE m \in 0..n :
        /\ m = 0 \/ text[s + m - 1] # "SP"
        /\ \A k \in m..(n - 1) : text[s + k] = "SP"

Row(s, n, next) == [from |-> s, n |-> n, next |-> next, more |-> TRUE]

NoRow(p) == [from |-> p, n |-> 0, next |-> p, more |-> FALSE]

\* A marker is not wrapped; what the buffer has no room for is left to the next row.
MarkerRow(text, s, cap) ==
    LET n == Least(HardEnd(text, s) - s, cap - 1)
    IN  Row(s, n, PastNewline(text, s + n))

\* Spaces in the n characters from s on.
SpacesIn(text, s, n) == {k \in s..(s + n - 1) : text[k] = "SP"}

LastOf(S) == CHOOSE k \in S : \A m \in S : m <= k

\* Characters a row may take: the columns there are, and the buffer less its
\* terminator.
Room(cols, cap) == Least(cap - 1, cols)

\* Mutant of NextWord: the character after the space is taken for one, too.
NextWordEats(text, gap) == SkipSpaces(text, gap + 2)

\* Where the next row starts when this one is cut at a space.
NextWord(text, gap) == SkipSpaces(text, gap + 1)

\* A row of at most cols characters, cut at its last space if it has one.
WrappedRow(text, s, cols, cap) ==
    LET n    == Least(HardEnd(text, s) - s, Room(cols, cap))
        stop == s + n
        gaps == SpacesIn(text, s, n)
    IN  CASE n < cols \/ stop = HardEnd(text, s) ->
               Row(s, Trimmed(text, s, n), PastNewline(text, stop))
          [] n = cols /\ stop # HardEnd(text, s) /\ text[stop] = "SP" ->
               Row(s, Trimmed(text, s, n), SkipSpaces(text, stop))
          [] n = cols /\ stop # HardEnd(text, s) /\ text[stop] # "SP" ->
               IF gaps = {} THEN Row(s, n, stop)
               ELSE Row(s, LastOf(gaps) - s, NextWord(text, LastOf(gaps)))

\* text_layout_next_line_ex
NextRow(text, p, cols, cap) ==
    LET s == SkipSpaces(text, p)
    IN  CASE CharAt(text, p) = "NUL" -> NoRow(p)
          [] CharAt(text, p) = "LF"  -> Row(p, 0, p + 1)
          [] CharAt(text, p) \notin {"NUL", "LF"} ->
               IF CharAt(text, s) = "RS" THEN MarkerRow(text, s, cap)
               ELSE WrappedRow(text, s, cols, cap)
=============================================================================
