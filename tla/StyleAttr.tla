----------------------------- MODULE StyleAttr -----------------------------
(***************************************************************************)
(* style_attr.c: a list of declarations to a style.                        *)
(*                                                                         *)
(* Every keyword is cut to one letter: the properties "c" color, "g"       *)
(* background-color, "h" background, "w" font-weight, "t" text-decoration  *)
(* and "d" display; the values "b" bold, "u" underline, "n" none, "i"      *)
(* inline, "k" block, "r" red and "v(" for "var(".  rgb and rgba are       *)
(* written out.                                                            *)
(***************************************************************************)
EXTENDS Scan, SequencesExt

Blanks   == {" ", "\n"}
HexDigits == <<"0", "1", "2", "3", "4", "5", "6", "7", "8", "9", "a", "b", "c", "d", "e", "f">>
Digits   == {HexDigits[i] : i \in 1..10}
Alpha    == {"a", "b", "c", "d", "e", "f", "g", "h", "i", "j", "k", "l", "m", "n", "o", "p",
             "q", "r", "s", "t", "u", "v", "w", "x", "y", "z"}
NameChars == Alpha \cup {"-"}

\* A colour is its three parts, <<>> stands for none; line is "unset", "on" or "off".
NoStyle == [color |-> <<>>, back |-> <<>>, bold |-> FALSE, line |-> "unset"]

-----------------------------------------------------------------------------

IsHex(v, p)   == \E i \in 1..16 : CharAt(v, p) = HexDigits[i]
HexAt(v, p)   == (CHOOSE i \in 1..16 : v[p] = HexDigits[i]) - 1

\* #rrggbb or #rgb; what follows is not looked at.
HexColor(v) ==
    CASE Len(v) >= 7 /\ \A p \in 2..7 : IsHex(v, p) ->
             [k \in 1..3 |-> 16 * HexAt(v, 2 * k) + HexAt(v, 2 * k + 1)]
      [] Len(v) \in 4..6 /\ \A p \in 2..4 : IsHex(v, p) ->
             [k \in 1..3 |-> 17 * HexAt(v, k + 1)]
      [] OTHER -> <<>>

\* The digits at p as a number that stops at 255, or -1.
Byte(v, p) ==
    LET e == After(v, p, Digits)
    IN  IF e = p THEN -1
        ELSE FoldLeft(LAMBDA n, d : LET m == 10 * n + HexAt(<<d>>, 1) IN IF m > 255 THEN 255 ELSE m,
                      0, Piece(v, p, e))

\* Three parts between commas; only rgba may have a fourth.
RgbColor(v) ==
    LET alpha == Begins(v, 1, <<"r", "g", "b", "a", "(">>)
        from1 == IF alpha THEN 6 ELSE 5
        end1  == Upto(v, from1, {",", ")"})
        end2  == Upto(v, end1 + 1, {",", ")"})
        end3  == Upto(v, end2 + 1, {",", ")"})
        close == IF alpha /\ CharAt(v, end3) = "," THEN Upto(v, end3, {")"}) ELSE end3
        parts == <<Byte(v, After(v, from1, Blanks)), Byte(v, After(v, end1 + 1, Blanks)),
                   Byte(v, After(v, end2 + 1, Blanks))>>
    IN  IF /\ alpha \/ Begins(v, 1, <<"r", "g", "b", "(">>)
           /\ CharAt(v, end1) = "," /\ CharAt(v, end2) = "," /\ CharAt(v, close) = ")"
           /\ \A k \in 1..3 : parts[k] >= 0
        THEN parts ELSE <<>>

NamedColor(v) == IF v = <<"r">> THEN <<255, 0, 0>> ELSE <<>>

OrElse(a, b) == IF a # <<>> THEN a ELSE b

PlainColor(v) ==
    IF CharAt(v, 1) = "#" THEN HexColor(v) ELSE OrElse(RgbColor(v), NamedColor(v))

TrimLeft(v)  == Piece(v, After(v, 1, Blanks), Len(v) + 1)
TrimRight(v) == Reverse(TrimLeft(Reverse(v)))
Trim(v)      == TrimRight(TrimLeft(v))

\* How many parentheses opened after position 2 are open before position p.
Depth(v, p) ==
    LET count(c) == Len(SelectSeq(Piece(v, 3, p), LAMBDA x : x = c))
    IN  count("(") - count(")")

\* v(name,fallback): what comes after the last comma of its own.
VarClose(v) == {p \in 3..Len(v) : v[p] = ")" /\ Depth(v, p) = 0}
Fallback(v) ==
    LET close  == CHOOSE p \in VarClose(v) : \A q \in VarClose(v) : p <= q
        commas == {p \in 3..(close - 1) : v[p] = "," /\ Depth(v, p) = 0}
        comma  == CHOOSE p \in commas : \A q \in commas : q <= p
    IN  IF VarClose(v) = {} THEN <<>>
        ELSE IF commas = {} THEN <<>> ELSE Trim(Piece(v, comma + 1, close))

\* A fallback may itself be a variable with a fallback, no deeper than the text is long.
Resolve(v) == IF Begins(v, 1, <<"v", "(">>) THEN Fallback(v) ELSE v
ColorValue(value) == PlainColor(FoldLeft(LAMBDA v, c : Resolve(v), Trim(value), value))

-----------------------------------------------------------------------------

Apply(st, d, colour) ==
    CASE d.prop = <<"c">> /\ colour # <<>> -> [st EXCEPT !.color = colour]
      [] d.prop \in {<<"g">>, <<"h">>} /\ colour # <<>> -> [st EXCEPT !.back = colour]
      [] d.prop = <<"w">> /\ d.value = <<"b">> -> [st EXCEPT !.bold = TRUE]
      [] d.prop = <<"t">> ->
             [st EXCEPT !.line = IF \E k \in DOMAIN d.value : d.value[k] = "u" THEN "on" ELSE "off"]
      [] OTHER -> st

\* One declaration applied; an unknown property or value changes nothing.
Declare(st, d) == Apply(st, d, ColorValue(d.value))

\* The declarations of an attribute: name, ":", value up to ";".
Declarations(s) ==
    LET from[p \in 1..(Len(s) + 3)] ==
            LET e     == After(s, p, NameChars)
                colon == After(s, e, Blanks)
                start == After(s, colon + 1, Blanks)
                end   == Upto(s, start, {";"})
            IN  CASE p > Len(s) -> <<>>
                  [] p <= Len(s) /\ s[p] \notin Alpha -> from[p + 1]
                  [] p <= Len(s) /\ s[p] \in Alpha /\ CharAt(s, colon) # ":" -> from[colon + 1]
                  [] OTHER -> IF start > Len(s) THEN <<>>
                              ELSE <<[prop |-> Piece(s, p, e), value |-> TrimRight(Piece(s, start, end))]>>
                                   \o from[end + 1]
    IN  from[1]

ParseInline(s) == FoldLeft(Declare, NoStyle, Declarations(s))
=============================================================================
