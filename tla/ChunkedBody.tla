------------------------------ MODULE ChunkedBody ------------------------------
(***************************************************************************)
(* The decoder of chunked bodies of http_parse.h, byte by byte, and the    *)
(* numbers of a response.  HttpResponse feeds it.                          *)
(*                                                                         *)
(* Abstractions.  What the decoder tells apart is hexadecimal digits, CR,  *)
(* LF and the rest; there are Base digits, and sizes wrap at Width, which  *)
(* Base divides as 16 divides 2^64.  Cutting a size line at its extension  *)
(* and trimming its CR is left out: the parser of the size stops at the    *)
(* first byte that is no digit, and so at either.                          *)
(***************************************************************************)
EXTENDS Integers, Sequences, SequencesExt

CONSTANTS Digits,    \* the digits in order of their values
          Width,     \* 2^64 in the program
          LineCap    \* sizeof(size_line), 64 in the program

Base == Len(Digits)
Digit == ToSet(Digits)

ASSUME ChunkedAssumption ==
    /\ Digits \in Seq(STRING) /\ Base > 1 /\ Digit \cap {"CR", "LF", "x"} = {}
    /\ Width \in Nat \ {0} /\ \E n \in 1..Width : Width = Base * n
    /\ LineCap \in Nat \ {0}

Byte == Digit \cup {"CR", "LF", "x"}

-----------------------------------------------------------------------------
Fresh == [at |-> "size", rem |-> 0, line |-> <<>>, start |-> TRUE, cr |-> FALSE,
          done |-> FALSE, bad |-> FALSE]

ValueOf(b) == (CHOOSE n \in 1..Base : Digits[n] = b) - 1

LeadingDigits(line) ==
    LET n == SelectInSeq(line, LAMBDA b : b \notin Digit)
    IN  IF n = 0 THEN line ELSE SubSeq(line, 1, n - 1)

\* Mutant of ShiftIn: the digits shifted out at the top are not missed.
ShiftInWraps(acc, b) ==
    LET nv == (acc.v * Base + ValueOf(b)) % Width
    IN  [v |-> nv, over |-> acc.over]

\* http_parse_u64_hex, one digit: an overflow is one when shifting back does not
\* give the old value.
ShiftIn(acc, b) ==
    LET nv == (acc.v * Base + ValueOf(b)) % Width
    IN  [v |-> nv, over |-> acc.over \/ nv \div Base # acc.v]

Size(line) == FoldLeft(ShiftIn, [v |-> 0, over |-> FALSE], LeadingDigits(line))

Reject(d) == [d EXCEPT !.bad = TRUE]

\* A byte of a size line.
SizeLine(d, b) ==
    LET sz == Size(d.line)
    IN  CASE b # "LF" /\ Len(d.line) + 1 < LineCap ->
               [d EXCEPT !.line = Append(@, b)]
          [] b = "LF" /\ LeadingDigits(d.line) # <<>> /\ ~sz.over ->
               [d EXCEPT !.line = <<>>, !.rem = sz.v,
                         !.at = IF sz.v = 0 THEN "trailers" ELSE "data",
                         !.start = TRUE, !.cr = FALSE]
          [] OTHER -> Reject(d)

\* The end of a chunk's data is noticed at the byte after it.
AfterData(d, b) ==
    IF b \in {"CR", "LF"} THEN [d EXCEPT !.at = IF b = "CR" THEN "lf" ELSE "size"]
    ELSE Reject(d)

Data(d, b) ==
    IF d.rem = 0 THEN AfterData(d, b) ELSE [d EXCEPT !.rem = @ - 1]

AfterCr(d, b) == IF b = "LF" THEN [d EXCEPT !.at = "size"] ELSE Reject(d)

\* Mutant of Trailers: any end of line is the end of the message.
TrailersAnyLine(d, b) ==
    CASE b = "LF"             -> [d EXCEPT !.done = TRUE]
      [] d.start /\ b = "CR"  -> [d EXCEPT !.cr = TRUE]
      [] b # "LF" /\ d.cr     -> Reject(d)
      [] OTHER                -> [d EXCEPT !.start = FALSE]

\* Trailer lines are skipped up to an empty one.
Trailers(d, b) ==
    CASE d.start /\ b = "LF"           -> [d EXCEPT !.done = TRUE]
      [] d.start /\ b = "CR"           -> [d EXCEPT !.cr = TRUE]
      [] d.start /\ b \notin {"CR", "LF"} /\ d.cr -> Reject(d)
      [] ~d.start /\ b = "LF"          -> [d EXCEPT !.start = TRUE]
      [] OTHER                         -> [d EXCEPT !.start = FALSE]

DecodeByte(d, b) ==
    CASE d.at = "size"     -> SizeLine(d, b)
      [] d.at = "data"     -> Data(d, b)
      [] d.at = "lf"       -> AfterCr(d, b)
      [] d.at = "trailers" -> Trailers(d, b)

\* Mutant of Stored: the buffer takes the last bytes of the body.
StoredLast(d, b, store, cap) ==
    IF d.at # "data" \/ d.rem = 0 \/ cap = 0 THEN store
    ELSE IF Len(store) < cap THEN Append(store, b)
    ELSE [store EXCEPT ![cap] = b]

\* A byte of data goes to the buffer while there is room, and is dropped then.
Stored(d, b, store, cap) ==
    IF d.at = "data" /\ d.rem > 0 /\ Len(store) < cap
    THEN Append(store, b)
    ELSE store
=============================================================================
