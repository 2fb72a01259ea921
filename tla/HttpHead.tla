-------------------------------- MODULE HttpHead --------------------------------
(***************************************************************************)
(* The head of a response, byte by byte: the part of http_resp_feed of     *)
(* tls13_client.c before got_headers_end, which tls13_https_get_status_-   *)
(* location_and_body repeats, with the parsers of header lines of          *)
(* http_parse.h and url.h.                                                 *)
(*                                                                         *)
(* Abstractions.  The name of a header field with its colon is one byte,   *)
(* and so is each of the words looked for; a blank is "SP" and a comma is  *)
(* "COMMA"; case, tabs and the values that are only copied (status,        *)
(* Location, Content-Type, Content-Encoding) are left out.  Lengths are    *)
(* written with the digits of ChunkedBody.                                 *)
(***************************************************************************)
EXTENDS ChunkedBody

CONSTANTS HeadCap,      \* sizeof(header_buf), 8192 in the program
          HeadLineCap,  \* sizeof(line), 512
          ValueCap,     \* room for the value of a field, 256
          NumberCap     \* room for the digits of a length, 32

Name == {"Content-Length:", "Transfer-Encoding:", "Connection:"}
Word == {"chunked", "close"}

ASSUME HeadAssumption ==
    /\ {HeadCap, HeadLineCap, ValueCap, NumberCap} \subseteq Nat \ {0}
    /\ Digit \cap (Name \cup Word \cup {"SP", "COMMA"}) = {}

HeadByte == Byte \cup Name \cup Word \cup {"SP", "COMMA"}

NoLen == -1   \* have_content_len is 0

-----------------------------------------------------------------------------
SkipBlanks(s) ==
    LET n == SelectInSeq(s, LAMBDA b : b # "SP")
    IN  IF n = 0 THEN <<>> ELSE SubSeq(s, n, Len(s))

TrimEnd(s) ==
    SubSeq(s, 1, SelectLastInSeq(s, LAMBDA b : b \notin {"CR", "LF", "SP"}))

FirstOf(s, n) == SubSeq(s, 1, IF Len(s) < n THEN Len(s) ELSE n)

HasName(line, name) == line # <<>> /\ Head(line) = name

\* http_parse_u64_dec, one digit: an overflow is one when the product is less
\* than the value before.
ShiftInDec(acc, b) ==
    LET nv == (acc.v * Base + ValueOf(b)) % Width
    IN  [v |-> nv, over |-> acc.over \/ nv < acc.v]

\* http_parse_content_length_line
ContentLength(line) ==
    LET ds  == LeadingDigits(FirstOf(SkipBlanks(Tail(line)), NumberCap - 1))
        num == FoldLeft(ShiftInDec, [v |-> 0, over |-> FALSE], ds)
    IN  IF HasName(line, "Content-Length:") /\ ds # <<>> /\ ~num.over THEN num.v
        ELSE NoLen

\* http_value_has_token_ci: the word is the first of an element of the list.
HasToken(value, word) ==
    \E i \in DOMAIN value, j \in 0..Len(value) :
        /\ value[i] = word
        /\ i = Len(value) \/ value[i + 1] \in {"SP", "COMMA"}
        /\ j < i /\ (j = 0 \/ value[j] = "COMMA")
        /\ \A m \in (j + 1)..(i - 1) : value[m] = "SP"

\* A field names a word; a value there is no room for counts as absent
\* (http_header_extract_value).
Field(line, name, word) ==
    LET value == TrimEnd(SkipBlanks(Tail(line)))
    IN  /\ HasName(line, name)
        /\ Len(value) < ValueCap
        /\ HasToken(value, word)

-----------------------------------------------------------------------------
(***************************************************************************)
(* The receiver: struct http_resp_feed_ctx, or the locals of the one-shot  *)
(* request.                                                                *)
(***************************************************************************)
NewReceiver(kind, cap) ==
    [kind |-> kind, cap |-> cap, buf |-> <<>>, line |-> <<>>, status |-> FALSE,
     ended |-> FALSE, len |-> NoLen, chunked |-> FALSE, close |-> FALSE,
     dec |-> Fresh, total |-> 0, result |-> "reading"]

\* The first line is the status; of each field the first line that says
\* something counts.  The one-shot request does not look at Connection.
TakeLine(r) ==
    IF ~r.status THEN [r EXCEPT !.status = TRUE]
    ELSE [r EXCEPT
            !.len = IF @ = NoLen THEN ContentLength(r.line) ELSE @,
            !.chunked = @ \/ Field(r.line, "Transfer-Encoding:", "chunked"),
            !.close = @ \/ (r.kind = "keep" /\ Field(r.line, "Connection:", "close"))]

\* http_find_header_end: the search runs after each byte, so that nothing has
\* been read beyond the end it finds, and no body is in the buffer.
EndOfHead(buf) ==
    Len(buf) >= 4 /\ SubSeq(buf, Len(buf) - 3, Len(buf)) = <<"CR", "LF", "CR", "LF">>

\* A byte of the head.  What does not fit in the line is left out of it.  After
\* the end nobody reads the two buffers.
TakeHead(r, b) ==
    LET buf  == Append(r.buf, b)
        line == IF Len(r.line) + 1 < HeadLineCap THEN Append(r.line, b) ELSE r.line
        read == [r EXCEPT !.buf = buf, !.line = line]
        next == IF b = "LF" THEN [TakeLine(read) EXCEPT !.line = <<>>] ELSE read
    IN  CASE Len(r.buf) >= HeadCap -> [r EXCEPT !.result = "bad"]
          [] Len(r.buf) < HeadCap /\ EndOfHead(buf) -> [next EXCEPT !.ended = TRUE, !.buf = <<>>]
          [] OTHER -> next
=============================================================================
