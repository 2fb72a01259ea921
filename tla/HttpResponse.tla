------------------------------ MODULE HttpResponse ------------------------------
(***************************************************************************)
(* One response on a connection: the server, the bytes on their way, and   *)
(* the two receivers of tls13_client.c.  "keep" is http_resp_feed, which   *)
(* must find the end of the response, since the next one follows it on the *)
(* same connection (HttpsConn takes for granted that it does); "once" is   *)
(* the loop of the one-shot request, which may read on and is done when    *)
(* the buffer is full.  Records are cut anywhere, and the server may stop  *)
(* anywhere.                                                               *)
(***************************************************************************)
EXTENDS HttpHead, FiniteSets

CONSTANTS BodyCap,      \* room for the body; a caller may also give none
          Content,      \* the bytes a body is made of
          LongLengths,  \* does the server announce lengths of Width and more?
          MaxDigits, MaxExt, MaxTrailers, MaxData, MaxFields, MaxAhead  \* bounds

ASSUME ResponseAssumption ==
    /\ BodyCap \in Nat /\ Content \subseteq Byte /\ LongLengths \in BOOLEAN
    /\ {MaxDigits, MaxExt, MaxTrailers, MaxData, MaxFields, MaxAhead} \subseteq Nat
    /\ MaxDigits < NumberCap

\* The lines that mean something have room: a name, a blank, a number and the end of
\* the line; a coding and one before it.
ASSUME RoomAssumption == MaxDigits + 4 < HeadLineCap /\ 7 < HeadLineCap /\ 3 < ValueCap

VARIABLES rx,    \* the receiver
          body,  \* what it has stored of the body
          snd,   \* the server: where it is, the framing and the length it has
                 \* announced, bytes and fields sent of the head, has a coding
                 \* been one of them, bytes left in this chunk or body, trailers
                 \* sent; unfit: it sent what the receiver has no room for
          sent,  \* the bytes of the body it has sent
          wire,  \* bytes sent and not yet used, each with its part in the message
          line   \* the connection: up, or how the server ended it

vars == <<rx, body, snd, sent, wire, line>>

Init ==
    /\ rx \in {NewReceiver(kind, cap) : kind \in {"keep", "once"}, cap \in {0, BodyCap}}
    /\ body = <<>>
    /\ snd = [at |-> "status", framing |-> "none", len |-> NoLen, head |-> 0,
              fields |-> 0, coded |-> FALSE, left |-> 0, trailers |-> 0, unfit |-> FALSE]
    /\ sent = <<>>
    /\ wire = <<>>
    /\ line = "up"

-----------------------------------------------------------------------------
(***************************************************************************)
(* Receiving.  s is the receiver, the body and the bytes used.             *)
(***************************************************************************)
\* Mutant of Complete: one byte too late.
CompleteLate(r) ==
    r.ended /\ (IF r.chunked THEN r.dec.done ELSE r.len = NoLen \/ r.total > r.len)

\* The body is framed by chunks, else by a length; without either a kept
\* connection takes the response for complete, and its body for none of it.
Complete(r) ==
    r.ended /\ (IF r.chunked THEN r.dec.done ELSE r.len = NoLen \/ r.total >= r.len)

Want(r) == IF r.len # NoLen /\ r.len < r.cap THEN r.len ELSE r.cap

\* The one-shot request has what it came for.
Enough(s) ==
    /\ s.rx.ended
    /\ \/ s.rx.cap = 0
       \/ s.rx.chunked /\ (s.rx.dec.done \/ Len(s.body) >= s.rx.cap)
       \/ ~s.rx.chunked /\ Len(s.body) >= Want(s.rx)

TakeChunked(s, b) ==
    LET d == DecodeByte(s.rx.dec, b)
    IN  IF s.rx.dec.done THEN s
        ELSE [s EXCEPT !.rx.dec = d,
                       !.rx.result = IF d.bad THEN "bad" ELSE @,
                       !.body = Stored(s.rx.dec, b, @, s.rx.cap)]

Append1(s, b, room) == [s EXCEPT !.body = IF Len(@) < room THEN Append(@, b) ELSE @]

TakeBody(s, b) ==
    CASE s.rx.chunked /\ (s.rx.kind = "keep" \/ s.rx.cap > 0) -> TakeChunked(s, b)
      [] ~s.rx.chunked /\ s.rx.kind = "keep" ->
             [Append1(s, b, s.rx.cap) EXCEPT !.rx.total = @ + 1]
      [] ~s.rx.chunked /\ s.rx.kind = "once" -> Append1(s, b, Want(s.rx))
      [] OTHER -> s

\* Nothing is used of a kept connection once the response is complete, and
\* nothing at all after an error.
TakeByte(s, b) ==
    IF s.rx.result = "bad" \/ (s.rx.kind = "keep" /\ Complete(s.rx)) THEN s
    ELSE LET t == IF s.rx.ended THEN TakeBody(s, b) ELSE [s EXCEPT !.rx = TakeHead(@, b)]
         IN  [t EXCEPT !.used = @ + 1]

Feed(piece) == FoldLeft(TakeByte, [rx |-> rx, body |-> body, used |-> 0], piece)

\* A record: the one-shot request looks whether it has enough after each.
Receive ==
    /\ rx.result = "reading"
    /\ \E n \in 1..Len(wire) :
        LET s == Feed([m \in 1..n |-> wire[m].b])
            done == IF rx.kind = "keep" THEN Complete(s.rx) ELSE Enough(s)
        IN  /\ rx' = IF done /\ s.rx.result # "bad" THEN [s.rx EXCEPT !.result = "done"]
                     ELSE s.rx
            /\ body' = s.body
            /\ wire' = SubSeq(wire, s.used + 1, Len(wire))
    /\ UNCHANGED <<snd, sent, line>>

\* An alert is an error for the one-shot request, a reset for both.
Breaks(end) == end = "reset" \/ (end = "alert" /\ rx.kind = "once")

\* Otherwise the end of the connection is the end of the response.
ReceiveEnd ==
    /\ rx.result = "reading" /\ line # "up" /\ wire = <<>>
    /\ rx' = [rx EXCEPT !.result = IF Breaks(line) THEN "bad" ELSE "done",
                        !.close = (rx.kind = "keep")]
    /\ UNCHANGED <<body, snd, sent, wire, line>>

\* *out_peer_wants_close is not set: the next request may use the connection.
Reusable(r) ==
    /\ r.kind = "keep" /\ r.result = "done"
    /\ ~r.close /\ r.ended /\ (r.chunked \/ r.len # NoLen)

-----------------------------------------------------------------------------
(***************************************************************************)
(* The server follows RFC 9112: fields in any order, a Content-Length      *)
(* beside Transfer-Encoding, which overrides it, lines that mean nothing   *)
(* here, of any length; sizes with leading zeroes, extensions, trailers,   *)
(* and sizes and lines the receiver has no room for.                       *)
(***************************************************************************)
Marked(part, bytes) == [m \in DOMAIN bytes |-> [part |-> part, b |-> bytes[m]]]

Put(part, bytes) == wire' = wire \o Marked(part, bytes)

CRLF == <<"CR", "LF">>

Sending(part) ==
    snd.at = part /\ Len(wire) <= MaxAhead /\ rx.result = "reading" /\ line = "up"

Numbers == UNION {[1..n -> Digit] : n \in 1..MaxDigits}

AddDigit(v, b) == v * Base + ValueOf(b)

TrueValue(ds) == FoldLeft(AddDigit, 0, ds)

Extensions == {[m \in 1..n |-> "x"] : n \in 0..MaxExt}

\* Fields: [text, chunked, len]
FieldLine(text, chunked, len) == [text |-> text \o CRLF, chunked |-> chunked, len |-> len]

LengthLine(blank, ds) ==
    FieldLine(<<"Content-Length:">> \o blank \o ds, FALSE, TrueValue(ds))

Lengths ==
    {LengthLine(blank, ds) : blank \in {<<>>, <<"SP">>},
                             ds \in {n \in Numbers : TrueValue(n) < Width \/ LongLengths}}

Codings ==
    {FieldLine(<<"Transfer-Encoding:">> \o value, TRUE, NoLen) :
        value \in {<<"chunked">>, <<"SP", "x", "COMMA", "chunked">>}}
    \cup {FieldLine(<<"Transfer-Encoding:", "x", "chunked">>, FALSE, NoLen)}

Others ==
    {FieldLine(text, FALSE, NoLen) :
        text \in {<<"Connection:", "SP", "close">>, <<"x", "Content-Length:", "x">>,
                  [m \in 1..(HeadLineCap + 1) |-> "x"]}}

SendStatus ==
    /\ Sending("status")
    /\ Put("head", <<"x">> \o CRLF)
    /\ snd' = [snd EXCEPT !.at = "fields", !.head = 3, !.unfit = 3 > HeadCap]
    /\ UNCHANGED <<rx, body, sent, line>>

\* Chunks override a length, wherever it is.
Framing(chunked, len) ==
    IF chunked THEN "chunked" ELSE IF len # NoLen THEN "length" ELSE "none"

\* No field that says how the body is framed comes twice.
SendField ==
    /\ Sending("fields") /\ snd.fields < MaxFields
    /\ \E f \in Lengths \cup Codings \cup Others :
        LET len == IF f.len # NoLen THEN f.len ELSE snd.len
        IN  /\ f.len = NoLen \/ snd.len = NoLen
            /\ ~(f \in Codings /\ snd.coded)
            /\ Put("head", f.text)
            /\ snd' = [snd EXCEPT
                        !.framing = Framing(f.chunked \/ @ = "chunked", len),
                        !.len = len, !.head = @ + Len(f.text), !.fields = @ + 1,
                        !.coded = @ \/ f \in Codings,
                        !.unfit = @ \/ snd.head + Len(f.text) > HeadCap]
    /\ UNCHANGED <<rx, body, sent, line>>

\* The empty line after the fields.
SendBlank ==
    /\ Sending("fields")
    /\ snd.framing = "length" => snd.len <= MaxData \/ snd.len >= Width
    /\ Put("head", CRLF)
    /\ snd' = [snd EXCEPT
                !.head = 0, !.fields = 0, !.coded = FALSE,
                !.left = IF snd.framing = "length" THEN snd.len ELSE 0,
                !.unfit = @ \/ snd.head + 2 > HeadCap,
                !.at = CASE snd.framing = "chunked" -> "size"
                         [] snd.framing = "length" /\ snd.len = 0 -> "next"
                         [] OTHER -> "body"]
    /\ UNCHANGED <<rx, body, sent, line>>

\* Some of a body that is not chunked.
SendBody ==
    /\ Sending("body") /\ ~snd.unfit
    /\ \E n \in 1..(MaxData - Len(sent)) : \E ds \in [1..n -> Content] :
        /\ snd.framing = "length" => n <= snd.left
        /\ sent' = sent \o ds
        /\ Put("data", ds)
        /\ snd' = IF snd.framing = "none" THEN snd
                  ELSE [snd EXCEPT !.left = @ - n, !.at = IF snd.left = n THEN "next" ELSE @]
    /\ UNCHANGED <<rx, body, line>>

SendSize ==
    /\ Sending("size") /\ ~snd.unfit
    /\ \E ds \in Numbers, ext \in Extensions :
        LET size == TrueValue(ds)
        IN  /\ size >= Width \/ Len(sent) + size <= MaxData
            /\ Put("size", ds \o ext \o CRLF)
            /\ snd' = [snd EXCEPT !.at = IF size = 0 THEN "trailers" ELSE "data",
                                  !.left = size,
                                  !.unfit = size >= Width
                                            \/ Len(ds) + Len(ext) + 1 >= LineCap]
    /\ UNCHANGED <<rx, body, sent, line>>

\* Data are any bytes, followed by the end of the chunk.
SendData ==
    /\ Sending("data") /\ ~snd.unfit
    /\ \E ds \in [1..snd.left -> Content] :
        /\ sent' = sent \o ds
        /\ wire' = wire \o Marked("data", ds) \o Marked("size", CRLF)
    /\ snd' = [snd EXCEPT !.at = "size", !.left = 0]
    /\ UNCHANGED <<rx, body, line>>

SendTrailer ==
    /\ Sending("trailers") /\ snd.trailers < MaxTrailers
    /\ \E n \in 1..2 : Put("trailers", [m \in 1..n |-> "x"] \o CRLF)
    /\ snd' = [snd EXCEPT !.trailers = @ + 1]
    /\ UNCHANGED <<rx, body, sent, line>>

SendEnd ==
    /\ Sending("trailers")
    /\ Put("trailers", CRLF)
    /\ snd' = [snd EXCEPT !.at = "next"]
    /\ UNCHANGED <<rx, body, sent, line>>

\* The first byte of the next response.
SendNext ==
    /\ Sending("next")
    /\ \E b \in Content : Put("next", <<b>>)
    /\ snd' = [snd EXCEPT !.at = "end"]
    /\ UNCHANGED <<rx, body, sent, line>>

\* The server closes, with or without an alert before, as it must at the end of a
\* body without framing, or it breaks off: a reset, or silence until the read times out.
\* The receiver looks for the end when it has read what was sent before it.
Close ==
    /\ rx.result = "reading" /\ line = "up" /\ wire = <<>>
    /\ line' \in {"eof", "alert", "reset"}
    /\ UNCHANGED <<rx, body, snd, sent, wire>>

Next ==
    \/ Receive \/ ReceiveEnd
    \/ SendStatus \/ SendField \/ SendBlank \/ SendBody \/ SendSize \/ SendData
    \/ SendTrailer \/ SendEnd \/ SendNext
    \/ Close

Spec == Init /\ [][Next]_vars

-----------------------------------------------------------------------------
\* The lines always have room for their terminators.
TypeOK ==
    /\ Len(rx.buf) <= HeadCap /\ rx.buf \in Seq(HeadByte)
    /\ Len(rx.line) < HeadLineCap /\ Len(rx.dec.line) < LineCap
    /\ rx.dec.rem \in 0..(Width - 1) /\ rx.total \in 0..(Width - 1)
    /\ Len(body) <= rx.cap

\* How many bytes of this part are in the bytes w.
Count(w, part) == Cardinality({k \in DOMAIN w : w[k].part = part})

OnlyNext(w) == \A k \in DOMAIN w : w[k].part = "next"

MessageSent == snd.at \in {"next", "end"}

\* However the stream is cut, what is stored is what was sent, up to the room
\* there is: no byte of a head, a size, an extension, a trailer or the next
\* response, and none twice or missing.
StoresTheBody ==
    rx.result # "bad" =>
        LET got == Len(sent) - Count(wire, "data")
        IN  body = SubSeq(sent, 1, IF got < rx.cap THEN got ELSE rx.cap)

\* A kept connection takes a framed response for complete when it has used its
\* last byte, not before and not later, and is used again only then: the next
\* response starts where this one ends.  The one-shot request does not stop
\* before its buffer is full or the message is at its end.
EndsWithMessage ==
    /\ rx.kind = "keep" /\ rx.result # "bad" /\ snd.framing # "none" =>
        (Complete(rx) <=> MessageSent /\ OnlyNext(wire))
    /\ Reusable(rx) => MessageSent /\ OnlyNext(wire)
    /\ rx.kind = "once" /\ rx.result = "done" /\ line = "up" =>
        Len(body) = rx.cap \/ MessageSent

\* A response is rejected for a head or a line that does not fit in its buffer
\* or a size that does not fit in its type, or with its connection, for nothing
\* else, and by a kept connection always: no size is taken for another one.
RejectsTheUnfit ==
    /\ rx.result = "bad" => snd.unfit \/ (line # "up" /\ Breaks(line))
    /\ snd.unfit /\ wire = <<>> =>
        rx.result = "bad" \/ (rx.kind = "once" /\ rx.result = "done")

\* The comment of http_parse_content_length_line (http_parse.h:93-96): the
\* length is parsed, or the line is invalid and gives none.
LengthParsedOrInvalid == rx.len \in {NoLen, snd.len}

\* The comment of tls13_https_conn_get_status_location_and_body
\* (tls13_client.h:99-100): the body receives up to body_cap bytes, and the
\* full response body is drained.
BodyDelivered ==
    rx.result = "done" => body = FirstOf(sent, rx.cap)
=============================================================================
