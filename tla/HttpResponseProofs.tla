-------------------------- MODULE HttpResponseProofs --------------------------
(***************************************************************************)
(* What holds of a response for numbers of any width, buffers of any size, *)
(* bodies, fields and trailers of any length and records cut anywhere: the *)
(* body stored is the one sent, a response ends where its message does,    *)
(* and only what does not fit is rejected.                                 *)
(*                                                                         *)
(* The argument: what the bytes on their way will do to the receiver, one  *)
(* after the other, is fixed when they are sent.  That is a sequence of    *)
(* receivers, one more than there are bytes (Path), each of which agrees   *)
(* with what the server had sent when it sent that byte (Good), the last   *)
(* one with what the server is about to send (AtEnd).  Sending makes the   *)
(* sequence longer at its end, and receiving, however many bytes a record  *)
(* has, shorter at its beginning.                                          *)
(***************************************************************************)
EXTENDS HttpResponse, SequenceTheorems, FiniteSetTheorems, TLAPS

-----------------------------------------------------------------------------
(***************************************************************************)
(* Types.                                                                  *)
(***************************************************************************)
Part == {"head", "data", "size", "trailers", "next"}
Item == [part : Part, b : HeadByte]

Decoder == [at : {"size", "data", "lf", "trailers"}, rem : Nat, line : Seq(HeadByte),
            start : BOOLEAN, cr : BOOLEAN, done : BOOLEAN, bad : BOOLEAN]

Receiver == [kind : {"keep", "once"}, cap : Nat, buf : Seq(HeadByte), line : Seq(HeadByte),
             status : BOOLEAN, ended : BOOLEAN, len : Int, chunked : BOOLEAN,
             close : BOOLEAN, dec : Decoder, total : Nat,
             result : {"reading", "bad", "done"}]

State == [rx : Receiver, body : Seq(HeadByte)]

Server == [at : {"status", "fields", "size", "data", "trailers", "body", "next", "end"},
           framing : {"none", "length", "chunked"}, len : Nat \cup {NoLen},
           head : Nat, fields : Nat,
           coded : BOOLEAN, left : Nat, trailers : Nat, unfit : BOOLEAN]

\* The receiver uses no more bytes.
Stopped(t) == t.rx.result = "bad" \/ (t.rx.kind = "keep" /\ Complete(t.rx))

\* Is there a decoder that looks at the body?
Decodes(r) == r.chunked /\ (r.kind = "keep" \/ r.cap > 0)

Store(body_, b, room) == IF Len(body_) < room THEN Append(body_, b) ELSE body_

\* What TakeByte makes of receiver and body.
Take(t, b) ==
  IF Stopped(t) THEN t
  ELSE IF ~t.rx.ended THEN [rx |-> TakeHead(t.rx, b), body |-> t.body]
  ELSE IF Decodes(t.rx) /\ ~t.rx.dec.done
  THEN LET d == DecodeByte(t.rx.dec, b)
       IN  [rx   |-> [t.rx EXCEPT !.dec = d, !.result = IF d.bad THEN "bad" ELSE @],
            body |-> Stored(t.rx.dec, b, t.body, t.rx.cap)]
  ELSE IF ~t.rx.chunked /\ t.rx.kind = "keep"
  THEN [rx |-> [t.rx EXCEPT !.total = @ + 1], body |-> Store(t.body, b, t.rx.cap)]
  ELSE IF ~t.rx.chunked THEN [rx |-> t.rx, body |-> Store(t.body, b, Want(t.rx))]
  ELSE t

-----------------------------------------------------------------------------
(***************************************************************************)
(* The invariant.  s is the server, z what it has sent of the body.        *)
(***************************************************************************)
Least(m, n) == IF m < n THEN m ELSE n

\* What is left of w after its first k elements.
After(w, k) == SubSeq(w, k + 1, Len(w))

Got(w, z) == Len(z) - Count(w, "data")

InHead(s) == s.at \in {"status", "fields"}

Ended(s) == s.at \in {"next", "end"}

\* What the server has said of itself agrees with what it has sent.
ServerInv(s, z) ==
    /\ s.at = "status" => /\ s.framing = "none" /\ s.len = NoLen /\ ~s.unfit /\ s.head = 0
    /\ InHead(s) => z = <<>>
    /\ s.at \in {"size", "data", "trailers"} => s.framing = "chunked"
    /\ s.at = "body" => s.framing # "chunked"
    /\ s.framing # "chunked" => (s.framing = "none" <=> s.len = NoLen)
    /\ Ended(s) => s.framing # "none"
    /\ ~InHead(s) /\ s.framing = "length" =>
        /\ Len(z) + s.left = s.len
        /\ (s.left = 0 <=> Ended(s))
    /\ s.at = "data" => s.left > 0

\* A receiver that has used all bytes sent but those of w.
Good(t, w, s, z) ==
    /\ Got(w, z) \in 0..Len(z)
    /\ t.rx.result = "bad" => s.unfit
    /\ t.rx.result # "bad" =>
        /\ t.rx.result = "reading"
        /\ t.rx.dec.done => Ended(s)
        /\ ~t.rx.ended =>
            /\ t.body = <<>> /\ Got(w, z) = 0
            /\ IF w = <<>> THEN InHead(s) ELSE w[1].part = "head"
        /\ t.rx.ended =>
            /\ ~InHead(s)
            /\ t.rx.chunked <=> s.framing = "chunked"
            /\ t.rx.len = s.len
            /\ t.body = IF t.rx.kind = "keep" /\ s.framing = "none" THEN <<>>
                        ELSE SubSeq(z, 1, Least(Got(w, z), t.rx.cap))
            /\ t.rx.kind = "keep" /\ s.framing # "none" =>
                (Complete(t.rx) <=> Ended(s) /\ OnlyNext(w))

\* It does not look at the body any more.
Idle(t) == t.rx.result = "bad" \/ (t.rx.kind = "once" /\ t.rx.cap = 0 /\ t.rx.ended)

\* The receiver has read the lines of the head that have been sent.
BetweenLines(t, s) ==
    /\ t.rx.line = <<>> /\ t.rx.status /\ Len(t.rx.buf) = s.head
    /\ s.head >= 2 /\ SubSeq(t.rx.buf, s.head - 1, s.head) = CRLF
    /\ t.rx.len = s.len
    /\ t.rx.chunked <=> s.framing = "chunked"

\* The decoder is where the server is.
DecoderAt(d, s) ==
    /\ ~d.bad /\ (d.done <=> Ended(s))
    /\ s.at = "size" => d.at = "size"
    /\ s.at = "data" => d.at = "data" /\ d.rem = s.left
    /\ s.at \in {"size", "data"} => d.line = <<>>
    /\ s.at = "trailers" => d.at = "trailers" /\ d.start /\ ~d.cr

\* A receiver that has used all bytes sent.
AtEnd(t, s, z) ==
    /\ s.at = "status" => t.rx = NewReceiver(t.rx.kind, t.rx.cap)
    /\ s.unfit => Idle(t)
    /\ ~s.unfit =>
        /\ t.rx.result = "reading"
        /\ t.rx.ended <=> ~InHead(s)
        /\ s.at = "fields" => BetweenLines(t, s)
        /\ InHead(s) => t.rx.dec = Fresh /\ t.rx.total = 0
        /\ ~InHead(s) /\ Decodes(t.rx) => DecoderAt(t.rx.dec, s)
        /\ (~InHead(s) /\ t.rx.kind = "keep" /\ s.framing = "length") => t.rx.total = Len(z)

\* What the bytes w make of the receiver t, one after the other.
Path(f, t, w) == f[0] = t /\ \A n \in 1..Len(w) : f[n] = Take(f[n - 1], w[n].b)

GoodPath(f, t, w, s, z) ==
    /\ Path(f, t, w)
    /\ \A n \in 0..Len(w) : Good(f[n], After(w, n), s, z)
    /\ AtEnd(f[Len(w)], s, z)

Typed ==
    /\ [rx |-> rx, body |-> body] \in State
    /\ snd \in Server /\ sent \in Seq(HeadByte) /\ wire \in Seq(Item)

Live ==
    /\ Typed /\ ServerInv(snd, sent)
    /\ snd.at = "status" => wire = <<>>
    /\ rx.kind = "keep" => ~Complete(rx)
    /\ rx.kind = "once" => ~Enough([rx |-> rx, body |-> body])
    /\ \E f : GoodPath(f, [rx |-> rx, body |-> body], wire, snd, sent)

\* While the receiver reads; once it has stopped reading, nothing moves.
ResponseInv ==
    IF rx.result = "reading" THEN Live
    ELSE StoresTheBody /\ EndsWithMessage /\ RejectsTheUnfit

-----------------------------------------------------------------------------
(***************************************************************************)
(* One byte.                                                               *)
(***************************************************************************)
\* TakeByte is Take, and it counts.
LEMMA TakeByteIs ==
  ASSUME NEW t \in State, NEW b, NEW u \in Nat
  PROVE  TakeByte([rx |-> t.rx, body |-> t.body, used |-> u], b)
         = [rx |-> Take(t, b).rx, body |-> Take(t, b).body,
            used |-> IF Stopped(t) THEN u ELSE u + 1]
<1> DEFINE s == [rx |-> t.rx, body |-> t.body, used |-> u]
<1>1. /\ s.rx = t.rx /\ s.body = t.body /\ s.used = u
      /\ t = [rx |-> t.rx, body |-> t.body]
  BY DEF State
<1>2. CASE Stopped(t)
  BY <1>2 DEF Take, TakeByte, Stopped
<1>3. CASE ~Stopped(t) /\ ~t.rx.ended
  BY <1>3 DEF Take, TakeByte, Stopped
<1>4. CASE ~Stopped(t) /\ t.rx.ended
  <2>1. TakeByte(s, b) = [TakeBody(s, b) EXCEPT !.used = @ + 1]
    BY <1>4 DEF TakeByte, Stopped
  <2>2. CASE Decodes(t.rx)
    <3>1. TakeBody(s, b) = TakeChunked(s, b)
      BY <2>2 DEF TakeBody, Decodes
    <3>2. CASE t.rx.dec.done
      <4>1. TakeBody(s, b) = s /\ Take(t, b) = t
        BY <1>1, <1>4, <2>2, <3>1, <3>2 DEF TakeChunked, Take, Decodes
      <4> QED
        BY <1>1, <1>4, <2>1, <4>1
    <3>3. CASE ~t.rx.dec.done
      <4> DEFINE d == DecodeByte(t.rx.dec, b)
                 r == [t.rx EXCEPT !.dec = d, !.result = IF d.bad THEN "bad" ELSE @]
                 y == Stored(t.rx.dec, b, t.body, t.rx.cap)
      <4>1. TakeBody(s, b) = [rx |-> r, body |-> y, used |-> u]
        BY <3>1, <3>3 DEF TakeChunked
      <4>2. Take(t, b) = [rx |-> r, body |-> y]
        BY <1>4, <2>2, <3>3 DEF Take
      <4> HIDE DEF r, y
      <4> QED
        BY <1>4, <2>1, <4>1, <4>2
    <3> QED BY <3>2, <3>3
  <2>3. CASE ~t.rx.chunked /\ t.rx.kind = "keep"
    <3> DEFINE r == [t.rx EXCEPT !.total = @ + 1]
               y == Store(t.body, b, t.rx.cap)
    <3>1. TakeBody(s, b) = [rx |-> r, body |-> y, used |-> u]
      BY <2>3 DEF TakeBody, Append1, Store
    <3>2. Take(t, b) = [rx |-> r, body |-> y]
      BY <1>4, <2>3 DEF Take, Decodes
    <3> HIDE DEF r, y
    <3> QED
      BY <1>4, <2>1, <3>1, <3>2
  <2>4. CASE ~t.rx.chunked /\ t.rx.kind # "keep"
    <3>0. t.rx.kind = "once"
      BY <2>4 DEF State, Receiver
    <3> DEFINE y == Store(t.body, b, Want(t.rx))
    <3>1. TakeBody(s, b) = [rx |-> t.rx, body |-> y, used |-> u]
      BY <2>4, <3>0 DEF TakeBody, Append1, Store
    <3>2. Take(t, b) = [rx |-> t.rx, body |-> y]
      BY <1>4, <2>4 DEF Take, Decodes
    <3> HIDE DEF y
    <3> QED
      BY <1>4, <2>1, <3>1, <3>2
  <2>5. CASE t.rx.chunked /\ ~Decodes(t.rx)
    <3>1. TakeBody(s, b) = s
      BY <2>5 DEF TakeBody, Decodes
    <3>2. Take(t, b) = t
      BY <1>4, <2>5 DEF Take
    <3> QED
      BY <1>1, <1>4, <2>1, <3>1, <3>2
  <2> QED
    BY <2>2, <2>3, <2>4, <2>5 DEF Decodes
<1> QED
  BY <1>2, <1>3, <1>4

-----------------------------------------------------------------------------
(***************************************************************************)
(* Numbers.                                                                *)
(***************************************************************************)
Hex == INSTANCE Iteration WITH op <- ShiftIn
Dec == INSTANCE Iteration WITH op <- ShiftInDec
Val == INSTANCE Iteration WITH op <- AddDigit

\* Digits have values below the base.
LEMMA DigitFacts ==
  /\ Base \in Nat /\ Base > 1 /\ Width \in Nat /\ Width > 0
  /\ Digit \subseteq HeadByte /\ Byte \subseteq HeadByte
  /\ \A b \in Digit : ValueOf(b) \in 0..(Base - 1)
<1>1. /\ Base \in Nat /\ Base > 1 /\ Width \in Nat /\ Width > 0
      /\ DOMAIN Digits = 1..Base
  BY ChunkedAssumption DEF Base
<1>2. ASSUME NEW b \in Digit PROVE ValueOf(b) \in 0..(Base - 1)
  <2>1. \E n \in 1..Base : Digits[n] = b
    BY <1>1 DEF Digit, ToSet
  <2> QED BY <1>1, <2>1 DEF ValueOf
<1> QED
  BY <1>1, <1>2 DEF HeadByte, Byte

\* A larger factor makes a product larger by the other factor at least.
LEMMA ProductGrows ==
  ASSUME NEW p \in Nat, NEW m \in Nat, NEW n \in Nat, m < n
  PROVE  p * m + p <= p * n
<1>1. n - m >= 1 /\ n - m \in Nat
  OBVIOUS
<1>2. p * (n - m) >= p
  BY <1>1
<1>3. p * n = p * m + p * (n - m)
  OBVIOUS
<1>4. p * m \in Nat /\ p * n \in Nat /\ p * (n - m) \in Nat
  BY <1>1
<1> QED
  BY <1>2, <1>3, <1>4

\* A digit shifted in shifts out again to what was there, unless the number wrapped.
LEMMA ShiftFacts ==
  ASSUME NEW v \in 0..(Width - 1), NEW d \in 0..(Base - 1)
  PROVE  LET x == v * Base + d
         IN  /\ x \in Nat /\ v <= x /\ x % Width \in 0..(Width - 1)
             /\ x < Width => x % Width = x /\ x \div Base = v
             /\ x >= Width => (x % Width) \div Base # v
<1> DEFINE x == v * Base + d
<1>1. Base \in Nat /\ Base > 1 /\ Width \in Nat /\ Width > 0 /\ v \in Nat /\ d \in Nat
  BY DigitFacts
<1>2. /\ v * Base \in Nat /\ v <= v * Base /\ v * Base = Base * v
  BY <1>1
<1>3. x \in Nat /\ v <= x /\ x = Base * v + d
  BY <1>1, <1>2
<1> HIDE DEF x
<1>4. \A y \in Nat : /\ y \div Base \in Nat
                     /\ Base * (y \div Base) <= y
                     /\ y < Base * (y \div Base) + Base
  BY <1>1
<1>5. x % Width \in 0..(Width - 1) /\ (x < Width => x % Width = x)
  BY <1>1, <1>3
<1>6. x \div Base = v
  <2> DEFINE q == x \div Base
  <2>1. q \in Nat /\ Base * q <= x /\ x < Base * q + Base
    BY <1>3, <1>4
  <2> HIDE DEF q
  <2>2. Base * q \in Nat /\ Base * v \in Nat
    BY <1>1, <2>1
  <2>3. ~(q < v)
    BY <1>1, <1>3, <2>1, <2>2, ProductGrows
  <2>4. ~(v < q)
    BY <1>1, <1>3, <2>1, <2>2, ProductGrows
  <2> QED
    BY <1>1, <2>1, <2>3, <2>4 DEF q
<1>7. ASSUME x >= Width, (x % Width) \div Base = v PROVE FALSE
  <2>1. PICK n \in Nat : Width = Base * n
    BY ChunkedAssumption
  <2>2. ~(v < n)
    <3>1. Base * v \in Nat /\ Base * n \in Nat
      BY <1>1, <2>1
    <3> QED
      BY <1>1, <1>3, <1>7, <2>1, <3>1, ProductGrows
  <2>3. Base * n <= Base * v
    <3>1. CASE v = n
      BY <1>1, <2>1, <3>1
    <3>2. CASE n < v
      <4>1. Base * v \in Nat /\ Base * n \in Nat
        BY <1>1, <2>1
      <4> QED
        BY <1>1, <2>1, <3>2, <4>1, ProductGrows
    <3> QED
      BY <1>1, <2>1, <2>2, <3>1, <3>2
  <2>4. Base * v <= x % Width
    BY <1>4, <1>5, <1>7
  <2>5. Base * v \in Nat /\ Base * n \in Nat
    BY <1>1, <2>1
  <2> QED
    BY <1>1, <1>5, <2>1, <2>3, <2>4, <2>5
<1> QED
  BY <1>3, <1>5, <1>6, <1>7 DEF x

\* The digits at the start of a line.
LEMMA LeadingIs ==
  ASSUME NEW s \in Seq(HeadByte), NEW k \in 0..Len(s), \A i \in 1..k : s[i] \in Digit,
         k = Len(s) \/ s[k + 1] \notin Digit
  PROVE  LeadingDigits(s) = SubSeq(s, 1, k)
<1> DEFINE I == {i \in 1..Len(s) : s[i] \notin Digit}
           n == SelectInSeq(s, LAMBDA b : b \notin Digit)
<1>1. Len(s) \in Nat /\ k \in Nat
  BY LenProperties
<1>2. n = IF I # {} THEN Min(I) ELSE 0
  BY DEF SelectInSeq
<1>3. LeadingDigits(s) = IF n = 0 THEN s ELSE SubSeq(s, 1, n - 1)
  BY DEF LeadingDigits
<1> HIDE DEF n
<1>4. CASE k = Len(s)
  <2>1. I = {}
    BY <1>4
  <2> QED
    BY <1>2, <1>3, <1>4, <2>1, SubSeqFull
<1>5. CASE k # Len(s)
  <2>1. k + 1 \in I /\ \A i \in I : k + 1 <= i
    BY <1>1, <1>5
  <2> HIDE DEF I
  <2>2. Min(I) = k + 1
    <3>1. \E x \in I : \A y \in I : x <= y
      BY <2>1
    <3>2. Min(I) \in I /\ \A y \in I : Min(I) <= y
      BY <3>1 DEF Min
    <3>3. I \subseteq Nat
      BY DEF I
    <3>4. Min(I) <= k + 1 /\ k + 1 <= Min(I) /\ Min(I) \in Nat
      BY <2>1, <3>2, <3>3
    <3> QED
      BY <1>1, <3>4
  <2>3. n = k + 1
    BY <1>2, <2>1, <2>2
  <2> QED
    BY <1>1, <1>3, <2>3
<1> QED
  BY <1>4, <1>5

\* Whatever the line, its leading digits are digits, and no more than there are bytes.
LEMMA LeadingFacts ==
  ASSUME NEW s \in Seq(HeadByte)
  PROVE  /\ LeadingDigits(s) \in Seq(Digit)
         /\ Len(LeadingDigits(s)) \in 0..Len(s)
<1> DEFINE S == {j \in 0..Len(s) : j = Len(s) \/ s[j + 1] \notin Digit}
<1>1. Len(s) \in Nat
  BY LenProperties
<1>2. S \subseteq Nat /\ S # {}
  BY <1>1
<1>3. PICK k \in S : \A j \in S : k <= j
  BY <1>2, Hex!LeastElement
<1>4. \A i \in 1..k : s[i] \in Digit
  <2> SUFFICES ASSUME NEW i \in 1..k, s[i] \notin Digit PROVE FALSE
    OBVIOUS
  <2>1. i - 1 \in S /\ ~(k <= i - 1)
    BY <1>1, <1>3
  <2> QED BY <1>3, <2>1
<1>5. LeadingDigits(s) = SubSeq(s, 1, k)
  BY <1>3, <1>4, LeadingIs
<1>6. k \in Nat /\ \A i \in 1..k : s[i] \in Digit
  BY <1>3, <1>4
<1>7. SubSeq(s, 1, k) \in Seq(Digit) /\ Len(SubSeq(s, 1, k)) = k
  BY <1>6, SubSeqProperties
<1> QED
  BY <1>3, <1>5, <1>7

\* What a number is.
LEMMA ValueTrace ==
  ASSUME NEW ds \in Seq(Digit)
  PROVE  \E g : /\ g[0] = 0 /\ TrueValue(ds) = g[Len(ds)]
                /\ \A k \in 1..Len(ds) : g[k] = g[k - 1] * Base + ValueOf(ds[k])
<1>1. PICK g : Val!Iterates(g, 0, ds, Len(ds)) /\ Val!Fold(0, ds) = g[Len(ds)]
  BY Val!FoldIterates
<1>2. Len(ds) \in Nat
  BY LenProperties
<1>3. g[0] = 0
  BY <1>1, <1>2 DEF Val!Iterates
<1>4. ASSUME NEW k \in 1..Len(ds) PROVE g[k] = g[k - 1] * Base + ValueOf(ds[k])
  <2>1. k \in 0..Len(ds) /\ k # 0
    BY <1>2
  <2> QED
    BY <1>1, <2>1 DEF Val!Iterates, AddDigit
<1>5. TrueValue(ds) = Val!Fold(0, ds)
  BY DEF TrueValue, Val!Fold, FoldLeft, MapThenFoldSet, Max, Val!Largest
<1> QED
  BY <1>1, <1>3, <1>4, <1>5

\* A chunk's size is what it says or too large.
LEMMA SizeOfDigits ==
  ASSUME NEW ds \in Seq(Digit)
  PROVE  LET n == FoldLeft(ShiftIn, [v |-> 0, over |-> FALSE], ds)
         IN  /\ TrueValue(ds) \in Nat
             /\ n.v \in 0..(Width - 1)
             /\ n.over <=> TrueValue(ds) >= Width
             /\ ~n.over => n.v = TrueValue(ds)
<1> DEFINE base == [v |-> 0, over |-> FALSE]
           Rel(a, v) == /\ v \in Nat
                        /\ a.v \in 0..(Width - 1)
                        /\ a.over <=> v >= Width
                        /\ ~a.over => a.v = v
<1>1. PICK g : /\ g[0] = 0 /\ TrueValue(ds) = g[Len(ds)]
               /\ \A k \in 1..Len(ds) : g[k] = g[k - 1] * Base + ValueOf(ds[k])
  BY ValueTrace
<1>2. PICK f : Hex!Iterates(f, base, ds, Len(ds)) /\ Hex!Fold(base, ds) = f[Len(ds)]
  BY Hex!FoldIterates
<1>3. FoldLeft(ShiftIn, base, ds) = Hex!Fold(base, ds)
  BY DEF Hex!Fold, FoldLeft, MapThenFoldSet, Max, Hex!Largest
<1> HIDE DEF base
<1>4. Len(ds) \in Nat /\ \A k \in 1..Len(ds) : ds[k] \in Digit
  BY LenProperties, ElementOfSeq
<1> DEFINE S == {k \in Nat : k <= Len(ds) => Rel(f[k], g[k])}
<1>5. 0 \in S
  <2>1. f[0] = base
    BY <1>2, <1>4 DEF Hex!Iterates
  <2>2. f[0].v = 0 /\ ~f[0].over /\ 0 \in 0..(Width - 1) /\ ~(0 >= Width) /\ 0 < Width
    BY <2>1, DigitFacts DEF base
  <2>3. Rel(f[0], g[0])
    BY <1>1, <2>2
  <2> HIDE DEF Rel
  <2> QED
    BY <2>3
<1>6. ASSUME NEW k \in Nat, k \in S PROVE k + 1 \in S
  <2> SUFFICES ASSUME k + 1 <= Len(ds) PROVE Rel(f[k + 1], g[k + 1])
    OBVIOUS
  <2>1. k <= Len(ds) /\ k + 1 \in 1..Len(ds) /\ k + 1 \in 0..Len(ds) /\ k + 1 # 0 /\ (k + 1) - 1 = k
    BY <1>4
  <2>2. f[k + 1] = ShiftIn(f[k], ds[k + 1])
    BY <1>2, <2>1 DEF Hex!Iterates
  <2> DEFINE a == f[k]
             v == g[k]
             d == ValueOf(ds[k + 1])
             x == a.v * Base + d
  <2>3. Rel(a, v)
    BY <1>6, <2>1
  <2>4. g[k + 1] = v * Base + d
    BY <1>1, <2>1
  <2>5. d \in 0..(Base - 1)
    BY <1>4, <2>1, DigitFacts
  <2> DEFINE o == a.over \/ (x % Width) \div Base # a.v
  <2>6. f[k + 1] = [v |-> x % Width, over |-> o]
    BY <2>2 DEF ShiftIn
  <2>o. f[k + 1].over = o /\ f[k + 1].v = x % Width
    <3> HIDE DEF o
    <3> QED BY <2>6
  <2> HIDE DEF a, v, d
  <2>7. /\ x \in Nat /\ a.v <= x /\ x % Width \in 0..(Width - 1)
        /\ x < Width => x % Width = x /\ x \div Base = a.v
        /\ x >= Width => (x % Width) \div Base # a.v
    BY <2>3, <2>5, ShiftFacts
  <2>8. CASE a.over
    <3>1. v * Base + d \in Nat /\ v * Base + d >= v
      BY <2>3, <2>5, DigitFacts
    <3>2. v * Base + d >= Width
      BY <2>3, <2>8, <3>1, DigitFacts
    <3> HIDE DEF x
    <3>3. f[k + 1].over
      BY <2>8, <2>o
    <3>4. f[k + 1].v = x % Width
      BY <2>o
    <3> QED
      BY <2>4, <2>7, <3>1, <3>2, <3>3, <3>4
  <2>9. CASE ~a.over
    <3>1. g[k + 1] = x
      BY <2>3, <2>4, <2>9
    <3> HIDE DEF x
    <3>2. f[k + 1].v = x % Width
      BY <2>6
    <3>3. CASE x < Width
      <4>1. ~f[k + 1].over
        BY <2>o, <2>7, <2>9, <3>3
      <4> QED
        BY <2>7, <3>1, <3>2, <3>3, <4>1, DigitFacts
    <3>4. CASE x >= Width
      <4>1. f[k + 1].over
        BY <2>o, <2>7, <3>4
      <4> QED
        BY <2>7, <3>1, <3>2, <3>4, <4>1, DigitFacts
    <3> QED
      BY <2>7, <3>3, <3>4, DigitFacts
  <2> QED
    BY <2>3, <2>8, <2>9
<1>7. \A k \in Nat : k \in S
  <2> HIDE DEF S
  <2> QED BY <1>5, <1>6, Hex!NatSetInduction
<1>8. Rel(f[Len(ds)], g[Len(ds)])
  BY <1>4, <1>7
<1> QED
  BY <1>1, <1>2, <1>3, <1>8 DEF base

\* A length that fits is what it says.
LEMMA LengthOfDigits ==
  ASSUME NEW ds \in Seq(Digit)
  PROVE  LET n == FoldLeft(ShiftInDec, [v |-> 0, over |-> FALSE], ds)
         IN  /\ n.v \in 0..(Width - 1)
             /\ TrueValue(ds) < Width => n.v = TrueValue(ds) /\ ~n.over
<1> DEFINE base == [v |-> 0, over |-> FALSE]
           Rel(a, v) == /\ v \in Nat
                        /\ a.v \in 0..(Width - 1)
                        /\ v < Width => a.v = v /\ ~a.over
<1>1. PICK g : /\ g[0] = 0 /\ TrueValue(ds) = g[Len(ds)]
               /\ \A k \in 1..Len(ds) : g[k] = g[k - 1] * Base + ValueOf(ds[k])
  BY ValueTrace
<1>2. PICK f : Dec!Iterates(f, base, ds, Len(ds)) /\ Dec!Fold(base, ds) = f[Len(ds)]
  BY Dec!FoldIterates
<1>3. FoldLeft(ShiftInDec, base, ds) = Dec!Fold(base, ds)
  BY DEF Dec!Fold, FoldLeft, MapThenFoldSet, Max, Dec!Largest
<1> HIDE DEF base
<1>4. Len(ds) \in Nat /\ \A k \in 1..Len(ds) : ds[k] \in Digit
  BY LenProperties, ElementOfSeq
<1> DEFINE S == {k \in Nat : k <= Len(ds) => Rel(f[k], g[k])}
<1>5. 0 \in S
  <2>1. f[0] = base
    BY <1>2, <1>4 DEF Dec!Iterates
  <2>2. f[0].v = 0 /\ ~f[0].over /\ 0 \in 0..(Width - 1) /\ ~(0 >= Width) /\ 0 < Width
    BY <2>1, DigitFacts DEF base
  <2>3. Rel(f[0], g[0])
    BY <1>1, <2>2
  <2> HIDE DEF Rel
  <2> QED
    BY <2>3
<1>6. ASSUME NEW k \in Nat, k \in S PROVE k + 1 \in S
  <2> SUFFICES ASSUME k + 1 <= Len(ds) PROVE Rel(f[k + 1], g[k + 1])
    OBVIOUS
  <2>1. k <= Len(ds) /\ k + 1 \in 1..Len(ds) /\ k + 1 \in 0..Len(ds) /\ k + 1 # 0 /\ (k + 1) - 1 = k
    BY <1>4
  <2>2. f[k + 1] = ShiftInDec(f[k], ds[k + 1])
    BY <1>2, <2>1 DEF Dec!Iterates
  <2> DEFINE a == f[k]
             v == g[k]
             d == ValueOf(ds[k + 1])
             x == a.v * Base + d
  <2>3. Rel(a, v)
    BY <1>6, <2>1
  <2>4. g[k + 1] = v * Base + d
    BY <1>1, <2>1
  <2>5. d \in 0..(Base - 1)
    BY <1>4, <2>1, DigitFacts
  <2> DEFINE o == a.over \/ x % Width < a.v
  <2>6. f[k + 1] = [v |-> x % Width, over |-> o]
    BY <2>2 DEF ShiftInDec
  <2>o. f[k + 1].over = o /\ f[k + 1].v = x % Width
    <3> HIDE DEF o
    <3> QED BY <2>6
  <2> HIDE DEF a, v, d
  <2>7. /\ x \in Nat /\ a.v <= x /\ x % Width \in 0..(Width - 1)
        /\ x < Width => x % Width = x
    BY <2>3, <2>5, ShiftFacts
  <2>8. v * Base + d \in Nat /\ v * Base + d >= v
    BY <2>3, <2>5, DigitFacts
  <2>9. CASE v < Width
    <3>1. g[k + 1] = x /\ ~a.over
      BY <2>3, <2>4, <2>9
    <3> HIDE DEF x
    <3>2. f[k + 1].v = x % Width
      BY <2>o
    <3>3. ASSUME x < Width PROVE ~f[k + 1].over
      <4>1. ~(x % Width < a.v)
        BY <2>3, <2>7, <3>3
      <4> QED
        BY <2>o, <3>1, <4>1
    <3> QED
      BY <2>3, <2>7, <3>1, <3>2, <3>3, DigitFacts
  <2>10. CASE ~(v < Width)
    <3>1. ~(g[k + 1] < Width) /\ g[k + 1] \in Nat
      BY <2>3, <2>4, <2>8, <2>10, DigitFacts
    <3> HIDE DEF x
    <3>2. f[k + 1].v = x % Width
      BY <2>6
    <3> QED
      BY <2>7, <3>1, <3>2, DigitFacts
  <2> QED
    BY <2>3, <2>9, <2>10, DigitFacts
<1>7. \A k \in Nat : k \in S
  <2> HIDE DEF S
  <2> QED BY <1>5, <1>6, Dec!NatSetInduction
<1>8. Rel(f[Len(ds)], g[Len(ds)])
  BY <1>4, <1>7
<1> QED
  BY <1>1, <1>2, <1>3, <1>8 DEF base

-----------------------------------------------------------------------------
(***************************************************************************)
(* What a byte does not change.                                            *)
(***************************************************************************)
\* A size is a number, whatever the line.
LEMMA SizeTyped == \A line_ \in Seq(HeadByte) : Size(line_).v \in Nat
<1> SUFFICES ASSUME NEW l \in Seq(HeadByte) PROVE Size(l).v \in Nat
  OBVIOUS
<1>1. LeadingDigits(l) \in Seq(Digit)
  BY LeadingFacts
<1>2. Size(l).v \in 0..(Width - 1)
  BY <1>1, SizeOfDigits DEF Size
<1> QED BY <1>2, DigitFacts

\* The decoder stays in its type.
LEMMA DecodeTyped ==
  ASSUME NEW d \in Decoder, NEW b \in HeadByte
  PROVE  DecodeByte(d, b) \in Decoder
<1>1. \A c \in Decoder : Reject(c) \in Decoder
  BY DEF Decoder, Reject
<1>2. SizeLine(d, b) \in Decoder
  <2> DEFINE v == Size(d.line).v
  <2>1. v \in Nat /\ d.line \in Seq(HeadByte) /\ Append(d.line, b) \in Seq(HeadByte)
        /\ <<>> \in Seq(HeadByte)
    BY SizeTyped DEF Decoder
  <2> HIDE DEF v
  <2>2. [d EXCEPT !.line = Append(@, b)] \in Decoder
    BY <2>1 DEF Decoder
  <2>3. [d EXCEPT !.line = <<>>, !.rem = v, !.at = IF v = 0 THEN "trailers" ELSE "data",
                  !.start = TRUE, !.cr = FALSE] \in Decoder
    BY <2>1 DEF Decoder
  <2> QED
    BY <1>1, <2>2, <2>3 DEF SizeLine, v
<1>3. Data(d, b) \in Decoder
  BY <1>1 DEF Data, AfterData, Decoder
<1>4. AfterCr(d, b) \in Decoder
  BY <1>1 DEF AfterCr, Decoder
<1>5. Trailers(d, b) \in Decoder
  BY <1>1 DEF Trailers, Decoder
<1>6. d.at \in {"size", "data", "lf", "trailers"}
  BY DEF Decoder
<1> QED
  BY <1>2, <1>3, <1>4, <1>5, <1>6 DEF DecodeByte

\* Without the blanks in front it is still a sequence of bytes.
LEMMA SkipTyped == \A s \in Seq(HeadByte) : SkipBlanks(s) \in Seq(HeadByte)
<1> SUFFICES ASSUME NEW s \in Seq(HeadByte) PROVE SkipBlanks(s) \in Seq(HeadByte)
  OBVIOUS
<1> DEFINE I == {i \in 1..Len(s) : s[i] # "SP"}
           n == SelectInSeq(s, LAMBDA b : b # "SP")
<1>1. n = IF I # {} THEN Min(I) ELSE 0
  BY DEF SelectInSeq
<1>2. I # {} => Min(I) \in I
  <2>1. \A i \in I : i \in 1..Len(s)
    OBVIOUS
  <2>2. I \subseteq Nat
    <3> HIDE DEF I
    <3> QED BY <2>1, LenProperties
  <2> HIDE DEF I
  <2> QED BY <2>2, Hex!LeastElement DEF Min
<1>3. SkipBlanks(s) = IF n = 0 THEN <<>> ELSE SubSeq(s, n, Len(s))
  BY DEF SkipBlanks
<1>4. n = 0 \/ n \in 1..Len(s)
  <2>1. I \subseteq 1..Len(s)
    OBVIOUS
  <2> HIDE DEF I, n
  <2> QED
    BY <1>1, <1>2, <2>1
<1> HIDE DEF n
<1> QED
  BY <1>3, <1>4

\* A line gives a length or none.
LEMMA LengthTyped == \A l \in Seq(HeadByte) : ContentLength(l) \in Nat \cup {NoLen}
<1> SUFFICES ASSUME NEW l \in Seq(HeadByte), l # <<>>
             PROVE  ContentLength(l) \in Nat \cup {NoLen}
  BY DEF ContentLength, HasName
<1> DEFINE s  == SkipBlanks(Tail(l))
           ds == LeadingDigits(FirstOf(s, NumberCap - 1))
           n  == FoldLeft(ShiftInDec, [v |-> 0, over |-> FALSE], ds)
<1>1. s \in Seq(HeadByte)
  BY SkipTyped, HeadTailProperties
<1>2. NumberCap - 1 \in Nat
  <2>1. NumberCap \in Nat \ {0}
    BY HeadAssumption
  <2> QED BY <2>1
<1> HIDE DEF s
<1>3. FirstOf(s, NumberCap - 1) \in Seq(HeadByte)
  BY <1>1, <1>2 DEF FirstOf
<1>4. ds \in Seq(Digit)
  BY <1>3, LeadingFacts
<1> HIDE DEF ds
<1>5. n.v \in Nat
  BY <1>4, LengthOfDigits, DigitFacts
<1>6. ContentLength(l) = IF HasName(l, "Content-Length:") /\ ds # <<>> /\ ~n.over
                         THEN n.v ELSE NoLen
  BY DEF ContentLength, ds, s
<1> HIDE DEF n
<1> QED
  BY <1>5, <1>6

\* What a line changes of the receiver.
LEMMA TakeLineIs ==
  ASSUME NEW r \in Receiver
  PROVE  /\ TakeLine(r) \in Receiver
         /\ ~r.status => TakeLine(r) = [r EXCEPT !.status = TRUE]
         /\ r.status => \E e \in BOOLEAN :
              TakeLine(r) = [r EXCEPT
                !.len = IF r.len = NoLen THEN ContentLength(r.line) ELSE r.len,
                !.chunked = (r.chunked \/ Field(r.line, "Transfer-Encoding:", "chunked")),
                !.close = e]
<1>1. CASE ~r.status
  BY <1>1 DEF TakeLine, Receiver
<1>2. CASE r.status
  <2> DEFINE n == IF r.len = NoLen THEN ContentLength(r.line) ELSE r.len
             c == r.chunked \/ Field(r.line, "Transfer-Encoding:", "chunked")
             e == r.close \/ (r.kind = "keep" /\ Field(r.line, "Connection:", "close"))
  <2>1. TakeLine(r) = [r EXCEPT !.len = n, !.chunked = c, !.close = e]
    BY <1>2 DEF TakeLine
  <2>2. n \in Int
    BY LengthTyped DEF Receiver, NoLen
  <2>3. c \in BOOLEAN /\ e \in BOOLEAN
    OBVIOUS
  <2>4. \E e0 \in BOOLEAN : TakeLine(r) = [r EXCEPT !.len = n, !.chunked = c, !.close = e0]
    <3> HIDE DEF n, c, e
    <3> QED BY <2>1, <2>3
  <2>5. TakeLine(r) \in Receiver
    <3> HIDE DEF n, c, e
    <3> QED BY <2>1, <2>2, <2>3 DEF Receiver
  <2> QED
    BY <1>2, <2>4, <2>5
<1> QED
  BY <1>1, <1>2

\* A byte of the head leaves the receiver in its type, and its decoder alone.
LEMMA TakeHeadTyped ==
  ASSUME NEW r \in Receiver, NEW b \in HeadByte
  PROVE  /\ TakeHead(r, b) \in Receiver
         /\ TakeHead(r, b).kind = r.kind /\ TakeHead(r, b).cap = r.cap
         /\ TakeHead(r, b).dec = r.dec /\ TakeHead(r, b).total = r.total
<1> DEFINE buf  == Append(r.buf, b)
           l    == IF Len(r.line) + 1 < HeadLineCap THEN Append(r.line, b) ELSE r.line
           read == [r EXCEPT !.buf = buf, !.line = l]
           next == IF b = "LF" THEN [TakeLine(read) EXCEPT !.line = <<>>] ELSE read
<1>1. buf \in Seq(HeadByte) /\ l \in Seq(HeadByte) /\ <<>> \in Seq(HeadByte)
  BY DEF Receiver
<1>2. TakeHead(r, b) = CASE Len(r.buf) >= HeadCap -> [r EXCEPT !.result = "bad"]
          [] Len(r.buf) < HeadCap /\ EndOfHead(buf) -> [next EXCEPT !.ended = TRUE, !.buf = <<>>]
          [] OTHER -> next
  BY DEF TakeHead
<1> HIDE DEF buf, l
<1>3. read \in Receiver /\ read.kind = r.kind /\ read.cap = r.cap /\ read.dec = r.dec
      /\ read.total = r.total
  BY <1>1 DEF Receiver
<1> HIDE DEF read
<1>4. /\ TakeLine(read) \in Receiver
      /\ TakeLine(read).kind = read.kind /\ TakeLine(read).cap = read.cap
      /\ TakeLine(read).dec = read.dec /\ TakeLine(read).total = read.total
  <2>1. TakeLine(read) \in Receiver
    BY <1>3, TakeLineIs
  <2>2. CASE ~read.status
    <3>1. TakeLine(read) = [read EXCEPT !.status = TRUE]
      BY <1>3, <2>2, TakeLineIs
    <3> QED BY <1>3, <2>1, <3>1 DEF Receiver
  <2>3. CASE read.status
    <3> DEFINE n == IF read.len = NoLen THEN ContentLength(read.line) ELSE read.len
               c == read.chunked \/ Field(read.line, "Transfer-Encoding:", "chunked")
    <3>1. \E e \in BOOLEAN :
              TakeLine(read) = [read EXCEPT !.len = n, !.chunked = c, !.close = e]
      BY <1>3, <2>3, TakeLineIs
    <3> HIDE DEF n, c
    <3> QED BY <1>3, <2>1, <3>1 DEF Receiver
  <2> QED BY <2>2, <2>3
<1>5. next \in Receiver /\ next.kind = r.kind /\ next.cap = r.cap /\ next.dec = r.dec
      /\ next.total = r.total
  BY <1>1, <1>3, <1>4 DEF Receiver
<1> HIDE DEF next
<1>6. [next EXCEPT !.ended = TRUE, !.buf = <<>>] \in Receiver
  BY <1>1, <1>5 DEF Receiver
<1>7. [r EXCEPT !.result = "bad"] \in Receiver
  BY DEF Receiver
<1> QED
  BY <1>2, <1>5, <1>6, <1>7 DEF Receiver

\* What Take makes of a state is one, of the same kind of receiver.
LEMMA TakeTyped ==
  ASSUME NEW t \in State, NEW b \in HeadByte
  PROVE  /\ Take(t, b) \in State
         /\ Take(t, b).rx.kind = t.rx.kind /\ Take(t, b).rx.cap = t.rx.cap
<1>1. t.rx \in Receiver /\ t.body \in Seq(HeadByte) /\ t.rx.dec \in Decoder
  BY DEF State, Receiver
<1> DEFINE Same(r) == r \in Receiver /\ r.kind = t.rx.kind /\ r.cap = t.rx.cap
<1>2. Same(t.rx)
  BY <1>1
<1>s. ASSUME NEW r, Same(r), NEW y \in Seq(HeadByte), Take(t, b) = [rx |-> r, body |-> y]
      PROVE  Take(t, b) \in State /\ Same(Take(t, b).rx)
  <2>1. Take(t, b).rx = r
    BY <1>s
  <2>2. r \in Receiver
    BY <1>s
  <2>3. Take(t, b) \in State
    BY <1>s, <2>2 DEF State
  <2> QED
    BY <1>s, <2>1, <2>3
<1>3. CASE Stopped(t)
  BY <1>3 DEF Take
<1>4. CASE ~Stopped(t) /\ ~t.rx.ended
  <2>1. Take(t, b) = [rx |-> TakeHead(t.rx, b), body |-> t.body]
    BY <1>4 DEF Take
  <2>2. Same(TakeHead(t.rx, b))
    BY <1>1, TakeHeadTyped
  <2> QED BY <1>1, <1>s, <2>1, <2>2
<1>5. CASE ~Stopped(t) /\ t.rx.ended /\ Decodes(t.rx) /\ ~t.rx.dec.done
  <2> DEFINE d == DecodeByte(t.rx.dec, b)
             y == Stored(t.rx.dec, b, t.body, t.rx.cap)
             r == [t.rx EXCEPT !.dec = d, !.result = IF d.bad THEN "bad" ELSE @]
  <2>1. Take(t, b) = [rx |-> r, body |-> y]
    BY <1>5 DEF Take
  <2>2. d \in Decoder
    BY <1>1, DecodeTyped
  <2>3. y \in Seq(HeadByte)
    BY <1>1 DEF Stored
  <2> HIDE DEF d, y
  <2>4. Same(r)
    BY <1>1, <2>2 DEF Receiver
  <2> HIDE DEF r
  <2> QED BY <1>s, <2>1, <2>3, <2>4
<1>6. CASE ~Stopped(t) /\ t.rx.ended /\ ~(Decodes(t.rx) /\ ~t.rx.dec.done)
  <2>1. \A room : Store(t.body, b, room) \in Seq(HeadByte)
    BY <1>1 DEF Store
  <2> DEFINE n == t.rx.total + 1
             r == [t.rx EXCEPT !.total = n]
  <2>0. n \in Nat
    BY <1>1 DEF Receiver
  <2>r. [t.rx EXCEPT !.total = @ + 1] = r
    OBVIOUS
  <2>2. Same(r)
    <3> HIDE DEF n
    <3> QED BY <1>1, <2>0 DEF Receiver
  <2>3. \/ Take(t, b) = [rx |-> r, body |-> Store(t.body, b, t.rx.cap)]
        \/ Take(t, b) = [rx |-> t.rx, body |-> Store(t.body, b, Want(t.rx))]
        \/ Take(t, b) = t
    BY <1>6, <2>r DEF Take
  <2> HIDE DEF r
  <2>4. CASE Take(t, b) = [rx |-> r, body |-> Store(t.body, b, t.rx.cap)]
    BY <1>s, <2>1, <2>2, <2>4
  <2>5. CASE Take(t, b) = [rx |-> t.rx, body |-> Store(t.body, b, Want(t.rx))]
    BY <1>2, <1>s, <2>1, <2>5
  <2>6. CASE Take(t, b) = t
    BY <1>2, <2>6
  <2> QED BY <2>3, <2>4, <2>5, <2>6
<1> QED
  BY <1>3, <1>4, <1>5, <1>6

-----------------------------------------------------------------------------
(***************************************************************************)
(* Sequences and their parts.                                              *)
(***************************************************************************)
\* What a concatenation is, element by element.
LEMMA CatFacts ==
  ASSUME NEW S, NEW v \in Seq(S), NEW w \in Seq(S)
  PROVE  /\ v \o w \in Seq(S) /\ Len(v \o w) = Len(v) + Len(w)
         /\ Len(v) \in Nat /\ Len(w) \in Nat
         /\ \A i \in 1..Len(v) : (v \o w)[i] = v[i]
         /\ \A i \in 1..Len(w) : (v \o w)[Len(v) + i] = w[i]
<1>1. Len(v) \in Nat /\ Len(w) \in Nat
  BY LenProperties
<1>2. v \o w \in Seq(S) /\ Len(v \o w) = Len(v) + Len(w)
  BY ConcatProperties
<1>3. \A i \in 1..Len(v) + Len(w) : (v \o w)[i] = IF i <= Len(v) THEN v[i] ELSE w[i - Len(v)]
  BY ConcatProperties
<1>4. ASSUME NEW i \in 1..Len(v) PROVE (v \o w)[i] = v[i]
  BY <1>1, <1>3
<1>5. ASSUME NEW i \in 1..Len(w) PROVE (v \o w)[Len(v) + i] = w[i]
  <2>1. Len(v) + i \in 1..Len(v) + Len(w) /\ ~(Len(v) + i <= Len(v)) /\ (Len(v) + i) - Len(v) = i
    BY <1>1
  <2> QED BY <1>3, <2>1
<1> QED
  BY <1>1, <1>2, <1>4, <1>5

\* What After is, element by element.
LEMMA AfterFacts ==
  ASSUME NEW S, NEW w \in Seq(S), NEW n \in 0..Len(w)
  PROVE  /\ After(w, n) \in Seq(S) /\ Len(After(w, n)) = Len(w) - n
         /\ Len(w) \in Nat /\ Len(w) - n \in Nat
         /\ \A i \in 1..(Len(w) - n) : After(w, n)[i] = w[n + i]
<1>1. Len(w) \in Nat /\ n \in Nat /\ Len(w) - n \in Nat
  BY LenProperties
<1>2. \A i \in (n + 1)..Len(w) : w[i] \in S
  BY <1>1, ElementOfSeq
<1>3. /\ SubSeq(w, n + 1, Len(w)) \in Seq(S)
      /\ Len(SubSeq(w, n + 1, Len(w))) = IF n + 1 <= Len(w) THEN Len(w) - (n + 1) + 1 ELSE 0
      /\ \A i \in 1..(Len(w) - (n + 1) + 1) : SubSeq(w, n + 1, Len(w))[i] = w[(n + 1) + i - 1]
  BY <1>1, <1>2, SubSeqProperties
<1>4. Len(After(w, n)) = Len(w) - n
  BY <1>1, <1>3 DEF After
<1>5. ASSUME NEW i \in 1..(Len(w) - n) PROVE After(w, n)[i] = w[n + i]
  BY <1>1, <1>3 DEF After
<1> QED
  BY <1>1, <1>3, <1>4, <1>5 DEF After

\* A sequence with the elements of v and then of w is their concatenation.
LEMMA CatIs ==
  ASSUME NEW S, NEW u \in Seq(S), NEW v \in Seq(S), NEW w \in Seq(S),
         Len(u) = Len(v) + Len(w),
         \A i \in 1..Len(v) : u[i] = v[i],
         \A i \in 1..Len(w) : u[Len(v) + i] = w[i]
  PROVE  u = v \o w
<1>1. /\ v \o w \in Seq(S) /\ Len(v \o w) = Len(v) + Len(w)
      /\ Len(v) \in Nat /\ Len(w) \in Nat
      /\ \A i \in 1..Len(v) : (v \o w)[i] = v[i]
      /\ \A i \in 1..Len(w) : (v \o w)[Len(v) + i] = w[i]
  BY CatFacts
<1>2. ASSUME NEW i \in 1..Len(u) PROVE u[i] = (v \o w)[i]
  <2>1. CASE i <= Len(v)
    <3>1. i \in 1..Len(v)
      BY <1>1, <2>1
    <3> QED BY <1>1, <3>1
  <2>2. CASE ~(i <= Len(v))
    <3>1. PICK j \in 1..Len(w) : i = Len(v) + j
      <4>1. i - Len(v) \in 1..Len(w) /\ i = Len(v) + (i - Len(v))
        BY <1>1, <2>2
      <4> QED BY <4>1
    <3> QED BY <1>1, <3>1
  <2> QED BY <1>1, <2>1, <2>2
<1> QED
  BY <1>1, <1>2, SeqEqual

\* A sequence with the last elements of w is what is left of w.
LEMMA AfterIs ==
  ASSUME NEW S, NEW w \in Seq(S), NEW n \in 0..Len(w), NEW x \in Seq(S),
         Len(x) = Len(w) - n, \A i \in 1..(Len(w) - n) : x[i] = w[n + i]
  PROVE  After(w, n) = x
<1>1. /\ After(w, n) \in Seq(S) /\ Len(After(w, n)) = Len(w) - n
      /\ \A i \in 1..(Len(w) - n) : After(w, n)[i] = w[n + i]
  BY AfterFacts
<1> QED
  BY <1>1, SeqEqual

\* What is left of a sequence made longer.
LEMMA AfterCat ==
  ASSUME NEW S, NEW v \in Seq(S), NEW w \in Seq(S)
  PROVE  /\ \A n \in 0..Len(v) : After(v \o w, n) = After(v, n) \o w
         /\ \A n \in 0..Len(w) : After(v \o w, Len(v) + n) = After(w, n)
<1>0. /\ v \o w \in Seq(S) /\ Len(v \o w) = Len(v) + Len(w)
      /\ Len(v) \in Nat /\ Len(w) \in Nat
      /\ \A i \in 1..Len(v) : (v \o w)[i] = v[i]
      /\ \A i \in 1..Len(w) : (v \o w)[Len(v) + i] = w[i]
  BY CatFacts
<1>u. PICK u \in Seq(S) : u = v \o w
  BY <1>0
<1>1.   /\ u = v \o w /\ Len(u) = Len(v) + Len(w) /\ Len(v) \in Nat /\ Len(w) \in Nat
        /\ \A i \in 1..Len(v) : u[i] = v[i]
        /\ \A i \in 1..Len(w) : u[Len(v) + i] = w[i]
  BY <1>0, <1>u
<1>2. ASSUME NEW n \in 0..Len(v) PROVE After(u, n) = After(v, n) \o w
  <2>1. n \in 0..Len(u)
    BY <1>1
  <2>2. PICK y \in Seq(S) : /\ y = After(u, n) /\ Len(y) = Len(u) - n
                            /\ \A i \in 1..(Len(u) - n) : y[i] = u[n + i]
    BY <2>1, AfterFacts
  <2>3. PICK x \in Seq(S) : /\ x = After(v, n) /\ Len(x) = Len(v) - n
                            /\ \A i \in 1..(Len(v) - n) : x[i] = v[n + i]
    BY AfterFacts
  <2>4. Len(y) = Len(x) + Len(w)
    BY <1>1, <2>2, <2>3
  <2>5. ASSUME NEW i \in 1..Len(x) PROVE y[i] = x[i]
    <3>1. i \in 1..(Len(u) - n) /\ n + i \in 1..Len(v) /\ i \in 1..(Len(v) - n)
      BY <1>1, <2>3
    <3>2. y[i] = u[n + i] /\ u[n + i] = v[n + i] /\ x[i] = v[n + i]
      BY <1>1, <2>2, <2>3, <3>1
    <3> QED BY <3>2
  <2>6. ASSUME NEW i \in 1..Len(w) PROVE y[Len(x) + i] = w[i]
    <3>k. PICK k : k = Len(x) + i
      OBVIOUS
    <3>1. k \in 1..(Len(u) - n) /\ k = Len(x) + i /\ n + k = Len(v) + i
      BY <1>1, <2>3, <3>k
    <3>2. y[k] = u[Len(v) + i] /\ u[Len(v) + i] = w[i]
      BY <1>1, <2>2, <3>1
    <3> QED BY <3>1, <3>2
  <2>7. y = x \o w
    BY <2>4, <2>5, <2>6, CatIs
  <2> QED
    BY <2>2, <2>3, <2>7
<1>3. ASSUME NEW n \in 0..Len(w) PROVE After(u, Len(v) + n) = After(w, n)
  <2>m. PICK m : m = Len(v) + n
    OBVIOUS
  <2>1. m \in 0..Len(u) /\ m = Len(v) + n /\ Len(u) - m = Len(w) - n
    BY <1>1, <2>m
  <2>2. PICK x \in Seq(S) : /\ x = After(w, n) /\ Len(x) = Len(w) - n
                            /\ \A i \in 1..(Len(w) - n) : x[i] = w[n + i]
    BY AfterFacts
  <2>3. ASSUME NEW i \in 1..(Len(u) - m) PROVE x[i] = u[m + i]
    <3>1. n + i \in 1..Len(w) /\ m + i = Len(v) + (n + i) /\ i \in 1..(Len(w) - n)
      BY <1>1, <2>1
    <3> QED BY <1>1, <2>2, <3>1
  <2>4. After(u, m) = x
    <3>1. Len(x) = Len(u) - m
      BY <2>1, <2>2
    <3> QED BY <2>1, <2>3, <3>1, AfterIs
  <2> QED
    BY <2>1, <2>2, <2>4
<1> QED
  BY <1>1, <1>2, <1>3

\* What is left of what is left.
LEMMA AfterAfter ==
  ASSUME NEW S, NEW w \in Seq(S), NEW m \in 0..Len(w), NEW n \in 0..(Len(w) - m)
  PROVE  After(After(w, m), n) = After(w, m + n)
<1>x. PICK x : x = After(w, m)
  OBVIOUS
<1>1. /\ x \in Seq(S) /\ Len(x) = Len(w) - m /\ Len(w) \in Nat
      /\ \A i \in 1..(Len(w) - m) : x[i] = w[m + i]
  BY <1>x, AfterFacts
<1>2. n \in 0..Len(x)
  BY <1>1
<1>y. PICK y : y = After(x, n)
  OBVIOUS
<1>3. /\ y \in Seq(S) /\ y = After(x, n) /\ Len(y) = Len(x) - n
      /\ \A i \in 1..(Len(x) - n) : y[i] = x[n + i]
  BY <1>1, <1>2, <1>y, AfterFacts
<1>k. PICK k : k = m + n
  OBVIOUS
<1>4. k \in 0..Len(w) /\ k = m + n /\ Len(w) - k = Len(x) - n
  BY <1>1, <1>k
<1>5. ASSUME NEW i \in 1..(Len(w) - k) PROVE y[i] = w[k + i]
  <2>1. n + i \in 1..(Len(w) - m) /\ m + (n + i) = k + i /\ i \in 1..(Len(x) - n)
    BY <1>1, <1>4
  <2> QED BY <1>1, <1>3, <2>1
<1>6. After(w, k) = y
  <2>1. Len(y) = Len(w) - k
    BY <1>3, <1>4
  <2> QED BY <1>3, <1>4, <1>5, <2>1, AfterIs
<1> QED
  BY <1>x, <1>3, <1>4, <1>6

\* After nothing all is left, and after all nothing.
LEMMA AfterEnds ==
  ASSUME NEW S, NEW w \in Seq(S)
  PROVE  After(w, 0) = w /\ After(w, Len(w)) = <<>>
<1>1. Len(w) \in Nat /\ 0 \in 0..Len(w) /\ Len(w) \in 0..Len(w)
  BY LenProperties
<1>2. After(w, Len(w)) \in Seq(S) /\ Len(After(w, Len(w))) = 0
  BY <1>1, AfterFacts
<1>3. After(w, Len(w)) = <<>>
  BY <1>2, EmptySeq
<1>4. After(w, 0) = w
  BY <1>1, SubSeqFull DEF After
<1> QED BY <1>3, <1>4

-----------------------------------------------------------------------------
(***************************************************************************)
(* Counting.                                                               *)
(***************************************************************************)
Places(w, part) == {k \in DOMAIN w : w[k].part = part}

\* Counts are numbers.
LEMMA CountType ==
  ASSUME NEW S, NEW w \in Seq(S), NEW part
  PROVE  /\ Count(w, part) = Cardinality(Places(w, part))
         /\ IsFiniteSet(Places(w, part)) /\ Count(w, part) \in Nat
<1>1. Count(w, part) = Cardinality(Places(w, part))
  BY DEF Count, Places
<1>2. DOMAIN w = 1..Len(w) /\ Len(w) \in Nat
  BY LenProperties
<1>3. IsFiniteSet(1..Len(w))
  BY <1>2, FS_Interval
<1>4. Places(w, part) \in SUBSET (1..Len(w))
  BY <1>2 DEF Places
<1>5. IsFiniteSet(Places(w, part))
  BY <1>3, <1>4, FS_Subset
<1> QED
  BY <1>1, <1>5, FS_CardinalityType

\* The first n elements, and no other, belong to the part.
LEMMA CountIs ==
  ASSUME NEW S, NEW w \in Seq(S), NEW part, NEW n \in 0..Len(w),
         \A k \in 1..Len(w) : w[k].part = part <=> k <= n
  PROVE  Count(w, part) = n
<1>1. DOMAIN w = 1..Len(w) /\ Len(w) \in Nat /\ n \in Nat
  BY LenProperties
<1>2. Places(w, part) = 1..n
  BY <1>1 DEF Places
<1>3. Cardinality(1..n) = IF 1 > n THEN 0 ELSE n - 1 + 1
  BY <1>1, FS_Interval
<1>4. Cardinality(1..n) = n
  BY <1>1, <1>3
<1> QED
  BY <1>2, <1>4, CountType

\* The bytes of a part in a concatenation are those of both halves.
LEMMA CountCat ==
  ASSUME NEW S, NEW v \in Seq(S), NEW w \in Seq(S), NEW part
  PROVE  Count(v \o w, part) = Count(v, part) + Count(w, part)
<1>0. /\ v \o w \in Seq(S) /\ Len(v \o w) = Len(v) + Len(w)
      /\ Len(v) \in Nat /\ Len(w) \in Nat
      /\ \A i \in 1..Len(v) : (v \o w)[i] = v[i]
      /\ \A i \in 1..Len(w) : (v \o w)[Len(v) + i] = w[i]
  BY CatFacts
<1>u. PICK u : u = v \o w
  OBVIOUS
<1>1. /\ u \in Seq(S) /\ Len(u) = Len(v) + Len(w)
      /\ \A i \in 1..Len(v) : u[i] = v[i]
      /\ \A i \in 1..Len(w) : u[Len(v) + i] = w[i]
      /\ DOMAIN u = 1..Len(u) /\ DOMAIN v = 1..Len(v) /\ DOMAIN w = 1..Len(w)
  BY <1>0, <1>u, LenProperties
<1> DEFINE A == Places(v, part)
           C == Places(w, part)
           D == {k \in Places(u, part) : k > Len(v)}
<1>2. A \subseteq 1..Len(v) /\ C \subseteq 1..Len(w)
  BY <1>1 DEF Places
<1>3. Places(u, part) = A \cup D
  <2>1. ASSUME NEW k \in Places(u, part), ~(k > Len(v)) PROVE k \in A
    <3>1. k \in 1..Len(v) /\ u[k].part = part
      BY <1>0, <1>1, <2>1 DEF Places
    <3> QED BY <1>1, <3>1 DEF Places
  <2>2. ASSUME NEW k \in A PROVE k \in Places(u, part)
    <3>1. k \in 1..Len(v) /\ v[k].part = part /\ k \in 1..Len(u)
      BY <1>0, <1>1 DEF Places
    <3> QED BY <1>1, <3>1 DEF Places
  <2> QED BY <2>1, <2>2
<1>4. A \cap D = {}
  BY <1>0, <1>2
<1> DEFINE F == [k \in C |-> Len(v) + k]
<1>5. \A k \in C : F[k] \in D
  <2> SUFFICES ASSUME NEW k \in C PROVE Len(v) + k \in D
    OBVIOUS
  <2>1. k \in 1..Len(w) /\ w[k].part = part
    BY <1>1 DEF Places
  <2>2. Len(v) + k \in 1..Len(u) /\ Len(v) + k > Len(v)
    BY <1>0, <1>1, <2>1
  <2> QED BY <1>1, <2>1, <2>2 DEF Places
<1>6. \A j \in D : \E k \in C : F[k] = j
  <2> SUFFICES ASSUME NEW j \in D PROVE \E k \in C : F[k] = j
    OBVIOUS
  <2>1. j \in 1..Len(u) /\ u[j].part = part /\ j > Len(v)
    BY <1>1 DEF Places
  <2>k. PICK k : k = j - Len(v)
    OBVIOUS
  <2>2. k \in 1..Len(w) /\ j = Len(v) + k
    BY <1>0, <1>1, <2>1, <2>k
  <2>3. k \in C
    BY <1>1, <2>1, <2>2 DEF Places
  <2> QED BY <2>2, <2>3
<1>7. \A k, j \in C : F[k] = F[j] => k = j
  <2> SUFFICES ASSUME NEW k \in C, NEW j \in C, F[k] = F[j] PROVE k = j
    OBVIOUS
  <2>1. k \in Nat /\ j \in Nat /\ Len(v) + k = Len(v) + j
    BY <1>2
  <2> QED BY <1>0, <2>1
<1>8. ExistsBijection(C, D)
  <2> HIDE DEF D, C
  <2>1. F \in [C -> D]
    BY <1>5
  <2> QED
    BY <1>6, <1>7, <2>1 DEF ExistsBijection, Bijection, Injection, Surjection, IsInjective
<1>9. /\ IsFiniteSet(A) /\ IsFiniteSet(C)
      /\ Cardinality(A) = Count(v, part) /\ Cardinality(C) = Count(w, part)
      /\ Count(u, part) = Cardinality(Places(u, part))
      /\ Cardinality(A) \in Nat /\ Cardinality(C) \in Nat
  BY <1>1, CountType
<1> HIDE DEF A, C, D
<1>10. IsFiniteSet(D) /\ Cardinality(D) = Cardinality(C)
  BY <1>8, <1>9, FS_Bijection
<1>11. Cardinality(A \cup D) = Cardinality(A) + Cardinality(D) - Cardinality({})
  BY <1>4, <1>9, <1>10, FS_Union
<1>12. Cardinality({}) = 0
  BY FS_EmptySet
<1>13. Cardinality(A \cup D) = Cardinality(A) + Cardinality(C)
  BY <1>9, <1>10, <1>11, <1>12
<1> QED
  BY <1>3, <1>9, <1>13, <1>u

\* An element of another part does not count.
LEMMA CountSkip ==
  ASSUME NEW S, NEW w \in Seq(S), NEW part, NEW n \in 1..Len(w), w[n].part # part
  PROVE  Count(After(w, n - 1), part) = Count(After(w, n), part)
<1>1. Len(w) \in Nat /\ n - 1 \in 0..Len(w) /\ n \in 0..Len(w) /\ w[n] \in S
  BY LenProperties, ElementOfSeq
<1>m. PICK m : m = n - 1
  OBVIOUS
<1>x. PICK x : x = After(w, m)
  OBVIOUS
<1>y. PICK y : y = After(w, n)
  OBVIOUS
<1>2. x \in Seq(S) /\ Len(x) = Len(w) - m /\ \A i \in 1..(Len(w) - m) : x[i] = w[m + i]
  BY <1>1, <1>m, <1>x, AfterFacts
<1>3. y \in Seq(S) /\ Len(y) = Len(w) - n /\ \A i \in 1..(Len(w) - n) : y[i] = w[n + i]
  BY <1>1, <1>y, AfterFacts
<1>h. PICK h : h = <<w[n]>>
  OBVIOUS
<1>4. h \in Seq(S) /\ Len(h) = 1 /\ h[1] = w[n]
  BY <1>1, <1>h
<1>5. x = h \o y
  <2>1. Len(x) = Len(h) + Len(y)
    BY <1>1, <1>2, <1>3, <1>4, <1>m
  <2>2. \A i \in 1..Len(h) : x[i] = h[i]
    <3>1. 1 \in 1..(Len(w) - m) /\ m + 1 = n
      BY <1>1, <1>m
    <3> QED BY <1>2, <1>4, <3>1
  <2>3. ASSUME NEW i \in 1..Len(y) PROVE x[Len(h) + i] = y[i]
    <3>1. i \in 1..(Len(w) - n) /\ 1 + i \in 1..(Len(w) - m) /\ m + (1 + i) = n + i
      BY <1>1, <1>3, <1>m
    <3>2. x[1 + i] = w[n + i]
      BY <1>2, <3>1
    <3> QED BY <1>3, <1>4, <3>1, <3>2
  <2> QED BY <1>2, <1>3, <1>4, <2>1, <2>2, <2>3, CatIs
<1>6. Count(h, part) = 0
  BY <1>4, CountIs
<1>7. Count(x, part) = Count(h, part) + Count(y, part) /\ Count(y, part) \in Nat
  BY <1>3, <1>4, <1>5, CountCat, CountType
<1> QED
  BY <1>6, <1>7, <1>m, <1>x, <1>y

-----------------------------------------------------------------------------
(***************************************************************************)
(* Paths.                                                                  *)
(***************************************************************************)
\* What is appended changes nothing of what was there.
LEMMA PrefixCat ==
  ASSUME NEW S, NEW v \in Seq(S), NEW w \in Seq(S), NEW n \in 0..Len(v)
  PROVE  SubSeq(v \o w, 1, n) = SubSeq(v, 1, n)
<1>0. /\ v \o w \in Seq(S) /\ Len(v \o w) = Len(v) + Len(w)
      /\ Len(v) \in Nat /\ Len(w) \in Nat
      /\ \A i \in 1..Len(v) : (v \o w)[i] = v[i]
  BY CatFacts
<1>u. PICK u : u = v \o w
  OBVIOUS
<1>1. n \in Nat /\ \A i \in 1..n : u[i] = v[i] /\ v[i] \in S
  BY <1>0, <1>u, ElementOfSeq
<1>2. /\ SubSeq(u, 1, n) \in Seq(S)
      /\ Len(SubSeq(u, 1, n)) = IF 1 <= n THEN n - 1 + 1 ELSE 0
      /\ \A i \in 1..(n - 1 + 1) : SubSeq(u, 1, n)[i] = u[1 + i - 1]
  BY <1>1, SubSeqProperties
<1>3. /\ SubSeq(v, 1, n) \in Seq(S)
      /\ Len(SubSeq(v, 1, n)) = IF 1 <= n THEN n - 1 + 1 ELSE 0
      /\ \A i \in 1..(n - 1 + 1) : SubSeq(v, 1, n)[i] = v[1 + i - 1]
  BY <1>1, SubSeqProperties
<1>4. \A i \in 1..Len(SubSeq(u, 1, n)) : SubSeq(u, 1, n)[i] = SubSeq(v, 1, n)[i]
  <2> SUFFICES ASSUME NEW i \in 1..Len(SubSeq(u, 1, n))
               PROVE  SubSeq(u, 1, n)[i] = SubSeq(v, 1, n)[i]
    OBVIOUS
  <2>1. i \in 1..n /\ i \in 1..(n - 1 + 1) /\ 1 + i - 1 = i
    BY <1>1, <1>2
  <2> QED BY <1>1, <1>2, <1>3, <2>1
<1> QED
  BY <1>2, <1>3, <1>4, <1>u, SeqEqual

\* The states of a path are receivers of one kind.
LEMMA PathTyped ==
  ASSUME NEW t \in State, NEW w \in Seq(Item), NEW f, Path(f, t, w)
  PROVE  \A n \in 0..Len(w) : /\ f[n] \in State
                              /\ f[n].rx.kind = t.rx.kind /\ f[n].rx.cap = t.rx.cap
<1> DEFINE P(n) == /\ f[n] \in State
                   /\ f[n].rx.kind = t.rx.kind /\ f[n].rx.cap = t.rx.cap
           S == {n \in Nat : n <= Len(w) => P(n)}
<1>1. Len(w) \in Nat
  BY LenProperties
<1>2. 0 \in S
  BY DEF Path
<1>3. ASSUME NEW n \in Nat, n \in S PROVE n + 1 \in S
  <2> SUFFICES ASSUME n + 1 <= Len(w) PROVE P(n + 1)
    OBVIOUS
  <2>1. n + 1 \in 1..Len(w) /\ (n + 1) - 1 = n /\ P(n)
    BY <1>1, <1>3
  <2>2. f[n + 1] = Take(f[n], w[n + 1].b)
    BY <2>1 DEF Path
  <2>3. w[n + 1].b \in HeadByte
    <3>1. w[n + 1] \in Item
      BY <2>1, ElementOfSeq
    <3> QED BY <3>1 DEF Item
  <2> QED
    BY <2>1, <2>2, <2>3, TakeTyped
<1>4. \A n \in Nat : n \in S
  <2> HIDE DEF S
  <2> QED BY <1>2, <1>3, Hex!NatSetInduction
<1> QED
  BY <1>1, <1>4

\* What the server may do to its state when it sends v, beside what it says of itself.
Kept(s, z, v, s2, z2) ==
    /\ \E e \in Seq(HeadByte) : z2 = z \o e /\ Len(e) = Count(v, "data")
    /\ s.unfit => s2.unfit
    /\ Ended(s) <=> Ended(s2) /\ OnlyNext(v)
    /\ InHead(s2) => InHead(s)
    /\ InHead(s) \/ (s2.framing = s.framing /\ s2.len = s.len)

\* What has been got is the same when more has been sent.
LEMMA GotKept ==
  ASSUME NEW w \in Seq(Item), NEW v \in Seq(Item), NEW z \in Seq(HeadByte),
         NEW s, NEW s2, NEW z2, Kept(s, z, v, s2, z2), Got(w, z) \in 0..Len(z)
  PROVE  /\ Got(w \o v, z2) = Got(w, z) /\ Got(w, z) \in 0..Len(z2)
         /\ \A n \in 0..Len(z) : SubSeq(z2, 1, n) = SubSeq(z, 1, n)
<1>1. PICK e \in Seq(HeadByte) : z2 = z \o e /\ Len(e) = Count(v, "data")
  BY DEF Kept
<1>2. Len(z2) = Len(z) + Len(e) /\ Len(z) \in Nat /\ Len(e) \in Nat
  BY <1>1, CatFacts
<1>3. Count(w \o v, "data") = Count(w, "data") + Count(v, "data") /\ Count(w, "data") \in Nat
  BY CountCat, CountType
<1>4. \A n \in 0..Len(z) : SubSeq(z2, 1, n) = SubSeq(z, 1, n)
  BY <1>1, PrefixCat
<1>5. Got(w \o v, z2) = Got(w, z)
  BY <1>1, <1>2, <1>3 DEF Got
<1> QED
  BY <1>2, <1>4, <1>5

\* What was good before is good when more has been sent.
LEMMA GoodKept ==
  ASSUME NEW w \in Seq(Item), NEW v \in Seq(Item), NEW z \in Seq(HeadByte),
         NEW s, NEW s2, NEW z2, Kept(s, z, v, s2, z2),
         NEW t \in State, Good(t, w, s, z), w # <<>>
  PROVE  Good(t, w \o v, s2, z2)
<1>u. PICK u : u = w \o v
  OBVIOUS
<1>1. /\ u \in Seq(Item) /\ Len(u) = Len(w) + Len(v) /\ Len(w) \in Nat /\ Len(v) \in Nat
      /\ \A i \in 1..Len(w) : u[i] = w[i]
      /\ \A i \in 1..Len(v) : u[Len(w) + i] = v[i]
      /\ DOMAIN u = 1..Len(u) /\ DOMAIN w = 1..Len(w) /\ DOMAIN v = 1..Len(v)
  BY <1>u, CatFacts, LenProperties
<1>2. Len(w) > 0 /\ u # <<>> /\ u[1] = w[1]
  <2>1. Len(w) \in Nat \ {0}
    BY EmptySeq
  <2> QED BY <1>1, <2>1
<1>3. Got(w, z) \in 0..Len(z)
  BY DEF Good
<1>4. /\ Got(u, z2) = Got(w, z) /\ Got(u, z2) \in 0..Len(z2)
      /\ \A n \in 0..Len(z) : SubSeq(z2, 1, n) = SubSeq(z, 1, n)
  BY <1>3, <1>u, GotKept
<1>5. OnlyNext(u) <=> OnlyNext(w) /\ OnlyNext(v)
  <2>1. ASSUME OnlyNext(u) PROVE OnlyNext(w) /\ OnlyNext(v)
    <3>1. ASSUME NEW k \in DOMAIN w PROVE w[k].part = "next"
      BY <1>1, <2>1 DEF OnlyNext
    <3>2. ASSUME NEW k \in DOMAIN v PROVE v[k].part = "next"
      <4>1. Len(w) + k \in DOMAIN u
        BY <1>1
      <4> QED BY <1>1, <2>1, <4>1 DEF OnlyNext
    <3> QED BY <3>1, <3>2 DEF OnlyNext
  <2>2. ASSUME OnlyNext(w), OnlyNext(v), NEW k \in DOMAIN u PROVE u[k].part = "next"
    <3>1. CASE k <= Len(w)
      <4>1. k \in 1..Len(w)
        BY <1>1, <3>1
      <4> QED BY <1>1, <2>2, <4>1 DEF OnlyNext
    <3>2. CASE ~(k <= Len(w))
      <4>j. PICK j : j = k - Len(w)
        OBVIOUS
      <4>1. j \in 1..Len(v) /\ k = Len(w) + j
        <5>p. PICK a, b : a = Len(w) /\ b = Len(v)
          OBVIOUS
        <5>1. k \in 1..(a + b) /\ a \in Nat /\ b \in Nat
          BY <1>1, <5>p
        <5>2. ~(k <= a) /\ j = k - a
          BY <3>2, <4>j, <5>p
        <5>3. j \in 1..b /\ k = a + j
          BY <5>1, <5>2
        <5> QED BY <5>3, <5>p
      <4> QED BY <1>1, <2>2, <4>1 DEF OnlyNext
    <3> QED BY <3>1, <3>2
  <2> QED BY <2>1, <2>2 DEF OnlyNext
<1>6. CASE t.rx.result = "bad"
  BY <1>4, <1>6, <1>u DEF Good, Kept
<1>7. CASE t.rx.result # "bad" /\ ~t.rx.ended
  <2>1. /\ t.rx.result = "reading" /\ t.body = <<>> /\ Got(w, z) = 0
        /\ w[1].part = "head" /\ (t.rx.dec.done => Ended(s))
    BY <1>7 DEF Good
  <2>2. t.rx.dec.done => Ended(s2)
    BY <2>1 DEF Kept
  <2> QED BY <1>2, <1>4, <1>7, <1>u, <2>1, <2>2 DEF Good
<1>8. CASE t.rx.result # "bad" /\ t.rx.ended
  <2>1. /\ ~InHead(s) /\ t.rx.result = "reading" /\ (t.rx.dec.done => Ended(s))
        /\ t.rx.chunked <=> s.framing = "chunked"
        /\ t.rx.len = s.len
        /\ t.body = IF t.rx.kind = "keep" /\ s.framing = "none" THEN <<>>
                    ELSE SubSeq(z, 1, Least(Got(w, z), t.rx.cap))
        /\ t.rx.kind = "keep" /\ s.framing # "none" =>
                (Complete(t.rx) <=> Ended(s) /\ OnlyNext(w))
    BY <1>8 DEF Good
  <2>2. ~InHead(s2) /\ s2.framing = s.framing /\ s2.len = s.len /\ (t.rx.dec.done => Ended(s2))
    BY <2>1 DEF Kept
  <2>3. Ended(s) /\ OnlyNext(w) <=> Ended(s2) /\ OnlyNext(u)
    BY <1>5 DEF Kept
  <2>4. Least(Got(w, z), t.rx.cap) \in 0..Len(z)
    <3>1. t.rx.cap \in Nat /\ Len(z) \in Nat
      BY LenProperties DEF State, Receiver
    <3> QED BY <1>3, <3>1 DEF Least
  <2>5. SubSeq(z2, 1, Least(Got(u, z2), t.rx.cap)) = SubSeq(z, 1, Least(Got(w, z), t.rx.cap))
    BY <1>4, <2>4
  <2> HIDE DEF Good
  <2>6. Good(t, u, s2, z2)
    BY <1>4, <1>8, <2>1, <2>2, <2>3, <2>5 DEF Good
  <2> QED BY <1>u, <2>6
<1> QED
  BY <1>6, <1>7, <1>8

\* The path of what was on its way goes on with what is sent.
LEMMA PathGoesOn ==
  ASSUME NEW t \in State, NEW w \in Seq(Item), NEW v \in Seq(Item), NEW f, NEW g,
         NEW s, NEW z \in Seq(HeadByte), NEW s2, NEW z2,
         GoodPath(f, t, w, s, z), GoodPath(g, f[Len(w)], v, s2, z2), Kept(s, z, v, s2, z2)
  PROVE  \E h : GoodPath(h, t, w \o v, s2, z2)
<1>u. PICK u : u = w \o v
  OBVIOUS
<1>1. /\ u \in Seq(Item) /\ Len(u) = Len(w) + Len(v) /\ Len(w) \in Nat /\ Len(v) \in Nat
      /\ \A i \in 1..Len(w) : u[i] = w[i]
      /\ \A i \in 1..Len(v) : u[Len(w) + i] = v[i]
  BY <1>u, CatFacts
<1>h. PICK h : h = [n \in 0..Len(u) |-> IF n <= Len(w) THEN f[n] ELSE g[n - Len(w)]]
  OBVIOUS
<1>2. \A n \in 0..Len(w) : h[n] = f[n]
  BY <1>1, <1>h
<1>3. g[0] = f[Len(w)] /\ f[0] = t
  BY DEF GoodPath, Path
<1>4. ASSUME NEW n \in 0..Len(v) PROVE h[Len(w) + n] = g[n]
  <2>1. CASE n = 0
    BY <1>1, <1>2, <1>3, <2>1
  <2>2. CASE n # 0
    <3>1. Len(w) + n \in 0..Len(u) /\ ~(Len(w) + n <= Len(w)) /\ (Len(w) + n) - Len(w) = n
      BY <1>1, <2>2
    <3> QED BY <1>h, <3>1
  <2> QED BY <2>1, <2>2
<1>5. Path(h, t, u)
  <2>1. h[0] = t
    BY <1>1, <1>2, <1>3
  <2>2. ASSUME NEW n \in 1..Len(u) PROVE h[n] = Take(h[n - 1], u[n].b)
    <3>1. CASE n <= Len(w)
      <4>1. n \in 1..Len(w) /\ n - 1 \in 0..Len(w) /\ n \in 0..Len(w)
        BY <1>1, <3>1
      <4>2. f[n] = Take(f[n - 1], w[n].b)
        BY <4>1 DEF GoodPath, Path
      <4> QED BY <1>1, <1>2, <4>1, <4>2
    <3>2. CASE ~(n <= Len(w))
      <4>k. PICK k : k = n - Len(w)
        OBVIOUS
      <4>1. /\ k \in 1..Len(v) /\ k \in 0..Len(v) /\ k - 1 \in 0..Len(v)
            /\ n = Len(w) + k /\ n - 1 = Len(w) + (k - 1)
        BY <1>1, <3>2, <4>k
      <4>2. g[k] = Take(g[k - 1], v[k].b)
        BY <4>1 DEF GoodPath, Path
      <4>3. h[n] = g[k] /\ h[n - 1] = g[k - 1] /\ u[n] = v[k]
        BY <1>1, <1>4, <4>1
      <4> QED BY <4>2, <4>3
    <3> QED BY <3>1, <3>2
  <2> QED BY <2>1, <2>2 DEF Path
<1>6. ASSUME NEW n \in 0..Len(u) PROVE Good(h[n], After(u, n), s2, z2)
  <2>1. CASE n < Len(w)
    <3>1. n \in 0..Len(w) /\ Len(w) - n > 0
      BY <1>1, <2>1
    <3>x. PICK x : x = After(w, n)
      OBVIOUS
    <3>2. x \in Seq(Item) /\ Len(x) = Len(w) - n
      BY <3>1, <3>x, AfterFacts
    <3>3. x # <<>>
      <4> SUFFICES ASSUME x = <<>> PROVE FALSE
        OBVIOUS
      <4>1. Len(x) = 0
        OBVIOUS
      <4> QED BY <3>1, <3>2, <4>1
    <3>4. Good(f[n], x, s, z)
      BY <3>1, <3>x DEF GoodPath
    <3>5. f[n] \in State
      BY <3>1, PathTyped DEF GoodPath
    <3>6. Good(f[n], x \o v, s2, z2)
      BY <3>2, <3>3, <3>4, <3>5, GoodKept
    <3>7. After(u, n) = x \o v
      BY <1>u, <3>1, <3>x, AfterCat
    <3> QED BY <1>2, <3>1, <3>6, <3>7
  <2>2. CASE ~(n < Len(w))
    <3>k. PICK k : k = n - Len(w)
      OBVIOUS
    <3>1. k \in 0..Len(v) /\ n = Len(w) + k
      BY <1>1, <2>2, <3>k
    <3>2. Good(g[k], After(v, k), s2, z2)
      BY <3>1 DEF GoodPath
    <3>3. After(u, n) = After(v, k)
      BY <1>u, <3>1, AfterCat
    <3> QED BY <1>4, <3>1, <3>2, <3>3
  <2> QED BY <2>1, <2>2
<1>7. h[Len(u)] = g[Len(v)] /\ AtEnd(g[Len(v)], s2, z2)
  <2>1. Len(v) \in 0..Len(v)
    BY <1>1
  <2> QED BY <1>1, <1>4, <2>1 DEF GoodPath
<1>8. GoodPath(h, t, u, s2, z2)
  BY <1>5, <1>6, <1>7 DEF GoodPath
<1> QED
  BY <1>8, <1>u

-----------------------------------------------------------------------------
(***************************************************************************)
(* What is sent at once.                                                   *)
(***************************************************************************)
\* Marked bytes, one by one.
LEMMA MarkedFacts ==
  ASSUME NEW part \in Part, NEW bytes \in Seq(HeadByte)
  PROVE  /\ Marked(part, bytes) \in Seq(Item) /\ Len(Marked(part, bytes)) = Len(bytes)
         /\ \A k \in 1..Len(bytes) : /\ Marked(part, bytes)[k].part = part
                                     /\ Marked(part, bytes)[k].b = bytes[k]
<1>1. DOMAIN bytes = 1..Len(bytes) /\ Len(bytes) \in Nat
  BY LenProperties
<1>2. \A k \in 1..Len(bytes) : [part |-> part, b |-> bytes[k]] \in Item
  BY ElementOfSeq DEF Item
<1>3. Marked(part, bytes) = [k \in 1..Len(bytes) |-> [part |-> part, b |-> bytes[k]]]
  BY <1>1 DEF Marked
<1> QED
  BY <1>1, <1>2, <1>3

\* The data of v, if it has some, come first: e, which the server adds to z.
DataFirst(v, e) ==
    /\ Len(e) <= Len(v)
    /\ \A k \in 1..Len(v) : v[k].part = "data" <=> k <= Len(e)
    /\ \A k \in 1..Len(e) : e[k] = v[k].b

\* After k bytes of v, so many of its data have been got.
LEMMA GotAfter ==
  ASSUME NEW v \in Seq(Item), NEW z \in Seq(HeadByte), NEW e \in Seq(HeadByte),
         DataFirst(v, e)
  PROVE  /\ Count(v, "data") = Len(e)
         /\ \A k \in 0..Len(v) :
              /\ Got(After(v, k), z \o e) = Len(z) + Least(k, Len(e))
              /\ Got(After(v, k), z \o e) \in 0..Len(z \o e)
<1>1. /\ Len(v) \in Nat /\ Len(e) \in Nat /\ Len(z) \in Nat /\ Len(e) <= Len(v)
      /\ Len(z \o e) = Len(z) + Len(e)
      /\ \A k \in 1..Len(v) : v[k].part = "data" <=> k <= Len(e)
  BY CatFacts DEF DataFirst
<1>2. Count(v, "data") = Len(e)
  BY <1>1, CountIs
<1>3. ASSUME NEW k \in 0..Len(v)
      PROVE  /\ Got(After(v, k), z \o e) = Len(z) + Least(k, Len(e))
             /\ Got(After(v, k), z \o e) \in 0..Len(z \o e)
  <2>x. PICK x : x = After(v, k)
    OBVIOUS
  <2>1. /\ x \in Seq(Item) /\ Len(x) = Len(v) - k
        /\ \A i \in 1..(Len(v) - k) : x[i] = v[k + i]
    BY <2>x, AfterFacts
  <2>2. CASE k < Len(e)
    <3>n. PICK n : n = Len(e) - k
      OBVIOUS
    <3>1. n \in 0..Len(x) /\ Len(e) - n = k /\ Len(e) = k + n
      BY <1>1, <2>1, <2>2, <3>n
    <3>2. ASSUME NEW i \in 1..Len(x) PROVE x[i].part = "data" <=> i <= n
      <4>1. /\ k + i \in 1..Len(v) /\ x[i] = v[k + i]
            /\ k + i <= Len(e) <=> i <= n
        BY <1>1, <2>1, <3>1
      <4> QED BY <1>1, <4>1
    <3>3. Count(x, "data") = n
      BY <2>1, <3>1, <3>2, CountIs
    <3>4. Least(k, Len(e)) = k
      BY <2>2 DEF Least
    <3> QED BY <1>1, <2>x, <3>1, <3>3, <3>4 DEF Got
  <2>3. CASE ~(k < Len(e))
    <3>1. 0 \in 0..Len(x)
      BY <1>1, <2>1
    <3>2. ASSUME NEW i \in 1..Len(x) PROVE x[i].part = "data" <=> i <= 0
      <4>1. /\ k + i \in 1..Len(v) /\ x[i] = v[k + i]
            /\ ~(k + i <= Len(e)) /\ ~(i <= 0)
        BY <1>1, <2>1, <2>3
      <4> QED BY <1>1, <4>1
    <3>3. Count(x, "data") = 0
      BY <2>1, <3>1, <3>2, CountIs
    <3>4. Least(k, Len(e)) = Len(e)
      BY <2>3 DEF Least
    <3> QED BY <1>1, <2>x, <3>3, <3>4 DEF Got
  <2> QED BY <2>2, <2>3
<1> QED
  BY <1>2, <1>3

\* Storing the next byte of what was sent, while there is room.
LEMMA StoreNext ==
  ASSUME NEW z \in Seq(HeadByte), NEW n \in 0..(Len(z) - 1), NEW cap \in Nat
  PROVE  Store(SubSeq(z, 1, Least(n, cap)), z[n + 1], cap) = SubSeq(z, 1, Least(n + 1, cap))
<1>1. Len(z) \in Nat /\ n \in Nat /\ n + 1 \in 1..Len(z)
  BY LenProperties
<1>2. \A i \in 1..Len(z) : z[i] \in HeadByte
  BY ElementOfSeq
<1>3. ASSUME NEW m \in 0..Len(z)
      PROVE  SubSeq(z, 1, m) \in Seq(HeadByte) /\ Len(SubSeq(z, 1, m)) = m
  <2>1. m \in Nat /\ \A i \in 1..m : z[i] \in HeadByte
    BY <1>1, <1>2
  <2>2. /\ SubSeq(z, 1, m) \in Seq(HeadByte)
        /\ Len(SubSeq(z, 1, m)) = IF 1 <= m THEN m - 1 + 1 ELSE 0
    BY <2>1, SubSeqProperties
  <2> QED BY <2>1, <2>2
<1>4. CASE n < cap
  <2>1. Least(n, cap) = n /\ Least(n + 1, cap) = n + 1
    BY <1>1, <1>4 DEF Least
  <2>2. Len(SubSeq(z, 1, n)) = n
    BY <1>1, <1>3
  <2>3. Append(SubSeq(z, 1, n), z[n + 1]) = SubSeq(z, 1, n + 1)
    <3>1. SubSeq(z, 1, n) \in Seq(HeadByte) /\ z[n + 1] \in HeadByte
      BY <1>1, <1>2, <1>3
    <3> QED BY <1>1, <1>2, <3>1
  <2> QED BY <1>4, <2>1, <2>2, <2>3 DEF Store
<1>5. CASE ~(n < cap)
  <2>1. Least(n, cap) = cap /\ Least(n + 1, cap) = cap /\ cap \in 0..Len(z)
    BY <1>1, <1>5 DEF Least
  <2>2. ~(Len(SubSeq(z, 1, cap)) < cap)
    BY <1>3, <2>1
  <2> QED BY <2>1, <2>2 DEF Store
<1> QED
  BY <1>4, <1>5

\* The server sends v, which has the data e.
Sends(s, z, v, e, s2) ==
    /\ DataFirst(v, e) /\ Kept(s, z, v, s2, z \o e)
    /\ ~InHead(s2) /\ s2.framing = s.framing /\ s2.len = s.len /\ ~InHead(s)

\* When nothing is on its way, everything has been got.
LEMMA EmptyFacts ==
  /\ <<>> \in Seq(Item) /\ Len(<<>>) = 0 /\ OnlyNext(<<>>)
  /\ \A z \in Seq(HeadByte) : Got(<<>>, z) = Len(z)
<1>1. <<>> \in Seq(Item) /\ Len(<<>>) = 0 /\ DOMAIN <<>> = {}
  OBVIOUS
<1>2. Count(<<>>, "data") = 0
  <2>1. \A k \in 1..Len(<<>>) : <<>>[k].part = "data" <=> k <= 0
    BY <1>1
  <2>2. 0 \in 0..Len(<<>>)
    BY <1>1
  <2> QED BY <1>1, <2>1, <2>2, CountIs
<1>3. \A z \in Seq(HeadByte) : Got(<<>>, z) = Len(z)
  BY <1>2, LenProperties DEF Got
<1> QED
  BY <1>1, <1>3 DEF OnlyNext

\* A receiver that does not look at the body does not look at what is sent of it.
LEMMA IdleGoesOn ==
  ASSUME NEW t \in State, NEW z \in Seq(HeadByte), NEW s, NEW s2,
         NEW v \in Seq(Item), NEW e \in Seq(HeadByte),
         Idle(t), Good(t, <<>>, s, z), Sends(s, z, v, e, s2)
  PROVE  \E g : GoodPath(g, t, v, s2, z \o e)
<1>g. PICK g : g = [n \in 0..Len(v) |-> t]
  OBVIOUS
<1>0. Len(v) \in Nat /\ t.rx.cap \in Nat /\ t.rx.result \in {"reading", "bad", "done"}
  BY LenProperties DEF State, Receiver
<1>1. \A n \in 0..Len(v) : g[n] = t
  BY <1>g
<1>2. ASSUME NEW b PROVE Take(t, b) = t
  <2>1. CASE t.rx.result = "bad"
    BY <2>1 DEF Take, Stopped
  <2>2. CASE t.rx.kind = "once" /\ t.rx.cap = 0 /\ t.rx.ended /\ t.rx.result # "bad"
    <3>1. ~Stopped(t) /\ ~Decodes(t.rx)
      BY <2>2 DEF Stopped, Decodes
    <3>2. Want(t.rx) \in Int /\ ~(Want(t.rx) > 0)
      <4>1. t.rx.len \in Int
        BY DEF State, Receiver
      <4> QED BY <2>2, <4>1 DEF Want
    <3>3. Store(t.body, b, Want(t.rx)) = t.body
      <4>1. Len(t.body) \in Nat
        BY LenProperties DEF State
      <4> QED BY <3>2, <4>1 DEF Store
    <3>4. t = [rx |-> t.rx, body |-> t.body]
      BY DEF State
    <3> QED BY <2>2, <3>1, <3>3, <3>4 DEF Take
  <2> QED BY <2>1, <2>2 DEF Idle
<1>3. Path(g, t, v)
  <2>1. \A n \in 1..Len(v) : n \in 0..Len(v) /\ n - 1 \in 0..Len(v)
    BY <1>0
  <2> QED BY <1>0, <1>1, <1>2, <2>1 DEF Path
<1>4. ASSUME NEW n \in 0..Len(v) PROVE Good(t, After(v, n), s2, z \o e)
  <2>1. Got(After(v, n), z \o e) \in 0..Len(z \o e)
    BY GotAfter DEF Sends
  <2>2. CASE t.rx.result = "bad"
    BY <2>1, <2>2 DEF Good, Sends, Kept
  <2>3. CASE t.rx.kind = "once" /\ t.rx.cap = 0 /\ t.rx.ended /\ t.rx.result # "bad"
    <3>1. /\ t.rx.dec.done => Ended(s2)
          /\ t.rx.chunked <=> s2.framing = "chunked"
          /\ t.rx.len = s2.len
          /\ t.body = SubSeq(z, 1, Least(Got(<<>>, z), t.rx.cap))
          /\ t.rx.result = "reading"
      BY <2>3 DEF Good, Sends, Kept
    <3>2. \A y, m : m \in Nat => SubSeq(y, 1, Least(m, 0)) = <<>>
      <4> SUFFICES ASSUME NEW y, NEW m \in Nat PROVE SubSeq(y, 1, Least(m, 0)) = <<>>
        OBVIOUS
      <4>1. Least(m, 0) = 0
        BY DEF Least
      <4>2. SubSeq(y, 1, 0) = <<>>
        BY SubSeqEmpty
      <4> QED BY <4>1, <4>2
    <3>3. Got(<<>>, z) \in Nat /\ Got(After(v, n), z \o e) \in Nat
      <4>1. Len(z \o e) \in Nat /\ Len(z) \in Nat
        BY LenProperties, CatFacts
      <4> QED BY <2>1, <4>1, EmptyFacts
    <3>4. t.body = SubSeq(z \o e, 1, Least(Got(After(v, n), z \o e), t.rx.cap))
      BY <2>3, <3>1, <3>2, <3>3
    <3>5. ~InHead(s2)
      BY DEF Sends
    <3> QED BY <2>1, <2>3, <3>1, <3>4, <3>5 DEF Good
  <2> QED BY <2>2, <2>3 DEF Idle
<1>5. AtEnd(t, s2, z \o e)
  <2>1. s2.at # "status" /\ s2.at # "fields" /\ ~InHead(s2)
    BY DEF Sends, InHead
  <2>2. CASE t.rx.result = "bad"
    <3>1. s2.unfit
      BY <2>2 DEF Good, Sends, Kept
    <3> QED BY <2>1, <3>1 DEF AtEnd
  <2>3. CASE t.rx.kind = "once" /\ t.rx.cap = 0 /\ t.rx.ended /\ t.rx.result # "bad"
    <3>1. t.rx.result = "reading" /\ ~Decodes(t.rx)
      BY <2>3 DEF Good, Decodes
    <3> QED BY <2>1, <2>3, <3>1 DEF AtEnd
  <2> QED BY <2>2, <2>3 DEF Idle
<1> QED
  <2>1. Len(v) \in 0..Len(v)
    BY <1>0
  <2>2. GoodPath(g, t, v, s2, z \o e)
    BY <1>1, <1>3, <1>4, <1>5, <2>1 DEF GoodPath
  <2> QED BY <2>2

\* What the decoder makes of v.
Decoding(d, c, v) ==
    /\ d[0] = c
    /\ \A n \in 1..Len(v) :
        d[n] = IF d[n - 1].bad THEN d[n - 1] ELSE DecodeByte(d[n - 1], v[n].b)

\* A chunked body goes on: the decoder reads v, and stores e.
LEMMA DecoderGoesOn ==
  ASSUME NEW t \in State, NEW z \in Seq(HeadByte), NEW s, NEW s2,
         NEW v \in Seq(Item), NEW e \in Seq(HeadByte), NEW d,
         Good(t, <<>>, s, z), t.rx.result = "reading", t.rx.ended, Decodes(t.rx),
         Sends(s, z, v, e, s2), s.framing = "chunked",
         \A n \in 1..Len(v) : v[n].part # "next",
         Decoding(d, t.rx.dec, v), ~d[0].bad,
         \A n \in 0..Len(v) : d[n].bad => s2.unfit,
         \A n \in 0..Len(v) : d[n].done <=> Ended(s2) /\ n = Len(v),
         \A n \in 1..Len(v) : ~d[n - 1].bad =>
            (d[n - 1].at = "data" /\ d[n - 1].rem > 0 <=> n <= Len(e)),
         \A n \in 1..Len(v) : d[n - 1].bad => ~(n <= Len(e)),
         IF s2.unfit THEN d[Len(v)].bad ELSE DecoderAt(d[Len(v)], s2)
  PROVE  \E g : GoodPath(g, t, v, s2, z \o e)
<1>z. PICK z2 : z2 = z \o e
  OBVIOUS
<1>0. /\ Len(v) \in Nat /\ Len(e) \in Nat /\ Len(z) \in Nat /\ Len(z2) = Len(z) + Len(e)
      /\ z2 \in Seq(HeadByte) /\ \A k \in 1..Len(e) : z2[Len(z) + k] = e[k]
      /\ Len(e) <= Len(v) /\ \A k \in 1..Len(e) : e[k] = v[k].b
  BY <1>z, CatFacts DEF Sends, DataFirst
<1>c. t.rx.cap \in Nat /\ t.rx.dec \in Decoder /\ t.rx \in Receiver
  BY DEF State, Receiver
<1> DEFINE y(n) == SubSeq(z2, 1, Least(Len(z) + Least(n, Len(e)), t.rx.cap))
           r(n) == [t.rx EXCEPT !.dec = d[n], !.result = IF d[n].bad THEN "bad" ELSE @]
<1>g. PICK g : g = [n \in 0..Len(v) |-> [rx |-> r(n), body |-> y(n)]]
  OBVIOUS
<1>1. \A n \in 0..Len(v) : g[n] = [rx |-> r(n), body |-> y(n)]
  BY <1>g
<1>2. \A n \in 0..Len(v) : /\ r(n).dec = d[n] /\ r(n).kind = t.rx.kind /\ r(n).cap = t.rx.cap
                           /\ r(n).ended /\ r(n).chunked = t.rx.chunked
                           /\ r(n).len = t.rx.len
                           /\ r(n).result = IF d[n].bad THEN "bad" ELSE "reading"
  BY <1>c DEF Receiver
<1>3. y(0) = t.body
  <2>1. t.body = SubSeq(z, 1, Least(Len(z), t.rx.cap))
    BY EmptyFacts DEF Good
  <2>2. Least(0, Len(e)) = 0 /\ Len(z) + 0 = Len(z)
    BY <1>0 DEF Least
  <2>3. Least(Len(z), t.rx.cap) \in 0..Len(z)
    BY <1>0, <1>c DEF Least
  <2>4. SubSeq(z2, 1, Least(Len(z), t.rx.cap)) = SubSeq(z, 1, Least(Len(z), t.rx.cap))
    BY <1>z, <2>3, PrefixCat
  <2> QED BY <2>1, <2>2, <2>4
<1>4. ASSUME NEW n \in 1..Len(v) PROVE g[n] = Take(g[n - 1], v[n].b)
  <2>m. PICK m : m = n - 1
    OBVIOUS
  <2>1. m \in 0..Len(v) /\ n \in 0..Len(v) /\ m # Len(v) /\ n = m + 1 /\ m \in Nat
    BY <1>0, <2>m
  <2>2. ~d[m].done
    BY <2>1
  <2>3. d[n] = IF d[m].bad THEN d[m] ELSE DecodeByte(d[m], v[n].b)
    BY <2>m DEF Decoding
  <2>p. PICK p : p = g[m]
    OBVIOUS
  <2>4. p.rx = r(m) /\ p.body = y(m)
    <3>1. p = [rx |-> r(m), body |-> y(m)]
      BY <1>1, <2>1, <2>p
    <3> HIDE DEF r, y
    <3> QED BY <3>1
  <2>5. CASE d[m].bad
    <3>1. Take(p, v[n].b) = p
      BY <1>2, <2>1, <2>4, <2>5 DEF Take, Stopped
    <3>2. d[n] = d[m]
      BY <2>3, <2>5
    <3>3. ~(n <= Len(e))
      BY <2>5, <2>m
    <3>4. Least(n, Len(e)) = Least(m, Len(e))
      BY <1>0, <2>1, <3>3 DEF Least
    <3>5. r(n) = r(m) /\ y(n) = y(m)
      BY <3>2, <3>4
    <3>6. g[n] = [rx |-> r(n), body |-> y(n)] /\ g[m] = [rx |-> r(m), body |-> y(m)]
      BY <1>1, <2>1
    <3> HIDE DEF r, y
    <3> QED BY <2>m, <2>p, <3>1, <3>5, <3>6
  <2>6. CASE ~d[m].bad
    <3>1. ~Stopped(p) /\ p.rx.ended /\ Decodes(p.rx) /\ ~p.rx.dec.done
      <4>1. /\ p.rx.dec = d[m] /\ p.rx.kind = t.rx.kind /\ p.rx.cap = t.rx.cap
            /\ p.rx.ended /\ p.rx.chunked = t.rx.chunked /\ p.rx.result = "reading"
        BY <1>2, <2>1, <2>4, <2>6
      <4> QED BY <2>2, <4>1 DEF Stopped, Complete, Decodes
    <3>2. d[n] = DecodeByte(d[m], v[n].b)
      BY <2>3, <2>6
    <3> DEFINE q == [p.rx EXCEPT !.dec = d[n], !.result = IF d[n].bad THEN "bad" ELSE @]
               x == Stored(p.rx.dec, v[n].b, p.body, p.rx.cap)
    <3>3. Take(p, v[n].b) = [rx |-> q, body |-> x]
      <4>1. p.rx.dec = d[m]
        BY <1>2, <2>1, <2>4
      <4> QED BY <3>1, <3>2, <4>1 DEF Take
    <3>4. q = r(n)
      <4>1. p.rx = [t.rx EXCEPT !.dec = d[m]]
        BY <1>c, <2>4, <2>6 DEF Receiver
      <4> QED BY <1>c, <4>1 DEF Receiver
    <3>5. x = y(n)
      <4>1. p.rx.dec = d[m] /\ p.rx.cap = t.rx.cap /\ p.body = y(m)
        BY <1>2, <2>1, <2>4
      <4>2. d[m].at = "data" /\ d[m].rem > 0 <=> n <= Len(e)
        BY <2>6, <2>m
      <4>3. CASE n <= Len(e)
        <5>1. Least(m, Len(e)) = m /\ Least(n, Len(e)) = n
          BY <1>0, <2>1, <4>3 DEF Least
        <5>k. PICK k : k = Len(z) + m
          OBVIOUS
        <5>2. /\ k \in 0..(Len(z2) - 1) /\ k + 1 = Len(z) + n /\ n \in 1..Len(e)
              /\ k = Len(z) + m
          BY <1>0, <2>1, <4>3, <5>k
        <5>3. z2[k + 1] = v[n].b
          BY <1>0, <5>2
        <5>4. Store(y(m), v[n].b, t.rx.cap) = y(n)
          <6>1. /\ y(m) = SubSeq(z2, 1, Least(k, t.rx.cap))
                /\ y(n) = SubSeq(z2, 1, Least(k + 1, t.rx.cap))
            BY <5>1, <5>2
          <6>2. Store(SubSeq(z2, 1, Least(k, t.rx.cap)), z2[k + 1], t.rx.cap)
                = SubSeq(z2, 1, Least(k + 1, t.rx.cap))
            BY <1>0, <1>c, <5>2, StoreNext
          <6> QED BY <5>3, <6>1, <6>2
        <5>5. x = Store(y(m), v[n].b, t.rx.cap)
          BY <4>1, <4>2, <4>3 DEF Stored, Store
        <5> QED BY <5>4, <5>5
      <4>4. CASE ~(n <= Len(e))
        <5>1. Least(m, Len(e)) = Least(n, Len(e))
          BY <1>0, <2>1, <4>4 DEF Least
        <5>2. x = y(m)
          BY <4>1, <4>2, <4>4 DEF Stored
        <5> QED BY <5>1, <5>2
      <4> QED BY <4>3, <4>4
    <3>6. g[n] = [rx |-> r(n), body |-> y(n)]
      BY <1>1, <2>1
    <3> HIDE DEF q, x, r, y
    <3> QED BY <2>m, <2>p, <3>3, <3>4, <3>5, <3>6
  <2> QED BY <2>5, <2>6
<1>5. g[0] = t
  <2>1. d[0] = t.rx.dec /\ 0 \in 0..Len(v)
    BY <1>0 DEF Decoding
  <2>2. r(0) = t.rx
    BY <1>c, <2>1 DEF Receiver
  <2>3. g[0] = [rx |-> r(0), body |-> y(0)]
    BY <1>1, <2>1
  <2>4. t = [rx |-> t.rx, body |-> t.body]
    BY DEF State
  <2> HIDE DEF r, y
  <2> QED BY <1>3, <2>2, <2>3, <2>4
<1>6. Path(g, t, v)
  BY <1>4, <1>5 DEF Path
<1>7. ASSUME NEW n \in 0..Len(v) PROVE Good(g[n], After(v, n), s2, z2)
  <2>p. PICK p : p = g[n]
    OBVIOUS
  <2>x. PICK x : x = After(v, n)
    OBVIOUS
  <2>1. Got(x, z2) = Len(z) + Least(n, Len(e)) /\ Got(x, z2) \in 0..Len(z2)
    BY <1>z, <2>x, GotAfter DEF Sends
  <2>2. /\ p.rx.dec = d[n] /\ p.rx.kind = t.rx.kind /\ p.rx.cap = t.rx.cap
        /\ p.rx.ended /\ p.rx.chunked = t.rx.chunked /\ p.rx.len = t.rx.len
        /\ p.rx.result = IF d[n].bad THEN "bad" ELSE "reading"
        /\ p.body = y(n)
    <3>1. p = [rx |-> r(n), body |-> y(n)]
      BY <1>1, <2>p
    <3>2. p.rx = r(n) /\ p.body = y(n)
      <4> HIDE DEF r, y
      <4> QED BY <3>1
    <3> HIDE DEF r, y
    <3> QED BY <1>2, <3>2
  <2>3. /\ d[n].bad => s2.unfit
        /\ d[n].done <=> Ended(s2) /\ n = Len(v)
    OBVIOUS
  <2>4. OnlyNext(x) <=> n = Len(v)
    <3>1. CASE n = Len(v)
      BY <2>x, <3>1, AfterEnds, EmptyFacts
    <3>2. CASE n # Len(v)
      <4>1. /\ x \in Seq(Item) /\ Len(x) = Len(v) - n
            /\ \A i \in 1..(Len(v) - n) : x[i] = v[n + i]
        BY <2>x, AfterFacts
      <4>2. 1 \in 1..(Len(v) - n) /\ n + 1 \in 1..Len(v)
        BY <1>0, <3>2
      <4>3. 1 \in DOMAIN x /\ x[1] = v[n + 1]
        BY <4>1, <4>2, LenProperties
      <4> QED BY <3>2, <4>2, <4>3 DEF OnlyNext
    <3> QED BY <3>1, <3>2
  <2>5. /\ t.rx.chunked /\ s2.framing = "chunked" /\ t.rx.len = s2.len /\ ~InHead(s2)
    BY DEF Decodes, Good, Sends
  <2>6. Complete(p.rx) <=> d[n].done
    BY <2>2, <2>5 DEF Complete
  <2> HIDE DEF r
  <2>7. Good(p, x, s2, z2)
    BY <2>1, <2>2, <2>3, <2>4, <2>5, <2>6 DEF Good
  <2> QED BY <2>7, <2>p, <2>x
<1>8. AtEnd(g[Len(v)], s2, z2)
  <2>p. PICK p : p = g[Len(v)]
    OBVIOUS
  <2>0. Len(v) \in 0..Len(v)
    BY <1>0
  <2>1. /\ p.rx.dec = d[Len(v)] /\ p.rx.ended
        /\ p.rx.result = IF d[Len(v)].bad THEN "bad" ELSE "reading"
    <3>1. p = [rx |-> r(Len(v)), body |-> y(Len(v))]
      BY <1>1, <2>0, <2>p
    <3>2. p.rx = r(Len(v))
      <4> HIDE DEF r, y
      <4> QED BY <3>1
    <3> HIDE DEF r, y
    <3> QED BY <1>2, <2>0, <3>2
  <2>2. ~InHead(s2) /\ s2.framing = "chunked" /\ s2.at # "status" /\ s2.at # "fields"
    BY DEF Sends, InHead
  <2>3. CASE s2.unfit
    <3>1. d[Len(v)].bad
      BY <2>3
    <3> QED BY <2>1, <2>2, <2>3, <2>p, <3>1 DEF AtEnd, Idle
  <2>4. CASE ~s2.unfit
    <3>1. ~d[Len(v)].bad /\ DecoderAt(d[Len(v)], s2)
      BY <2>0, <2>4
    <3> QED BY <2>1, <2>2, <2>4, <2>p, <3>1 DEF AtEnd
  <2> QED BY <2>3, <2>4
<1> QED
  <2>1. GoodPath(g, t, v, s2, z2)
    BY <1>6, <1>7, <1>8 DEF GoodPath
  <2> QED BY <1>z, <2>1

-----------------------------------------------------------------------------
(***************************************************************************)
(* A chunked body.                                                         *)
(***************************************************************************)
\* What is not data has no data.
LEMMA NoData ==
  ASSUME NEW part \in Part \ {"data"}, NEW bytes \in Seq(HeadByte)
  PROVE  DataFirst(Marked(part, bytes), <<>>)
<1>v. PICK v : v = Marked(part, bytes)
  OBVIOUS
<1>1. /\ Len(v) = Len(bytes) /\ Len(bytes) \in Nat
      /\ \A k \in 1..Len(bytes) : v[k].part = part
  BY <1>v, MarkedFacts, LenProperties
<1>2. Len(<<>>) = 0
  BY EmptyFacts
<1>3. ASSUME NEW k \in 1..Len(v) PROVE v[k].part = "data" <=> k <= Len(<<>>)
  BY <1>1, <1>2
<1> QED
  BY <1>1, <1>2, <1>3, <1>v DEF DataFirst

\* A piece of the message that the server sends before the message is at its end.
LEMMA PieceKept ==
  ASSUME NEW v \in Seq(Item), NEW z \in Seq(HeadByte), NEW e \in Seq(HeadByte),
         NEW s, NEW s2, DataFirst(v, e), Len(v) > 0, v[1].part # "next", ~Ended(s),
         s.unfit => s2.unfit, InHead(s2) => InHead(s),
         InHead(s) \/ (s2.framing = s.framing /\ s2.len = s.len)
  PROVE  Kept(s, z, v, s2, z \o e)
<1>1. Count(v, "data") = Len(e)
  BY GotAfter
<1>2. ~OnlyNext(v)
  <2>1. 1 \in DOMAIN v
    BY LenProperties
  <2> QED BY <2>1 DEF OnlyNext
<1> QED
  BY <1>1, <1>2 DEF Kept

\* Where the decoder is when the server is about to send.
LEMMA Ready ==
  ASSUME NEW t \in State, NEW s, NEW z, Good(t, <<>>, s, z), AtEnd(t, s, z),
         ~InHead(s), s.framing = "chunked", ~Idle(t)
  PROVE  /\ t.rx.result = "reading" /\ t.rx.ended /\ Decodes(t.rx) /\ ~s.unfit
         /\ DecoderAt(t.rx.dec, s) /\ t.rx.dec \in Decoder
<1>1. ~s.unfit /\ t.rx.result = "reading" /\ t.rx.ended /\ t.rx.chunked
  BY DEF AtEnd, Good, Idle
<1>2. t.rx.cap \in Nat /\ t.rx.kind \in {"keep", "once"} /\ t.rx.dec \in Decoder
  BY DEF State, Receiver
<1>3. Decodes(t.rx)
  BY <1>1, <1>2 DEF Decodes, Idle
<1> QED
  BY <1>1, <1>2, <1>3 DEF AtEnd

\* What becomes of a path when the server sends v in state s, with the data e, and
\* is in state s2 then.
GoesOn(t, v, e, s, s2, z) ==
    /\ v \in Seq(Item) /\ Kept(s, z, v, s2, z \o e) /\ ServerInv(s2, z \o e)
    /\ \E g : GoodPath(g, t, v, s2, z \o e)

\* The end of a line.
LEMMA CRLFFacts ==
  CRLF \in Seq(HeadByte) /\ Len(CRLF) = 2 /\ CRLF[1] = "CR" /\ CRLF[2] = "LF"
  BY DEF CRLF, HeadByte, Byte

\* No digit is taken for anything else.
LEMMA NotDigits == Digit \cap ({"CR", "LF", "x", "SP", "COMMA"} \cup Name \cup Word) = {}
  BY ChunkedAssumption, HeadAssumption

\* A size, a trailer, the end: something that holds no data.
LEMMA PieceGoesOn ==
  ASSUME NEW t \in State, NEW s, NEW s2, NEW z \in Seq(HeadByte),
         Good(t, <<>>, s, z), AtEnd(t, s, z), ~InHead(s), ~Ended(s), s.framing = "chunked",
         ServerInv(s2, z), ~InHead(s2), s2.framing = s.framing, s2.len = s.len,
         s.unfit => s2.unfit,
         NEW part \in {"size", "trailers"}, NEW bytes \in Seq(HeadByte), Len(bytes) > 0,
         ~Idle(t) => \E d :
            /\ Decoding(d, t.rx.dec, Marked(part, bytes))
            /\ \A n \in 0..Len(bytes) : /\ d[n].bad => s2.unfit
                                        /\ d[n].done <=> Ended(s2) /\ n = Len(bytes)
            /\ \A n \in 0..(Len(bytes) - 1) : d[n].at # "data"
            /\ IF s2.unfit THEN d[Len(bytes)].bad ELSE DecoderAt(d[Len(bytes)], s2)
  PROVE  GoesOn(t, Marked(part, bytes), <<>>, s, s2, z)
<1>v. PICK v : v = Marked(part, bytes)
  OBVIOUS
<1>1. /\ v \in Seq(Item) /\ Len(v) = Len(bytes) /\ DataFirst(v, <<>>) /\ Len(v) \in Nat
      /\ \A k \in 1..Len(v) : v[k].part = part
  BY <1>v, MarkedFacts, NoData, LenProperties DEF Part
<1>4. <<>> \in Seq(HeadByte) /\ z \o <<>> = z /\ Len(<<>>) = 0
  BY ConcatEmptySeq
<1>2. Len(v) > 0 /\ v[1].part # "next" /\ \A n \in 1..Len(v) : v[n].part # "next"
  BY <1>1
<1>5. Kept(s, z, v, s2, z \o <<>>)
  BY <1>1, <1>2, <1>4, PieceKept
<1>6. Sends(s, z, v, <<>>, s2)
  BY <1>1, <1>5 DEF Sends
<1>7. \E g : GoodPath(g, t, v, s2, z \o <<>>)
  <2>1. CASE Idle(t)
    BY <1>1, <1>4, <1>6, <2>1, IdleGoesOn
  <2>2. CASE ~Idle(t)
    <3>1. PICK d :
            /\ Decoding(d, t.rx.dec, v)
            /\ \A n \in 0..Len(v) : /\ d[n].bad => s2.unfit
                                    /\ d[n].done <=> Ended(s2) /\ n = Len(v)
            /\ \A n \in 0..(Len(v) - 1) : d[n].at # "data"
            /\ IF s2.unfit THEN d[Len(v)].bad ELSE DecoderAt(d[Len(v)], s2)
      BY <1>1, <1>v, <2>2
    <3>2. /\ t.rx.result = "reading" /\ t.rx.ended /\ Decodes(t.rx)
          /\ DecoderAt(t.rx.dec, s)
      BY <2>2, Ready
    <3>3. ~d[0].bad
      BY <3>1, <3>2 DEF Decoding, DecoderAt
    <3>4. \A n \in 1..Len(v) : n - 1 \in 0..(Len(v) - 1) /\ ~(n <= Len(<<>>))
      BY <1>1, <1>4
    <3>5. /\ \A n \in 0..Len(v) : d[n].bad => s2.unfit
          /\ \A n \in 0..Len(v) : d[n].done <=> Ended(s2) /\ n = Len(v)
          /\ \A n \in 1..Len(v) : ~d[n - 1].bad =>
              (d[n - 1].at = "data" /\ d[n - 1].rem > 0 <=> n <= Len(<<>>))
          /\ \A n \in 1..Len(v) : d[n - 1].bad => ~(n <= Len(<<>>))
          /\ (IF s2.unfit THEN d[Len(v)].bad ELSE DecoderAt(d[Len(v)], s2))
          /\ Decoding(d, t.rx.dec, v)
      BY <3>1, <3>4
    <3> QED BY <1>1, <1>2, <1>4, <1>6, <3>2, <3>3, <3>5, DecoderGoesOn
  <2> QED BY <2>1, <2>2
<1> QED
  BY <1>1, <1>4, <1>5, <1>7, <1>v DEF GoesOn

\* The states of a decoder, from one step after the other.
LEMMA DecodingSteps ==
  ASSUME NEW d, NEW c, NEW v, d[0] = c, Len(v) \in Nat,
         \A n \in 0..(Len(v) - 1) : /\ d[n].bad => d[n + 1] = d[n]
                                    /\ ~d[n].bad => d[n + 1] = DecodeByte(d[n], v[n + 1].b)
  PROVE  Decoding(d, c, v)
<1>1. ASSUME NEW n \in 1..Len(v)
      PROVE  d[n] = IF d[n - 1].bad THEN d[n - 1] ELSE DecodeByte(d[n - 1], v[n].b)
  <2>m. PICK m : m = n - 1
    OBVIOUS
  <2>1. m \in 0..(Len(v) - 1) /\ m + 1 = n
    BY <2>m
  <2> QED BY <2>1, <2>m
<1> QED
  BY <1>1 DEF Decoding

\* The empty line after the trailers ends the message.
LEMMA EndGoesOn ==
  ASSUME NEW t \in State, NEW s \in Server, NEW z \in Seq(HeadByte),
         Good(t, <<>>, s, z), AtEnd(t, s, z), ServerInv(s, z), s.at = "trailers"
  PROVE  GoesOn(t, Marked("trailers", CRLF), <<>>, s, [s EXCEPT !.at = "next"], z)
<1>v. PICK v : v = Marked("trailers", CRLF)
  OBVIOUS
<1>2. PICK s2 : s2 = [s EXCEPT !.at = "next"]
  OBVIOUS
<1>1. v[1].b = "CR" /\ v[2].b = "LF" /\ Len(v) = 2
  <2>1. "trailers" \in Part /\ 1 \in 1..2 /\ 2 \in 1..2
    BY DEF Part
  <2>2. Len(v) = Len(CRLF) /\ \A k \in 1..Len(CRLF) : v[k].b = CRLF[k]
    BY <1>v, <2>1, CRLFFacts, MarkedFacts
  <2> QED BY <2>1, <2>2, CRLFFacts
<1>3. /\ s2.at = "next" /\ s2.framing = "chunked" /\ s.framing = "chunked" /\ s2.len = s.len
      /\ s2.unfit = s.unfit /\ ~InHead(s) /\ ~InHead(s2) /\ ~Ended(s) /\ Ended(s2)
  BY <1>2 DEF Server, ServerInv, InHead, Ended
<1>4. ServerInv(s2, z)
  BY <1>3 DEF ServerInv
<1>5. ASSUME ~Idle(t)
      PROVE  \E d :
            /\ Decoding(d, t.rx.dec, v)
            /\ \A n \in 0..2 : /\ d[n].bad => s2.unfit
                               /\ d[n].done <=> Ended(s2) /\ n = 2
            /\ \A n \in 0..(2 - 1) : d[n].at # "data"
            /\ IF s2.unfit THEN d[2].bad ELSE DecoderAt(d[2], s2)
  <2>c. PICK c : c = t.rx.dec
    OBVIOUS
  <2>1. /\ ~s.unfit
        /\ c \in Decoder /\ ~c.bad /\ ~c.done /\ c.at = "trailers" /\ c.start /\ ~c.cr
    BY <1>3, <1>5, <2>c, Ready DEF DecoderAt
  <2>d. PICK d : d = [n \in 0..2 |-> IF n = 0 THEN c ELSE IF n = 1 THEN [c EXCEPT !.cr = TRUE]
                                     ELSE [c EXCEPT !.cr = TRUE, !.done = TRUE]]
    OBVIOUS
  <2>2. /\ d[0] = c /\ d[1] = [c EXCEPT !.cr = TRUE]
        /\ d[2] = [c EXCEPT !.cr = TRUE, !.done = TRUE]
    BY <2>d
  <2>3. d[1] = DecodeByte(d[0], "CR")
    BY <2>1, <2>2 DEF DecodeByte, Trailers
  <2>4. d[2] = DecodeByte(d[1], "LF")
    BY <2>1, <2>2 DEF DecodeByte, Trailers, Decoder
  <2>5. /\ ~d[0].bad /\ ~d[1].bad /\ ~d[2].bad /\ ~d[0].done /\ ~d[1].done /\ d[2].done
        /\ d[0].at = "trailers" /\ d[1].at = "trailers" /\ d[2].at = "trailers"
    BY <2>1, <2>2 DEF Decoder
  <2>6. Decoding(d, c, v)
    <3>1. ASSUME NEW n \in 0..(Len(v) - 1)
          PROVE  ~d[n].bad /\ d[n + 1] = DecodeByte(d[n], v[n + 1].b)
      <4>1. (n = 0 /\ n + 1 = 1) \/ (n = 1 /\ n + 1 = 2)
        BY <1>1
      <4> QED BY <1>1, <2>3, <2>4, <2>5, <4>1
    <3>2. Len(v) \in Nat
      BY <1>1
    <3> QED BY <2>2, <3>1, <3>2, DecodingSteps
  <2>7. DecoderAt(d[2], s2)
    BY <1>3, <2>5 DEF DecoderAt
  <2>8. /\ \A n \in 0..2 : /\ d[n].bad => s2.unfit
                           /\ d[n].done <=> Ended(s2) /\ n = 2
        /\ \A n \in 0..(2 - 1) : d[n].at # "data"
    BY <1>3, <2>5
  <2> QED BY <1>3, <2>1, <2>6, <2>7, <2>8, <2>c
<1>w. PICK bytes : bytes = CRLF
  OBVIOUS
<1>6. bytes \in Seq(HeadByte) /\ Len(bytes) = 2 /\ Len(bytes) > 0
  BY <1>w, CRLFFacts
<1>7. GoesOn(t, v, <<>>, s, s2, z)
  BY <1>3, <1>4, <1>5, <1>6, <1>v, <1>w, PieceGoesOn
<1> QED
  BY <1>2, <1>7, <1>v

\* The text of a trailer line: n bytes and the end of the line.
TrailerLine(n) == [m \in 1..n |-> "x"] \o CRLF

\* A line is its text and its end.
LEMMA LineFacts ==
  ASSUME NEW core \in Seq(HeadByte)
  PROVE  LET text == core \o CRLF
         IN  /\ text \in Seq(HeadByte) /\ Len(text) = Len(core) + 2 /\ Len(core) \in Nat
             /\ \A k \in 1..Len(core) : text[k] = core[k]
             /\ text[Len(core) + 1] = "CR" /\ text[Len(core) + 2] = "LF"
<1>1. ASSUME NEW w \in Seq(HeadByte), Len(w) = 2
      PROVE  /\ core \o w \in Seq(HeadByte) /\ Len(core \o w) = Len(core) + 2
             /\ Len(core) \in Nat
             /\ \A i \in 1..Len(core) : (core \o w)[i] = core[i]
             /\ (core \o w)[Len(core) + 1] = w[1] /\ (core \o w)[Len(core) + 2] = w[2]
  <2>1. /\ core \o w \in Seq(HeadByte) /\ Len(core \o w) = Len(core) + Len(w)
        /\ Len(core) \in Nat
        /\ \A i \in 1..Len(core) : (core \o w)[i] = core[i]
        /\ \A i \in 1..Len(w) : (core \o w)[Len(core) + i] = w[i]
    BY CatFacts
  <2>2. 1 \in 1..Len(w) /\ 2 \in 1..Len(w)
    BY <1>1
  <2> QED
    BY <1>1, <2>1, <2>2
<1> QED
  BY <1>1, CRLFFacts

\* A trailer leaves the decoder at the start of the next line.
LEMMA TrailerGoesOn ==
  ASSUME NEW t \in State, NEW s \in Server, NEW z \in Seq(HeadByte), NEW n \in Nat \ {0},
         Good(t, <<>>, s, z), AtEnd(t, s, z), ServerInv(s, z), s.at = "trailers"
  PROVE  GoesOn(t, Marked("trailers", TrailerLine(n)), <<>>, s,
                [s EXCEPT !.trailers = @ + 1], z)
<1>p. PICK core : core = [m \in 1..n |-> "x"]
  OBVIOUS
<1>x. PICK text : text = core \o CRLF
  OBVIOUS
<1>v. PICK v : v = Marked("trailers", text)
  OBVIOUS
<1>2. PICK s2 : s2 = [s EXCEPT !.trailers = @ + 1]
  OBVIOUS
<1>0. core \in Seq(HeadByte) /\ Len(core) = n /\ \A k \in 1..n : core[k] = "x"
  <2>1. "x" \in HeadByte
    BY DEF HeadByte, Byte
  <2> QED BY <1>p, <2>1
<1>a. /\ text \in Seq(HeadByte) /\ Len(text) = n + 2
      /\ \A k \in 1..n : text[k] = "x"
      /\ text[n + 1] = "CR" /\ text[n + 2] = "LF"
  BY <1>0, <1>x, LineFacts
<1>1. Len(v) = n + 2 /\ \A k \in 1..(n + 2) : v[k].b = text[k]
  BY <1>a, <1>v, MarkedFacts DEF Part
<1>3. /\ s2.at = "trailers" /\ s2.framing = "chunked" /\ s.framing = "chunked" /\ s2.len = s.len
      /\ s2.left = s.left
      /\ s2.unfit = s.unfit /\ ~InHead(s) /\ ~InHead(s2) /\ ~Ended(s) /\ ~Ended(s2)
  BY <1>2 DEF Server, ServerInv, InHead, Ended
<1>4. ServerInv(s2, z)
  BY <1>3 DEF ServerInv, InHead
<1>5. ASSUME ~Idle(t)
      PROVE  \E d :
            /\ Decoding(d, t.rx.dec, v)
            /\ \A k \in 0..(n + 2) : /\ d[k].bad => s2.unfit
                                     /\ d[k].done <=> Ended(s2) /\ k = n + 2
            /\ \A k \in 0..((n + 2) - 1) : d[k].at # "data"
            /\ IF s2.unfit THEN d[n + 2].bad ELSE DecoderAt(d[n + 2], s2)
  <2>c. PICK c : c = t.rx.dec
    OBVIOUS
  <2>1. /\ ~s.unfit
        /\ c \in Decoder /\ ~c.bad /\ ~c.done /\ c.at = "trailers" /\ c.start /\ ~c.cr
    BY <1>3, <1>5, <2>c, Ready DEF DecoderAt
  <2>i. PICK i : i = [c EXCEPT !.start = FALSE]
    OBVIOUS
  <2>d. PICK d : d = [k \in 0..(n + 2) |-> IF k = 0 \/ k = n + 2 THEN c ELSE i]
    OBVIOUS
  <2>2. d[0] = c /\ d[n + 2] = c /\ \A k \in 1..(n + 1) : d[k] = i
    BY <2>d
  <2>3. ~i.bad /\ ~i.done /\ i.at = "trailers" /\ ~i.start
    BY <2>1, <2>i DEF Decoder
  <2>4. DecodeByte(c, "x") = i
    BY <2>1, <2>i DEF DecodeByte, Trailers
  <2>5. \A b \in {"x", "CR"} : DecodeByte(i, b) = i
    BY <2>1, <2>i, <2>3 DEF DecodeByte, Trailers, Decoder
  <2>6. DecodeByte(i, "LF") = c
    BY <2>1, <2>i, <2>3 DEF DecodeByte, Trailers, Decoder
  <2>7. Decoding(d, c, v)
    <3>1. ASSUME NEW k \in 0..(Len(v) - 1)
          PROVE  ~d[k].bad /\ d[k + 1] = DecodeByte(d[k], v[k + 1].b)
      <4>1. CASE k = 0
        <5>1. k + 1 = 1 /\ 1 \in 1..n /\ 1 \in 1..(n + 1) /\ 1 \in 1..(n + 2)
          BY <4>1
        <5> QED BY <1>1, <1>a, <2>1, <2>2, <2>4, <4>1, <5>1
      <4>2. CASE k \in 1..n
        <5>1. k \in 1..(n + 1) /\ k + 1 \in 1..(n + 1) /\ k + 1 \in 1..(n + 2)
          BY <4>2
        <5>2. v[k + 1].b \in {"x", "CR"}
          <6>1. k + 1 \in 1..n \/ k + 1 = n + 1
            BY <4>2
          <6> QED BY <1>1, <1>a, <5>1, <6>1
        <5> QED BY <2>2, <2>3, <2>5, <5>1, <5>2
      <4>3. CASE k = n + 1
        <5>1. k \in 1..(n + 1) /\ k + 1 = n + 2 /\ n + 2 \in 1..(n + 2)
          BY <4>3
        <5> QED BY <1>1, <1>a, <2>2, <2>3, <2>6, <5>1
      <4> QED BY <1>1, <4>1, <4>2, <4>3
    <3>2. Len(v) \in Nat
      BY <1>1
    <3> QED BY <2>2, <3>1, <3>2, DecodingSteps
  <2>8. DecoderAt(c, s2)
    BY <1>3, <2>1 DEF DecoderAt
  <2>9. \A k \in 0..(n + 2) : ~d[k].bad /\ ~d[k].done /\ d[k].at # "data"
    <3> SUFFICES ASSUME NEW k \in 0..(n + 2) PROVE ~d[k].bad /\ ~d[k].done /\ d[k].at # "data"
      OBVIOUS
    <3>1. k = 0 \/ k = n + 2 \/ k \in 1..(n + 1)
      OBVIOUS
    <3> QED BY <2>1, <2>2, <2>3, <3>1
  <2> QED BY <1>3, <2>1, <2>2, <2>7, <2>8, <2>9, <2>c
<1>6. Len(text) > 0
  BY <1>a
<1>7. GoesOn(t, v, <<>>, s, s2, z)
  BY <1>3, <1>4, <1>5, <1>6, <1>a, <1>v, PieceGoesOn
<1> QED
  BY <1>2, <1>7, <1>p, <1>v, <1>x DEF TrailerLine

\* The first m elements of a sequence.
LEMMA PrefixFacts ==
  ASSUME NEW S, NEW w \in Seq(S), NEW m \in 0..Len(w)
  PROVE  /\ SubSeq(w, 1, m) \in Seq(S) /\ Len(SubSeq(w, 1, m)) = m
         /\ \A i \in 1..m : SubSeq(w, 1, m)[i] = w[i]
<1>1. Len(w) \in Nat /\ m \in Nat /\ \A i \in 1..m : w[i] \in S
  BY LenProperties, ElementOfSeq
<1>2. /\ SubSeq(w, 1, m) \in Seq(S)
      /\ Len(SubSeq(w, 1, m)) = IF 1 <= m THEN m - 1 + 1 ELSE 0
      /\ \A i \in 1..(m - 1 + 1) : SubSeq(w, 1, m)[i] = w[1 + i - 1]
  BY <1>1, SubSeqProperties
<1>3. ASSUME NEW i \in 1..m PROVE SubSeq(w, 1, m)[i] = w[i]
  <2>1. i \in 1..(m - 1 + 1) /\ 1 + i - 1 = i
    BY <1>1
  <2> QED BY <1>2, <2>1
<1> QED
  BY <1>1, <1>2, <1>3

\* One more element makes the prefix longer by one.
LEMMA PrefixGrows ==
  ASSUME NEW S, NEW w \in Seq(S), NEW m \in 0..(Len(w) - 1)
  PROVE  Append(SubSeq(w, 1, m), w[m + 1]) = SubSeq(w, 1, m + 1)
<1>1. /\ Len(w) \in Nat /\ m \in Nat /\ m \in 0..Len(w) /\ m + 1 \in 0..Len(w)
      /\ m + 1 \in 1..Len(w)
  BY LenProperties
<1>x. PICK x : x = SubSeq(w, 1, m)
  OBVIOUS
<1>y. PICK y : y = SubSeq(w, 1, m + 1)
  OBVIOUS
<1>2. x \in Seq(S) /\ Len(x) = m /\ \A i \in 1..m : x[i] = w[i]
  BY <1>1, <1>x, PrefixFacts
<1>3. y \in Seq(S) /\ Len(y) = m + 1 /\ \A i \in 1..(m + 1) : y[i] = w[i]
  BY <1>1, <1>y, PrefixFacts
<1>4. w[m + 1] \in S
  BY <1>1, ElementOfSeq
<1>5. /\ Append(x, w[m + 1]) \in Seq(S) /\ Len(Append(x, w[m + 1])) = m + 1
      /\ \A i \in 1..Len(x) : Append(x, w[m + 1])[i] = x[i]
      /\ Append(x, w[m + 1])[Len(x) + 1] = w[m + 1]
  BY <1>2, <1>4, AppendProperties
<1>6. ASSUME NEW i \in 1..(m + 1) PROVE Append(x, w[m + 1])[i] = y[i]
  <2>1. i \in 1..m \/ i = m + 1
    BY <1>1
  <2> QED BY <1>2, <1>3, <1>5, <2>1
<1> QED
  BY <1>3, <1>5, <1>6, <1>x, <1>y, SeqEqual

\* d is what the decoder makes of a line of m bytes and LF that gives the size n.
ReadsSize(d, c, v, m, n) ==
    /\ Decoding(d, c, v)
    /\ \A k \in 0..(m + 1) : ~d[k].done
    /\ \A k \in 0..m : d[k].at = "size"
    /\ IF n >= Width \/ m >= LineCap THEN d[m + 1].bad
       ELSE /\ \A k \in 0..(m + 1) : ~d[k].bad
            /\ d[m + 1].line = <<>> /\ d[m + 1].rem = n
            /\ d[m + 1].at = IF n = 0 THEN "trailers" ELSE "data"
            /\ d[m + 1].start /\ ~d[m + 1].cr

\* What a decoder makes of a size line.
LEMMA SizeDecodes ==
  ASSUME NEW c \in Decoder, ~c.bad, ~c.done, c.at = "size", c.line = <<>>,
         NEW ds \in Seq(Digit), Len(ds) > 0,
         NEW text \in Seq(HeadByte), NEW m \in Nat, Len(text) = m + 1, Len(ds) < m,
         \A k \in 1..Len(ds) : text[k] = ds[k], text[Len(ds) + 1] \notin Digit,
         \A k \in 1..m : text[k] # "LF", text[m + 1] = "LF",
         NEW v, Len(v) = m + 1, \A k \in 1..(m + 1) : v[k].b = text[k]
  PROVE  \E d : ReadsSize(d, c, v, m, TrueValue(ds))
<1>0. LineCap \in Nat /\ LineCap > 0 /\ Len(ds) \in Nat
  BY ChunkedAssumption, LenProperties
<1> DEFINE read(k) == [c EXCEPT !.line = SubSeq(text, 1, k)]
<1>l. PICK last : last = DecodeByte(read(m), "LF")
  OBVIOUS
<1>b. PICK bad : bad = Reject(read(LineCap - 1))
  OBVIOUS
<1>d. PICK d : d = [k \in 0..(m + 1) |-> IF LineCap <= k /\ LineCap <= m THEN bad
                                         ELSE IF k <= m THEN read(k) ELSE last]
  OBVIOUS
<1>1. \A k \in 0..m : SubSeq(text, 1, k) \in Seq(HeadByte) /\ Len(SubSeq(text, 1, k)) = k
  BY PrefixFacts
<1>2. ASSUME NEW k \in 0..m
      PROVE  /\ read(k).at = "size" /\ ~read(k).bad /\ ~read(k).done
             /\ read(k).line = SubSeq(text, 1, k)
  BY DEF Decoder
<1>3. /\ \A k \in 0..m : k < LineCap => d[k] = read(k)
      /\ LineCap <= m => \A k \in LineCap..(m + 1) : d[k] = bad
      /\ ~(LineCap <= m) => d[m + 1] = last
  BY <1>0, <1>d
<1>4. ASSUME NEW k \in 0..(m - 1), k < LineCap
      PROVE  DecodeByte(read(k), text[k + 1]) =
               IF k + 1 < LineCap THEN read(k + 1) ELSE Reject(read(k))
  <2>1. k \in 0..m /\ k + 1 \in 1..m /\ k \in 0..(Len(text) - 1) /\ k \in Nat
    OBVIOUS
  <2>2. text[k + 1] # "LF"
    BY <2>1
  <2>r. PICK r : r = read(k)
    OBVIOUS
  <2>3. /\ r.at = "size" /\ r.line = SubSeq(text, 1, k) /\ Len(r.line) = k
    BY <1>1, <1>2, <2>1, <2>r
  <2>4. DecodeByte(r, text[k + 1]) = SizeLine(r, text[k + 1])
    BY <2>3 DEF DecodeByte
  <2>5. CASE k + 1 < LineCap
    <3>1. SizeLine(r, text[k + 1]) = [r EXCEPT !.line = Append(@, text[k + 1])]
      BY <2>2, <2>3, <2>5 DEF SizeLine
    <3>2. Append(r.line, text[k + 1]) = SubSeq(text, 1, k + 1)
      BY <2>1, <2>3, PrefixGrows
    <3>3. [r EXCEPT !.line = SubSeq(text, 1, k + 1)] = read(k + 1)
      BY <2>r
    <3> QED BY <2>4, <2>5, <2>r, <3>1, <3>2, <3>3
  <2>6. CASE ~(k + 1 < LineCap)
    <3>1. SizeLine(r, text[k + 1]) = Reject(r)
      BY <2>2, <2>3, <2>6 DEF SizeLine
    <3> QED BY <2>4, <2>6, <2>r, <3>1
  <2> QED BY <2>5, <2>6
<1>5. bad.bad /\ ~bad.done /\ bad.at = "size"
  BY <1>b DEF Reject, Decoder
<1>6. Decoding(d, c, v)
  <2>1. ASSUME NEW k \in 0..(Len(v) - 1)
        PROVE  /\ d[k].bad => d[k + 1] = d[k]
               /\ ~d[k].bad => d[k + 1] = DecodeByte(d[k], v[k + 1].b)
    <3>1. k \in 0..m /\ k + 1 \in 1..(m + 1) /\ v[k + 1].b = text[k + 1]
      OBVIOUS
    <3>2. CASE LineCap <= k
      <4>1. k \in LineCap..(m + 1) /\ k + 1 \in LineCap..(m + 1) /\ LineCap <= m
        BY <1>0, <3>1, <3>2
      <4> QED BY <1>3, <1>5, <4>1
    <3>3. CASE ~(LineCap <= k) /\ k # m
      <4>1. k \in 0..(m - 1) /\ k < LineCap
        BY <1>0, <3>1, <3>3
      <4>2. d[k] = read(k) /\ ~d[k].bad
        BY <1>2, <1>3, <3>1, <4>1
      <4>3. CASE k + 1 < LineCap
        <5>1. k + 1 \in 0..m
          BY <3>1, <4>1
        <5>2. d[k + 1] = read(k + 1)
          BY <1>3, <4>3, <5>1
        <5> HIDE DEF read
        <5> QED BY <1>4, <3>1, <4>1, <4>2, <4>3, <5>2
      <4>4. CASE ~(k + 1 < LineCap)
        <5>1. k = LineCap - 1 /\ k + 1 = LineCap /\ LineCap \in LineCap..(m + 1) /\ LineCap <= m
          BY <1>0, <3>1, <4>1, <4>4
        <5>2. d[k + 1] = bad /\ bad = Reject(read(k))
          BY <1>3, <1>b, <5>1
        <5> HIDE DEF read
        <5> QED BY <1>4, <3>1, <4>1, <4>2, <4>4, <5>2
      <4> QED BY <4>3, <4>4
    <3>4. CASE ~(LineCap <= k) /\ k = m
      <4>1. k < LineCap /\ ~(LineCap <= m)
        BY <1>0, <3>1, <3>4
      <4>2. d[k] = read(m) /\ ~d[k].bad /\ d[k + 1] = last
        BY <1>2, <1>3, <3>1, <3>4, <4>1
      <4>3. v[k + 1].b = "LF"
        BY <3>1, <3>4
      <4> HIDE DEF read
      <4> QED BY <1>l, <4>2, <4>3
    <3> QED BY <3>2, <3>3, <3>4
  <2>2. d[0] = c
    <3>0. 0 \in 0..m /\ 0 < LineCap
      BY <1>0
    <3>1. d[0] = read(0)
      <4> HIDE DEF read
      <4> QED BY <1>3, <3>0
    <3>2. SubSeq(text, 1, 0) = <<>>
      BY SubSeqEmpty
    <3> QED BY <3>1, <3>2 DEF Decoder
  <2>3. Len(v) \in Nat
    OBVIOUS
  <2> QED BY <2>1, <2>2, <2>3, DecodingSteps
<1>x. PICK line_ : line_ = SubSeq(text, 1, m)
  OBVIOUS
<1>7. LeadingDigits(line_) = ds
  <2>0. m \in 0..Len(text)
    OBVIOUS
  <2>1. line_ \in Seq(HeadByte) /\ Len(line_) = m /\ \A i \in 1..m : line_[i] = text[i]
    BY <1>x, <2>0, PrefixFacts
  <2>2. Len(ds) \in 0..Len(line_) /\ Len(ds) + 1 \in 1..m /\ \A i \in 1..Len(ds) : i \in 1..m
    BY <1>0, <2>1
  <2>3. /\ \A i \in 1..Len(ds) : line_[i] = ds[i] /\ ds[i] \in Digit
        /\ line_[Len(ds) + 1] \notin Digit
    BY <2>1, <2>2, ElementOfSeq
  <2>4. LeadingDigits(line_) = SubSeq(line_, 1, Len(ds))
    BY <2>1, <2>2, <2>3, LeadingIs
  <2>5. /\ SubSeq(line_, 1, Len(ds)) \in Seq(HeadByte)
        /\ Len(SubSeq(line_, 1, Len(ds))) = Len(ds)
        /\ \A i \in 1..Len(ds) : SubSeq(line_, 1, Len(ds))[i] = line_[i]
    BY <2>1, <2>2, PrefixFacts
  <2>6. ds \in Seq(HeadByte)
    BY DigitFacts
  <2> QED BY <2>3, <2>4, <2>5, <2>6, SeqEqual
<1>8. ds # <<>>
  BY EmptyFacts
<1>s. PICK sz : sz = Size(line_)
  OBVIOUS
<1>9. /\ TrueValue(ds) \in Nat /\ (sz.over <=> TrueValue(ds) >= Width)
      /\ ~sz.over => sz.v = TrueValue(ds)
  BY <1>7, <1>s, SizeOfDigits DEF Size
<1>10. last = IF sz.over THEN Reject(read(m))
              ELSE [read(m) EXCEPT !.line = <<>>, !.rem = sz.v,
                                   !.at = IF sz.v = 0 THEN "trailers" ELSE "data",
                                   !.start = TRUE, !.cr = FALSE]
  <2>r. PICK r : r = read(m)
    OBVIOUS
  <2>1. r.at = "size" /\ r.line = line_
    BY <1>2, <1>x, <2>r
  <2>2. last = SizeLine(r, "LF")
    BY <1>l, <2>1, <2>r DEF DecodeByte
  <2>3. Size(r.line) = sz /\ LeadingDigits(r.line) # <<>>
    BY <1>7, <1>8, <1>s, <2>1
  <2>4. last = IF sz.over THEN Reject(r)
              ELSE [r EXCEPT !.line = <<>>, !.rem = sz.v,
                             !.at = IF sz.v = 0 THEN "trailers" ELSE "data",
                             !.start = TRUE, !.cr = FALSE]
    BY <2>2, <2>3 DEF SizeLine
  <2> QED BY <2>4, <2>r
<1>11. /\ sz.over => last.bad
       /\ ~last.done
       /\ ~sz.over => /\ ~last.bad /\ last.line = <<>> /\ last.rem = sz.v
                      /\ last.at = IF sz.v = 0 THEN "trailers" ELSE "data"
                      /\ last.start /\ ~last.cr
  BY <1>10 DEF Reject, Decoder
<1>12. /\ \A k \in 0..(m + 1) : ~d[k].done
       /\ \A k \in 0..m : d[k].at = "size"
       /\ LineCap <= m => d[m + 1].bad
       /\ ~(LineCap <= m) => \A k \in 0..m : ~d[k].bad
  <2>1. ASSUME NEW k \in 0..m
        PROVE  ~d[k].done /\ d[k].at = "size" /\ (~(LineCap <= m) => ~d[k].bad)
    <3>1. CASE k < LineCap
      BY <1>2, <1>3, <3>1
    <3>2. CASE ~(k < LineCap)
      <4>1. LineCap <= m /\ k \in LineCap..(m + 1)
        BY <1>0, <3>2
      <4> QED BY <1>3, <1>5, <4>1
    <3> QED BY <3>1, <3>2
  <2>2. ~d[m + 1].done /\ (LineCap <= m => d[m + 1].bad)
    <3>1. LineCap <= m => m + 1 \in LineCap..(m + 1)
      BY <1>0
    <3> QED BY <1>3, <1>5, <1>11, <3>1
  <2>3. \A k \in 0..(m + 1) : k \in 0..m \/ k = m + 1
    OBVIOUS
  <2> QED BY <2>1, <2>2, <2>3
<1>13. IF TrueValue(ds) >= Width \/ m >= LineCap THEN d[m + 1].bad
       ELSE /\ \A k \in 0..(m + 1) : ~d[k].bad
            /\ d[m + 1].line = <<>> /\ d[m + 1].rem = TrueValue(ds)
            /\ d[m + 1].at = IF TrueValue(ds) = 0 THEN "trailers" ELSE "data"
            /\ d[m + 1].start /\ ~d[m + 1].cr
  <2>1. CASE LineCap <= m
    <3>1. m >= LineCap
      BY <1>0, <2>1
    <3> QED BY <1>12, <2>1, <3>1
  <2>2. CASE ~(LineCap <= m)
    <3>1. ~(m >= LineCap) /\ d[m + 1] = last
      BY <1>0, <1>3, <2>2
    <3>2. \A k \in 0..(m + 1) : k \in 0..m \/ k = m + 1
      OBVIOUS
    <3>3. ASSUME ~last.bad, NEW k \in 0..(m + 1) PROVE ~d[k].bad
      BY <1>12, <2>2, <3>1, <3>2, <3>3
    <3>4. CASE sz.over
      BY <1>9, <1>11, <3>1, <3>4
    <3>5. CASE ~sz.over
      BY <1>9, <1>11, <3>1, <3>3, <3>5
    <3> QED BY <3>4, <3>5
  <2> QED BY <2>1, <2>2
<1> QED
  BY <1>6, <1>12, <1>13 DEF ReadsSize

\* A chunk's size: the receiver is in front of its data, or rejects it.
LEMMA SizeGoesOn ==
  ASSUME NEW t \in State, NEW s \in Server, NEW z \in Seq(HeadByte),
         Good(t, <<>>, s, z), AtEnd(t, s, z), ServerInv(s, z), s.at = "size", ~s.unfit,
         NEW ds \in Seq(Digit), Len(ds) > 0,
         NEW ext \in Seq(HeadByte), \A k \in 1..Len(ext) : ext[k] = "x"
  PROVE  GoesOn(t, Marked("size", ds \o ext \o CRLF), <<>>, s,
                [s EXCEPT !.at = IF TrueValue(ds) = 0 THEN "trailers" ELSE "data",
                          !.left = TrueValue(ds),
                          !.unfit = TrueValue(ds) >= Width
                                    \/ Len(ds) + Len(ext) + 1 >= LineCap], z)
<1>p. PICK core : core = ds \o ext
  OBVIOUS
<1>x. PICK text : text = core \o CRLF
  OBVIOUS
<1>v. PICK v : v = Marked("size", text)
  OBVIOUS
<1>m. PICK m : m = Len(ds) + Len(ext) + 1
  OBVIOUS
<1>u. PICK u \in BOOLEAN : u <=> TrueValue(ds) >= Width \/ m >= LineCap
  OBVIOUS
<1>2. PICK s2 : s2 = [s EXCEPT !.at = IF TrueValue(ds) = 0 THEN "trailers" ELSE "data",
                               !.left = TrueValue(ds), !.unfit = u]
  OBVIOUS
<1>y. ds \in Seq(HeadByte) /\ TrueValue(ds) \in Nat
  BY DigitFacts, SizeOfDigits
<1>0. /\ core \in Seq(HeadByte) /\ Len(core) = Len(ds) + Len(ext)
      /\ Len(ds) \in Nat /\ Len(ext) \in Nat
      /\ \A k \in 1..Len(ds) : core[k] = ds[k]
      /\ \A k \in 1..Len(ext) : core[Len(ds) + k] = ext[k]
  BY <1>p, <1>y, CatFacts
<1>1. /\ text \in Seq(HeadByte) /\ Len(text) = Len(core) + 2
      /\ \A k \in 1..Len(core) : text[k] = core[k]
      /\ text[Len(core) + 1] = "CR" /\ text[Len(core) + 2] = "LF"
  BY <1>0, <1>x, LineFacts
<1>3. m \in Nat /\ Len(core) + 1 = m /\ Len(core) + 2 = m + 1 /\ Len(ds) < m
  BY <1>0, <1>m
<1>4. ASSUME NEW k \in 1..Len(core) PROVE text[k] \in Digit \cup {"x"}
  <2>1. CASE k <= Len(ds)
    <3>1. k \in 1..Len(ds) /\ text[k] = core[k]
      BY <1>0, <1>1, <2>1
    <3> QED BY <1>0, <3>1, ElementOfSeq
  <2>2. CASE ~(k <= Len(ds))
    <3>j. PICK j : j = k - Len(ds)
      OBVIOUS
    <3>1. j \in 1..Len(ext) /\ k = Len(ds) + j /\ text[k] = core[k]
      BY <1>0, <1>1, <2>2, <3>j
    <3> QED BY <1>0, <3>1
  <2> QED BY <2>1, <2>2
<1>5. ASSUME NEW k \in 1..m PROVE text[k] # "LF"
  <2>1. k \in 1..Len(core) \/ k = Len(core) + 1
    BY <1>0, <1>3
  <2> QED BY <1>1, <1>4, <2>1, NotDigits
<1>6. text[Len(ds) + 1] \notin Digit
  <2>1. CASE Len(ext) = 0
    <3>1. Len(ds) = Len(core)
      BY <1>0, <2>1
    <3>2. text[Len(ds) + 1] = "CR"
      BY <1>1, <3>1
    <3>3. "CR" \notin Digit
      BY NotDigits
    <3> QED BY <3>2, <3>3
  <2>2. CASE Len(ext) # 0
    <3>1. 1 \in 1..Len(ext) /\ Len(ds) + 1 \in 1..Len(core)
      BY <1>0, <2>2
    <3>2. text[Len(ds) + 1] = "x"
      BY <1>0, <1>1, <3>1
    <3> QED BY <3>2, NotDigits
  <2> QED BY <2>1, <2>2
<1>7. \A k \in 1..Len(ds) : text[k] = ds[k]
  <2>1. \A k \in 1..Len(ds) : k \in 1..Len(core)
    BY <1>0
  <2> QED BY <1>0, <1>1, <2>1
<1>8. Len(v) = m + 1 /\ \A k \in 1..(m + 1) : v[k].b = text[k]
  <2>1. "size" \in Part
    BY DEF Part
  <2> QED BY <1>1, <1>3, <1>v, <2>1, MarkedFacts
<1>9. /\ s2.framing = "chunked" /\ s.framing = "chunked" /\ s2.len = s.len
      /\ s2.at = IF TrueValue(ds) = 0 THEN "trailers" ELSE "data"
      /\ s2.left = TrueValue(ds) /\ (s2.unfit <=> u)
      /\ ~InHead(s) /\ ~InHead(s2) /\ ~Ended(s) /\ ~Ended(s2)
  BY <1>2 DEF Server, ServerInv, InHead, Ended
<1>10. ServerInv(s2, z)
  BY <1>9, <1>y DEF ServerInv
<1>11. ASSUME ~Idle(t)
       PROVE  \E d :
            /\ Decoding(d, t.rx.dec, v)
            /\ \A k \in 0..(m + 1) : /\ d[k].bad => s2.unfit
                                     /\ d[k].done <=> Ended(s2) /\ k = m + 1
            /\ \A k \in 0..((m + 1) - 1) : d[k].at # "data"
            /\ IF s2.unfit THEN d[m + 1].bad ELSE DecoderAt(d[m + 1], s2)
  <2>c. PICK c : c = t.rx.dec
    OBVIOUS
  <2>1. c \in Decoder /\ ~c.bad /\ ~c.done /\ c.at = "size" /\ c.line = <<>>
    BY <1>9, <1>11, <2>c, Ready DEF DecoderAt
  <2>2. PICK d : ReadsSize(d, c, v, m, TrueValue(ds))
    <3>1. Len(text) = m + 1 /\ text[m + 1] = "LF" /\ text \in Seq(HeadByte)
      BY <1>1, <1>3
    <3>2. \A k \in 1..m : text[k] # "LF"
      BY <1>5
    <3>3. Len(v) = m + 1 /\ (\A k \in 1..(m + 1) : v[k].b = text[k])
      BY <1>8
    <3>4. m \in Nat /\ Len(ds) < m
      BY <1>3
    <3> QED BY <1>6, <1>7, <2>1, <3>1, <3>2, <3>3, <3>4, SizeDecodes
  <2>3. m + 1 \in 0..(m + 1) /\ (m + 1) - 1 = m
    BY <1>3
  <2>4. CASE u
    BY <1>9, <1>u, <2>2, <2>3, <2>4, <2>c DEF ReadsSize
  <2>5. CASE ~u
    <3>1. DecoderAt(d[m + 1], s2)
      BY <1>9, <1>u, <2>2, <2>3, <2>5 DEF DecoderAt, ReadsSize
    <3> QED BY <1>9, <1>u, <2>2, <2>3, <2>5, <2>c, <3>1 DEF ReadsSize
  <2> QED BY <2>4, <2>5
<1>12. GoesOn(t, v, <<>>, s, s2, z)
  <2>1. Len(text) = m + 1 /\ Len(text) > 0
    BY <1>0, <1>1, <1>3
  <2> QED BY <1>1, <1>9, <1>10, <1>11, <1>v, <2>1, PieceGoesOn
<1>13. s2 = [s EXCEPT !.at = IF TrueValue(ds) = 0 THEN "trailers" ELSE "data",
                      !.left = TrueValue(ds),
                      !.unfit = TrueValue(ds) >= Width \/ m >= LineCap]
  BY <1>2, <1>u
<1> QED
  BY <1>12, <1>13, <1>m, <1>p, <1>v, <1>x

-----------------------------------------------------------------------------
\* A chunk's data, and the end of the line after them.
LEMMA DataGoesOn ==
  ASSUME NEW t \in State, NEW s \in Server, NEW z \in Seq(HeadByte),
         Good(t, <<>>, s, z), AtEnd(t, s, z), ServerInv(s, z), s.at = "data", ~s.unfit,
         NEW ds \in Seq(HeadByte), Len(ds) = s.left
  PROVE  GoesOn(t, Marked("data", ds) \o Marked("size", CRLF), ds, s,
                [s EXCEPT !.at = "size", !.left = 0], z)
<1>m. PICK m : m = Len(ds)
  OBVIOUS
<1>v. PICK v : v = Marked("data", ds) \o Marked("size", CRLF)
  OBVIOUS
<1>2. PICK s2 : s2 = [s EXCEPT !.at = "size", !.left = 0]
  OBVIOUS
<1>3. /\ s2.at = "size" /\ s2.framing = "chunked" /\ s.framing = "chunked" /\ s2.len = s.len
      /\ ~s2.unfit /\ ~InHead(s) /\ ~InHead(s2) /\ ~Ended(s) /\ ~Ended(s2)
  BY <1>2 DEF Server, ServerInv, InHead, Ended
<1>0. m \in Nat /\ m > 0 /\ m = s.left /\ m = Len(ds)
  BY <1>m, LenProperties DEF ServerInv
<1>1. /\ v \in Seq(Item) /\ Len(v) = m + 2
      /\ \A k \in 1..m : v[k].part = "data" /\ v[k].b = ds[k]
      /\ v[m + 1].part = "size" /\ v[m + 1].b = "CR"
      /\ v[m + 2].part = "size" /\ v[m + 2].b = "LF"
  <2>p. "data" \in Part /\ "size" \in Part
    BY DEF Part
  <2>x. PICK x : x = Marked("data", ds)
    OBVIOUS
  <2>y. PICK y : y = Marked("size", CRLF)
    OBVIOUS
  <2>1. /\ x \in Seq(Item) /\ Len(x) = m
        /\ \A k \in 1..m : x[k].part = "data" /\ x[k].b = ds[k]
    BY <1>0, <2>p, <2>x, MarkedFacts
  <2>2. /\ y \in Seq(Item) /\ Len(y) = 2 /\ y[1].part = "size" /\ y[1].b = "CR"
        /\ y[2].part = "size" /\ y[2].b = "LF"
    <3>c. PICK crlf : crlf = CRLF
      OBVIOUS
    <3>0. crlf \in Seq(HeadByte) /\ Len(crlf) = 2 /\ crlf[1] = "CR" /\ crlf[2] = "LF"
      BY <3>c, CRLFFacts
    <3>1. /\ y \in Seq(Item) /\ Len(y) = Len(crlf)
          /\ \A k \in 1..Len(crlf) : y[k].part = "size" /\ y[k].b = crlf[k]
      <4>1. y = Marked("size", crlf)
        BY <2>y, <3>c
      <4>2. crlf \in Seq(HeadByte) /\ "size" \in Part
        BY <2>p, <3>0
      <4>3. /\ Marked("size", crlf) \in Seq(Item) /\ Len(Marked("size", crlf)) = Len(crlf)
            /\ \A k \in 1..Len(crlf) : /\ Marked("size", crlf)[k].part = "size"
                                       /\ Marked("size", crlf)[k].b = crlf[k]
        BY <4>2, MarkedFacts
      <4> QED BY <4>1, <4>3
    <3>2. 1 \in 1..Len(crlf) /\ 2 \in 1..Len(crlf)
      BY <3>0
    <3> QED BY <3>0, <3>1, <3>2
  <2>3. /\ v \in Seq(Item) /\ Len(v) = Len(x) + Len(y)
        /\ \A k \in 1..Len(x) : v[k] = x[k]
        /\ \A k \in 1..Len(y) : v[Len(x) + k] = y[k]
    <3>1. v = x \o y
      BY <1>v, <2>x, <2>y
    <3>2. x \in Seq(Item) /\ y \in Seq(Item)
      BY <2>1, <2>2
    <3>3. /\ x \o y \in Seq(Item) /\ Len(x \o y) = Len(x) + Len(y)
          /\ \A k \in 1..Len(x) : (x \o y)[k] = x[k]
          /\ \A k \in 1..Len(y) : (x \o y)[Len(x) + k] = y[k]
      BY <3>2, CatFacts
    <3> QED BY <3>1, <3>3
  <2>4. 1 \in 1..Len(y) /\ 2 \in 1..Len(y)
    BY <2>2
  <2> QED BY <2>1, <2>2, <2>3, <2>4
<1>4. DataFirst(v, ds)
  <2>1. ASSUME NEW k \in 1..Len(v) PROVE v[k].part = "data" <=> k <= Len(ds)
    <3>1. k \in 1..m \/ k = m + 1 \/ k = m + 2
      BY <1>0, <1>1
    <3>2. CASE k \in 1..m
      BY <1>0, <1>1, <3>2
    <3>3. CASE k = m + 1 \/ k = m + 2
      BY <1>0, <1>1, <3>3
    <3> QED BY <3>1, <3>2, <3>3
  <2> QED BY <1>0, <1>1, <2>1 DEF DataFirst
<1>5. Kept(s, z, v, s2, z \o ds)
  <2>1. Len(v) > 0 /\ v[1].part # "next" /\ 1 \in 1..m
    BY <1>0, <1>1
  <2> QED BY <1>1, <1>3, <1>4, <2>1, PieceKept
<1>6. Sends(s, z, v, ds, s2)
  BY <1>3, <1>4, <1>5 DEF Sends
<1>7. ServerInv(s2, z \o ds)
  BY <1>3 DEF ServerInv
<1>8. \E g : GoodPath(g, t, v, s2, z \o ds)
  <2>1. CASE Idle(t)
    BY <1>1, <1>6, <2>1, IdleGoesOn
  <2>2. CASE ~Idle(t)
    <3>c. PICK c : c = t.rx.dec
      OBVIOUS
    <3>1. /\ t.rx.result = "reading" /\ t.rx.ended /\ Decodes(t.rx)
          /\ c \in Decoder /\ ~c.bad /\ ~c.done /\ c.at = "data" /\ c.rem = m /\ c.line = <<>>
      BY <1>0, <1>3, <2>2, <3>c, Ready DEF DecoderAt
    <3>r. PICK r : r = [k \in 0..m |-> [c EXCEPT !.rem = m - k]]
      OBVIOUS
    <3>a. PICK a : a = [c EXCEPT !.rem = 0, !.at = "lf"]
      OBVIOUS
    <3>b. PICK b : b = [c EXCEPT !.rem = 0, !.at = "size"]
      OBVIOUS
    <3>d. PICK d : d = [k \in 0..(m + 2) |-> IF k <= m THEN r[k]
                                             ELSE IF k = m + 1 THEN a ELSE b]
      OBVIOUS
    <3>2. (\A k \in 0..m : d[k] = r[k]) /\ d[m + 1] = a /\ d[m + 2] = b
      BY <1>0, <3>d
    <3>3. ASSUME NEW k \in 0..m
          PROVE  /\ r[k].at = "data" /\ r[k].rem = m - k /\ ~r[k].bad /\ ~r[k].done
                 /\ r[k] = [c EXCEPT !.rem = m - k]
      BY <3>1, <3>r DEF Decoder
    <3>4. /\ ~a.bad /\ ~a.done /\ a.at = "lf"
          /\ ~b.bad /\ ~b.done /\ b.at = "size" /\ b.line = <<>>
      BY <3>1, <3>a, <3>b DEF Decoder
    <3>5. ASSUME NEW k \in 0..(m - 1), NEW y PROVE DecodeByte(r[k], y) = r[k + 1]
      <4>1. k \in 0..m /\ k + 1 \in 0..m /\ m - k # 0 /\ (m - k) - 1 = m - (k + 1)
        BY <1>0
      <4>p. PICK p : p = r[k]
        OBVIOUS
      <4>2. p.at = "data" /\ p.rem = m - k /\ p = [c EXCEPT !.rem = m - k]
        BY <3>3, <4>1, <4>p
      <4>3. DecodeByte(p, y) = [p EXCEPT !.rem = @ - 1]
        BY <4>1, <4>2 DEF DecodeByte, Data
      <4>4. [p EXCEPT !.rem = @ - 1] = [p EXCEPT !.rem = m - (k + 1)]
        BY <4>1, <4>2
      <4>5. [p EXCEPT !.rem = m - (k + 1)] = [c EXCEPT !.rem = m - (k + 1)]
        BY <3>1, <4>2 DEF Decoder
      <4>6. r[k + 1] = [c EXCEPT !.rem = m - (k + 1)]
        BY <3>3, <4>1
      <4> QED BY <4>3, <4>4, <4>5, <4>6, <4>p
    <3>6. DecodeByte(r[m], "CR") = a
      <4>1. m \in 0..m /\ m - m = 0
        BY <1>0
      <4>p. PICK p : p = r[m]
        OBVIOUS
      <4>2. p.at = "data" /\ p.rem = 0 /\ p = [c EXCEPT !.rem = 0]
        BY <3>3, <4>1, <4>p
      <4>3. DecodeByte(p, "CR") = [p EXCEPT !.at = "lf"]
        BY <4>2 DEF DecodeByte, Data, AfterData
      <4> QED BY <3>1, <3>a, <4>2, <4>3, <4>p DEF Decoder
    <3>7. DecodeByte(a, "LF") = b
      <4>1. DecodeByte(a, "LF") = [a EXCEPT !.at = "size"]
        BY <3>4 DEF DecodeByte, AfterCr
      <4> QED BY <3>1, <3>a, <3>b, <4>1 DEF Decoder
    <3>8. Decoding(d, c, v)
      <4>1. ASSUME NEW k \in 0..(Len(v) - 1)
            PROVE  ~d[k].bad /\ d[k + 1] = DecodeByte(d[k], v[k + 1].b)
        <5>0. Len(v) = m + 2 /\ m \in Nat
          BY <1>0, <1>1
        <5>1. k \in 0..(m - 1) \/ k = m \/ k = m + 1
          <6>1. k \in 0..(m + 1)
            BY <5>0
          <6> QED BY <5>0, <6>1
        <5>2. CASE k \in 0..(m - 1)
          <6>1. k \in 0..m /\ k + 1 \in 0..m
            BY <1>0, <5>2
          <6> QED BY <3>2, <3>3, <3>5, <5>2, <6>1
        <5>3. CASE k = m
          <6>1. m \in 0..m /\ k + 1 = m + 1
            BY <1>0, <5>3
          <6> QED BY <1>1, <3>2, <3>3, <3>6, <5>3, <6>1
        <5>4. CASE k = m + 1
          <6>1. k + 1 = m + 2
            BY <1>0, <5>4
          <6> QED BY <1>1, <3>2, <3>4, <3>7, <5>4, <6>1
        <5> QED BY <5>1, <5>2, <5>3, <5>4
      <4>2. d[0] = c
        <5>1. 0 \in 0..m /\ m - 0 = m
          BY <1>0
        <5>2. r[0] = [c EXCEPT !.rem = m]
          BY <3>3, <5>1
        <5> QED BY <3>1, <3>2, <5>1, <5>2 DEF Decoder
      <4>3. Len(v) \in Nat
        BY <1>0, <1>1
      <4> QED BY <4>1, <4>2, <4>3, DecodingSteps
    <3>9. ASSUME NEW k \in 0..Len(v) PROVE ~d[k].bad /\ ~d[k].done
      <4>0. Len(v) = m + 2 /\ m \in Nat
        BY <1>0, <1>1
      <4>1. k \in 0..m \/ k = m + 1 \/ k = m + 2
        <5>1. k \in 0..(m + 2)
          BY <4>0
        <5> QED BY <4>0, <5>1
      <4> QED BY <3>2, <3>3, <3>4, <4>1
    <3>10. ASSUME NEW k \in 1..Len(v)
           PROVE  d[k - 1].at = "data" /\ d[k - 1].rem > 0 <=> k <= Len(ds)
      <4>j. PICK j : j = k - 1
        OBVIOUS
      <4>1. j \in 0..(m - 1) \/ j = m \/ j = m + 1
        BY <1>0, <1>1, <4>j
      <4>2. CASE j \in 0..(m - 1)
        <5>1. j \in 0..m /\ m - j > 0 /\ k <= Len(ds)
          BY <1>0, <4>2, <4>j
        <5>2. d[j].at = "data" /\ d[j].rem = m - j
          BY <3>2, <3>3, <5>1
        <5> QED BY <4>j, <5>1, <5>2
      <4>3. CASE j = m
        <5>1. m \in 0..m /\ m - m = 0 /\ ~(k <= Len(ds))
          BY <1>0, <4>3, <4>j
        <5>2. d[m].rem = 0
          BY <3>2, <3>3, <5>1
        <5> QED BY <4>3, <4>j, <5>1, <5>2
      <4>4. CASE j = m + 1
        <5>1. ~(k <= Len(ds))
          BY <1>0, <4>4, <4>j
        <5>2. d[m + 1].at = "lf"
          BY <3>2, <3>4
        <5> QED BY <4>4, <4>j, <5>1, <5>2
      <4> QED BY <4>1, <4>2, <4>3, <4>4
    <3>11. DecoderAt(d[m + 2], s2)
      BY <1>3, <3>2, <3>4 DEF DecoderAt
    <3>12. \A k \in 1..Len(v) : v[k].part # "next"
      <4> SUFFICES ASSUME NEW k \in 1..Len(v) PROVE v[k].part # "next"
        OBVIOUS
      <4>1. k \in 1..m \/ k = m + 1 \/ k = m + 2
        BY <1>0, <1>1
      <4> QED BY <1>1, <4>1
    <3>13. /\ Decoding(d, t.rx.dec, v) /\ ~d[0].bad
           /\ \A k \in 0..Len(v) : d[k].bad => s2.unfit
           /\ \A k \in 0..Len(v) : d[k].done <=> Ended(s2) /\ k = Len(v)
           /\ \A k \in 1..Len(v) : ~d[k - 1].bad =>
                (d[k - 1].at = "data" /\ d[k - 1].rem > 0 <=> k <= Len(ds))
      <4>1. 0 \in 0..Len(v)
        BY <1>0, <1>1
      <4> QED BY <1>3, <3>8, <3>9, <3>10, <3>c, <4>1
    <3>14. \A k \in 1..Len(v) : d[k - 1].bad => ~(k <= Len(ds))
      <4> SUFFICES ASSUME NEW k \in 1..Len(v) PROVE ~d[k - 1].bad
        OBVIOUS
      <4>1. k - 1 \in 0..Len(v)
        BY <1>0, <1>1
      <4> QED BY <3>9, <4>1
    <3>15. IF s2.unfit THEN d[Len(v)].bad ELSE DecoderAt(d[Len(v)], s2)
      BY <1>1, <1>3, <3>11
    <3> QED
      BY <1>1, <1>3, <1>6, <3>1, <3>12, <3>13, <3>14, <3>15, DecoderGoesOn
  <2> QED BY <2>1, <2>2
<1>9. GoesOn(t, v, ds, s, s2, z)
  BY <1>1, <1>5, <1>7, <1>8 DEF GoesOn
<1> QED
  BY <1>2, <1>9, <1>v

-----------------------------------------------------------------------------
\* The first byte of the next response: nobody looks at it.
LEMMA NextGoesOn ==
  ASSUME NEW t \in State, NEW s \in Server, NEW z \in Seq(HeadByte), NEW b \in HeadByte,
         Good(t, <<>>, s, z), AtEnd(t, s, z), ServerInv(s, z), s.at = "next"
  PROVE  GoesOn(t, Marked("next", <<b>>), <<>>, s, [s EXCEPT !.at = "end"], z)
<1>w. PICK bytes : bytes = <<b>>
  OBVIOUS
<1>v. PICK v : v = Marked("next", bytes)
  OBVIOUS
<1>2. PICK s2 : s2 = [s EXCEPT !.at = "end"]
  OBVIOUS
<1>3. /\ s2.at = "end" /\ s2.framing = s.framing /\ s2.len = s.len /\ s2.left = s.left
      /\ (s2.unfit <=> s.unfit) /\ ~InHead(s) /\ ~InHead(s2) /\ Ended(s) /\ Ended(s2)
      /\ s.framing \in {"none", "length", "chunked"}
  BY <1>2 DEF Server, InHead, Ended
<1>1. v \in Seq(Item) /\ Len(v) = 1 /\ v[1].part = "next"
  <2>1. bytes \in Seq(HeadByte) /\ Len(bytes) = 1 /\ 1 \in 1..1
    BY <1>w
  <2>2. "next" \in Part
    BY DEF Part
  <2>3. /\ Marked("next", bytes) \in Seq(Item) /\ Len(Marked("next", bytes)) = Len(bytes)
        /\ \A k \in 1..Len(bytes) : Marked("next", bytes)[k].part = "next"
    BY <2>1, <2>2, MarkedFacts
  <2> QED BY <1>v, <2>1, <2>3
<1>e. <<>> \in Seq(HeadByte) /\ z \o <<>> = z /\ Len(<<>>) = 0 /\ Len(z) \in Nat
  BY ConcatEmptySeq, LenProperties
<1>4. DataFirst(v, <<>>)
  <2>1. ASSUME NEW k \in 1..Len(v) PROVE v[k].part = "data" <=> k <= Len(<<>>)
    <3>1. k = 1 /\ ~(k <= 0)
      BY <1>1
    <3> QED BY <1>1, <1>e, <3>1
  <2> QED BY <1>1, <1>e, <2>1 DEF DataFirst
<1>5. \A n \in 0..1 : OnlyNext(After(v, n)) /\ Got(After(v, n), z) = Len(z)
  <2>1. After(v, 0) = v /\ After(v, 1) = <<>>
    BY <1>1, AfterEnds
  <2>2. OnlyNext(v)
    <3>1. DOMAIN v = 1..1
      BY <1>1, LenProperties
    <3> QED BY <1>1, <3>1 DEF OnlyNext
  <2>3. Got(v, z) = Len(z)
    <3>1. Count(v, "data") = 0
      BY <1>1, <1>4, <1>e, GotAfter
    <3> QED BY <1>e, <3>1 DEF Got
  <2>4. OnlyNext(<<>>) /\ Got(<<>>, z) = Len(z)
    BY EmptyFacts
  <2>5. \A n \in 0..1 : n = 0 \/ n = 1
    OBVIOUS
  <2> QED BY <2>1, <2>2, <2>3, <2>4, <2>5
<1>6. Kept(s, z, v, s2, z \o <<>>)
  <2>1. Count(v, "data") = Len(<<>>)
    BY <1>1, <1>4, <1>e, GotAfter
  <2>2. OnlyNext(v)
    BY <1>1, <1>5, AfterEnds
  <2> QED BY <1>3, <1>e, <2>1, <2>2 DEF Kept
<1>7. Sends(s, z, v, <<>>, s2)
  BY <1>3, <1>4, <1>6 DEF Sends
<1>8. ServerInv(s2, z)
  BY <1>3 DEF ServerInv
<1>9. \E g : GoodPath(g, t, v, s2, z \o <<>>)
  <2>1. CASE Idle(t)
    BY <1>1, <1>7, <1>e, <2>1, IdleGoesOn
  <2>2. CASE ~Idle(t)
    <3>g. PICK g : g = [n \in 0..1 |-> t]
      OBVIOUS
    <3>1. g[0] = t /\ g[1] = t
      BY <3>g
    <3>2. /\ ~s.unfit /\ t.rx.result = "reading" /\ t.rx.ended
          /\ (t.rx.chunked <=> s.framing = "chunked") /\ t.rx.len = s.len
          /\ t.body = IF t.rx.kind = "keep" /\ s.framing = "none" THEN <<>>
                      ELSE SubSeq(z, 1, Least(Len(z), t.rx.cap))
          /\ t.rx.kind = "keep" => Complete(t.rx)
          /\ s.framing # "none"
          /\ Decodes(t.rx) => DecoderAt(t.rx.dec, s)
      BY <1>3, <2>2, EmptyFacts DEF AtEnd, Good, Idle, ServerInv
    <3>3. t.rx.kind \in {"keep", "once"} /\ t.rx.cap \in Nat /\ t = [rx |-> t.rx, body |-> t.body]
      BY DEF State, Receiver
    <3>4. Take(t, v[1].b) = t
      <4>1. CASE t.rx.kind = "keep"
        BY <3>2, <4>1 DEF Take, Stopped
      <4>2. CASE t.rx.kind = "once" /\ t.rx.chunked
        <5>1. ~(Decodes(t.rx) /\ ~t.rx.dec.done) /\ ~Stopped(t)
          BY <1>3, <3>2, <4>2 DEF DecoderAt, Stopped
        <5> QED BY <3>2, <4>2, <5>1 DEF Take
      <4>3. CASE t.rx.kind = "once" /\ ~t.rx.chunked
        <5>1. ~Decodes(t.rx) /\ ~Stopped(t)
          BY <3>2, <4>3 DEF Decodes, Stopped
        <5>2. s.framing = "length" /\ s.left = 0
          BY <1>3, <3>2, <4>3 DEF ServerInv
        <5>3. t.rx.len = Len(z) /\ t.rx.len # NoLen
          <6>1. Len(z) + s.left = s.len
            BY <1>3, <5>2 DEF ServerInv
          <6> QED BY <1>e, <3>2, <5>2, <6>1 DEF NoLen
        <5>4. Want(t.rx) = Least(Len(z), t.rx.cap) /\ Want(t.rx) \in 0..Len(z)
          BY <1>e, <3>3, <5>3 DEF Want, Least
        <5>5. Len(t.body) = Want(t.rx)
          <6>1. t.body = SubSeq(z, 1, Want(t.rx))
            BY <3>2, <5>4
          <6> QED BY <5>4, <6>1, PrefixFacts
        <5>6. Store(t.body, v[1].b, Want(t.rx)) = t.body
          BY <5>4, <5>5 DEF Store
        <5> QED BY <3>2, <3>3, <4>3, <5>1, <5>6 DEF Take
      <4> QED BY <3>3, <4>1, <4>2, <4>3
    <3>5. Path(g, t, v)
      BY <1>1, <3>1, <3>4 DEF Path
    <3>6. ASSUME NEW n \in 0..1 PROVE Good(t, After(v, n), s2, z)
      <4>x. PICK x : x = After(v, n)
        OBVIOUS
      <4>1. OnlyNext(x) /\ Got(x, z) = Len(z) /\ Len(z) \in 0..Len(z)
        BY <1>5, <1>e, <4>x
      <4>2. Good(t, x, s2, z)
        BY <1>3, <3>2, <4>1 DEF Good
      <4> QED BY <4>2, <4>x
    <3>7. AtEnd(t, s2, z)
      <4>1. s2.at # "status" /\ s2.at # "fields"
        BY <1>3
      <4>2. Decodes(t.rx) => DecoderAt(t.rx.dec, s2)
        BY <1>3, <3>2 DEF DecoderAt
      <4>3. t.rx.kind = "keep" /\ s.framing = "length" => t.rx.total = Len(z)
        BY <1>3, <3>2 DEF AtEnd
      <4> QED BY <1>3, <3>2, <4>1, <4>2, <4>3 DEF AtEnd
    <3>8. \A n \in 0..1 : g[n] = t
      BY <3>g
    <3>9. GoodPath(g, t, v, s2, z)
      BY <1>1, <3>1, <3>5, <3>6, <3>7, <3>8 DEF GoodPath
    <3> QED BY <1>e, <3>9
  <2> QED BY <2>1, <2>2
<1>10. GoesOn(t, v, <<>>, s, s2, z)
  BY <1>1, <1>6, <1>8, <1>9, <1>e DEF GoesOn
<1> QED
  BY <1>2, <1>10, <1>v, <1>w

-----------------------------------------------------------------------------
(***************************************************************************)
(* A body that is not chunked.                                             *)
(***************************************************************************)
\* What is left of bytes none of which belongs to the next response.
LEMMA OnlyNextAfter ==
  ASSUME NEW v \in Seq(Item), \A k \in 1..Len(v) : v[k].part # "next", NEW n \in 0..Len(v)
  PROVE  OnlyNext(After(v, n)) <=> n = Len(v)
<1>x. PICK x : x = After(v, n)
  OBVIOUS
<1>0. Len(v) \in Nat
  BY LenProperties
<1>1. CASE n = Len(v)
  BY <1>1, AfterEnds, EmptyFacts
<1>2. CASE n # Len(v)
  <2>1. /\ x \in Seq(Item) /\ Len(x) = Len(v) - n
        /\ \A i \in 1..(Len(v) - n) : x[i] = v[n + i]
    BY <1>x, AfterFacts
  <2>2. 1 \in 1..(Len(v) - n) /\ n + 1 \in 1..Len(v)
    BY <1>0, <1>2
  <2>3. 1 \in DOMAIN x /\ x[1] = v[n + 1]
    BY <2>1, <2>2, LenProperties
  <2> QED BY <1>2, <1>x, <2>2, <2>3 DEF OnlyNext
<1> QED BY <1>1, <1>2

\* The server after n bytes of a body that is not chunked.
AfterBody(s, n) ==
    IF s.framing = "none" THEN s
    ELSE [s EXCEPT !.left = @ - n, !.at = IF s.left = n THEN "next" ELSE @]

\* Some of a body that is not chunked.
LEMMA BodyGoesOn ==
  ASSUME NEW t \in State, NEW s \in Server, NEW z \in Seq(HeadByte),
         Good(t, <<>>, s, z), AtEnd(t, s, z), ServerInv(s, z), s.at = "body", ~s.unfit,
         NEW ds \in Seq(HeadByte), Len(ds) > 0, s.framing = "length" => Len(ds) <= s.left
  PROVE  GoesOn(t, Marked("data", ds), ds, s, AfterBody(s, Len(ds)), z)
<1>m. PICK m : m = Len(ds)
  OBVIOUS
<1>v. PICK v : v = Marked("data", ds)
  OBVIOUS
<1>z. PICK z2 : z2 = z \o ds
  OBVIOUS
<1>2. PICK s2 : s2 = AfterBody(s, m)
  OBVIOUS
<1>0. /\ m \in Nat /\ m > 0 /\ m = Len(ds) /\ Len(z) \in Nat
      /\ z2 \in Seq(HeadByte) /\ Len(z2) = Len(z) + m
      /\ \A k \in 1..m : z2[Len(z) + k] = ds[k]
  BY <1>m, <1>z, CatFacts
<1>1. /\ v \in Seq(Item) /\ Len(v) = m /\ \A k \in 1..m : v[k].part = "data" /\ v[k].b = ds[k]
  <2>1. "data" \in Part
    BY DEF Part
  <2>2. /\ Marked("data", ds) \in Seq(Item) /\ Len(Marked("data", ds)) = Len(ds)
        /\ \A k \in 1..Len(ds) : /\ Marked("data", ds)[k].part = "data"
                                 /\ Marked("data", ds)[k].b = ds[k]
    BY <2>1, MarkedFacts
  <2> QED BY <1>0, <1>v, <2>2
<1>3. /\ ~InHead(s) /\ ~Ended(s) /\ s.framing \in {"none", "length"} /\ s.len \in Int
      /\ s.left \in Nat /\ (s.framing = "none" <=> s.len = NoLen)
      /\ s.framing = "length" => Len(z) + s.left = s.len
  <2>1. /\ ~InHead(s) /\ ~Ended(s) /\ s.framing \in {"none", "length"} /\ s.len \in Int
        /\ s.left \in Nat
    BY DEF Server, ServerInv, InHead, Ended, NoLen
  <2> QED BY <2>1 DEF ServerInv
<1>4. /\ s2.framing = s.framing /\ s2.len = s.len /\ ~s2.unfit /\ ~InHead(s2)
      /\ s2.at \in {"body", "next"}
      /\ s.framing = "none" => s2 = s
      /\ s.framing = "length" => s2.left = s.left - m /\ (s2.at = "next" <=> s.left = m)
      /\ (Ended(s2) <=> s2.at = "next")
  BY <1>2, <1>3 DEF AfterBody, Server, InHead, Ended
<1>5. ServerInv(s2, z2)
  <2>1. CASE s.framing = "none"
    BY <1>3, <1>4, <2>1 DEF ServerInv, Ended
  <2>2. CASE s.framing = "length"
    <3>a. /\ Len(z2) = Len(z) + m /\ s2.left = s.left - m /\ Len(z) + s.left = s.len
          /\ m \in Nat /\ Len(z) \in Nat /\ s.left \in Nat /\ s2.len = s.len
          /\ (s2.at = "next" <=> s.left = m) /\ (Ended(s2) <=> s2.at = "next")
      BY <1>0, <1>3, <1>4, <2>2
    <3>b. Len(z2) + s2.left = s2.len
      BY <3>a
    <3>c. s2.left = 0 <=> s.left = m
      BY <3>a
    <3>1. Len(z2) + s2.left = s2.len /\ (s2.left = 0 <=> Ended(s2))
      BY <3>a, <3>b, <3>c
    <3> QED BY <1>3, <1>4, <2>2, <3>1 DEF ServerInv
  <2> QED BY <1>3, <2>1, <2>2
<1>6. DataFirst(v, ds)
  <2>1. \A k \in 1..Len(v) : v[k].part = "data" <=> k <= Len(ds)
    BY <1>0, <1>1
  <2>2. \A k \in 1..Len(ds) : ds[k] = v[k].b
    BY <1>0, <1>1
  <2>3. Len(ds) <= Len(v)
    BY <1>0, <1>1
  <2> QED BY <2>1, <2>2, <2>3 DEF DataFirst
<1>7. \A k \in 1..Len(v) : v[k].part # "next"
  BY <1>1
<1>8. Kept(s, z, v, s2, z \o ds)
  <2>1. Len(v) > 0 /\ v[1].part # "next"
    BY <1>0, <1>1, <1>7
  <2> QED BY <1>1, <1>3, <1>4, <1>6, <2>1, PieceKept
<1>9. Sends(s, z, v, ds, s2)
  BY <1>3, <1>4, <1>6, <1>8 DEF Sends
<1>10. ASSUME NEW k \in 0..m
       PROVE  /\ Got(After(v, k), z2) = Len(z) + k /\ Got(After(v, k), z2) \in 0..Len(z2)
              /\ (OnlyNext(After(v, k)) <=> k = m)
  <2>1. k \in 0..Len(v) /\ Least(k, Len(ds)) = k
    BY <1>0, <1>1 DEF Least
  <2>2. Got(After(v, k), z2) = Len(z) + Least(k, Len(ds)) /\ Got(After(v, k), z2) \in 0..Len(z2)
    BY <1>1, <1>6, <1>z, <2>1, GotAfter
  <2>3. OnlyNext(After(v, k)) <=> k = Len(v)
    BY <1>1, <1>7, <2>1, OnlyNextAfter
  <2> QED BY <1>1, <2>1, <2>2, <2>3
<1>11. \E g : GoodPath(g, t, v, s2, z2)
  <2>1. CASE Idle(t)
    BY <1>1, <1>9, <1>z, <2>1, IdleGoesOn
  <2>n. t.rx \in Receiver /\ t.rx.cap \in Nat /\ t.rx.kind \in {"keep", "once"}
        /\ t.rx.total \in Nat /\ t.rx.len \in Int /\ t = [rx |-> t.rx, body |-> t.body]
    BY DEF State, Receiver
  <2>2. ASSUME ~Idle(t)
        PROVE  /\ t.rx.result = "reading" /\ t.rx.ended /\ ~t.rx.chunked /\ t.rx.len = s.len
               /\ t.body = IF t.rx.kind = "keep" /\ s.framing = "none" THEN <<>>
                           ELSE SubSeq(z, 1, Least(Len(z), t.rx.cap))
               /\ ~t.rx.dec.done /\ ~Decodes(t.rx)
               /\ t.rx.kind = "keep" /\ s.framing = "length" => t.rx.total = Len(z)
               /\ t.rx.kind = "once" => t.rx.cap > 0
    <3>1. t.rx.result = "reading" /\ t.rx.ended
      BY <1>3, <2>2 DEF AtEnd, Idle
    <3>2. t.rx.kind = "once" => t.rx.cap > 0
      BY <2>2, <2>n, <3>1 DEF Idle
    <3>3. /\ ~t.rx.chunked /\ t.rx.len = s.len /\ ~t.rx.dec.done
          /\ t.body = IF t.rx.kind = "keep" /\ s.framing = "none" THEN <<>>
                      ELSE SubSeq(z, 1, Least(Len(z), t.rx.cap))
      BY <1>3, <3>1, EmptyFacts DEF Good
    <3>4. t.rx.kind = "keep" /\ s.framing = "length" => t.rx.total = Len(z)
      BY <1>3 DEF AtEnd
    <3> QED BY <3>1, <3>2, <3>3, <3>4 DEF Decodes
  <2>3. CASE ~Idle(t) /\ t.rx.kind = "keep" /\ s.framing = "none"
    <3>g. PICK g : g = [k \in 0..m |-> t]
      OBVIOUS
    <3>1. \A k \in 0..m : g[k] = t
      BY <3>g
    <3>2. Stopped(t)
      BY <1>3, <2>2, <2>3 DEF Stopped, Complete
    <3>3. Path(g, t, v)
      <4>1. \A k \in 1..m : k \in 0..m /\ k - 1 \in 0..m
        BY <1>0
      <4>2. ASSUME NEW b PROVE Take(t, b) = t
        BY <3>2 DEF Take
      <4>3. g[0] = t /\ Len(v) = m
        BY <1>0, <1>1, <3>1
      <4>4. ASSUME NEW k \in 1..m PROVE g[k] = Take(g[k - 1], v[k].b)
        BY <3>1, <4>1, <4>2
      <4> QED BY <4>3, <4>4 DEF Path
    <3>4. ASSUME NEW k \in 0..m PROVE Good(t, After(v, k), s2, z2)
      BY <1>3, <1>4, <1>10, <2>2, <2>3 DEF Good
    <3>5. AtEnd(t, s2, z2)
      BY <1>4, <2>2, <2>3 DEF AtEnd, InHead
    <3>6. m \in 0..m
      BY <1>0
    <3> QED BY <1>1, <3>1, <3>3, <3>4, <3>5, <3>6 DEF GoodPath
  <2>4. CASE ~Idle(t) /\ ~(t.rx.kind = "keep" /\ s.framing = "none")
    <3>0. /\ t.rx.result = "reading" /\ t.rx.ended /\ ~t.rx.chunked /\ t.rx.len = s.len
          /\ t.rx.kind = "keep" => s.framing = "length"
      BY <1>3, <2>2, <2>4
    <3>r. PICK r : r = [k \in 0..m |-> IF t.rx.kind = "keep" THEN [t.rx EXCEPT !.total = Len(z) + k]
                                       ELSE t.rx]
      OBVIOUS
    <3>y. PICK y : y = [k \in 0..m |-> SubSeq(z2, 1, Least(Len(z) + k, t.rx.cap))]
      OBVIOUS
    <3>g. PICK g : g = [k \in 0..m |-> [rx |-> r[k], body |-> y[k]]]
      OBVIOUS
    <3>1. ASSUME NEW k \in 0..m
          PROVE  /\ g[k].rx = r[k] /\ g[k].body = y[k] /\ g[k] = [rx |-> r[k], body |-> y[k]]
                 /\ y[k] = SubSeq(z2, 1, Least(Len(z) + k, t.rx.cap))
                 /\ Len(y[k]) = Least(Len(z) + k, t.rx.cap)
      <4>1. g[k] = [rx |-> r[k], body |-> y[k]]
        BY <3>g
      <4>2. y[k] = SubSeq(z2, 1, Least(Len(z) + k, t.rx.cap))
        BY <3>y
      <4>3. Least(Len(z) + k, t.rx.cap) \in 0..Len(z2)
        BY <1>0, <2>n DEF Least
      <4>n. PICK n : n = Least(Len(z) + k, t.rx.cap)
        OBVIOUS
      <4>4. Len(y[k]) = n
        <5>1. n \in 0..Len(z2) /\ y[k] = SubSeq(z2, 1, n) /\ z2 \in Seq(HeadByte)
          BY <1>0, <4>2, <4>3, <4>n
        <5>2. Len(SubSeq(z2, 1, n)) = n
          BY <5>1, PrefixFacts
        <5> QED BY <5>1, <5>2
      <4>5. g[k].rx = r[k] /\ g[k].body = y[k]
        BY <4>1
      <4>6. Len(y[k]) = Least(Len(z) + k, t.rx.cap)
        BY <4>4, <4>n
      <4> QED BY <4>1, <4>2, <4>5, <4>6
    <3>2. ASSUME NEW k \in 0..m
          PROVE  /\ r[k].kind = t.rx.kind /\ r[k].cap = t.rx.cap /\ r[k].ended
                 /\ ~r[k].chunked /\ r[k].len = t.rx.len /\ ~r[k].dec.done
                 /\ r[k].result = "reading" /\ ~Decodes(r[k])
                 /\ t.rx.kind = "keep" => r[k].total = Len(z) + k
                                          /\ r[k] = [t.rx EXCEPT !.total = Len(z) + k]
                 /\ t.rx.kind # "keep" => r[k] = t.rx
      <4>1. CASE t.rx.kind = "keep"
        <5>1. r[k] = [t.rx EXCEPT !.total = Len(z) + k]
          BY <3>r, <4>1
        <5> QED BY <2>2, <2>4, <2>n, <4>1, <5>1 DEF Receiver, Decodes
      <4>2. CASE t.rx.kind # "keep"
        <5>1. r[k] = t.rx
          BY <3>r, <4>2
        <5> QED BY <2>2, <2>4, <4>2, <5>1
      <4> QED BY <4>1, <4>2
    <3>3. g[0] = t
      <4>1. 0 \in 0..m /\ Len(z) + 0 = Len(z) /\ Least(Len(z), t.rx.cap) \in 0..Len(z)
        BY <1>0, <2>n DEF Least
      <4>2. y[0] = t.body
        <5>1. y[0] = SubSeq(z2, 1, Least(Len(z), t.rx.cap))
          BY <3>1, <4>1
        <5>2. SubSeq(z2, 1, Least(Len(z), t.rx.cap)) = SubSeq(z, 1, Least(Len(z), t.rx.cap))
          BY <1>z, <4>1, PrefixCat
        <5> QED BY <2>2, <2>4, <5>1, <5>2
      <4>3. r[0] = t.rx
        <5>1. CASE t.rx.kind = "keep"
          <6>1. t.rx.total = Len(z) /\ r[0] = [t.rx EXCEPT !.total = Len(z)]
            BY <1>3, <2>2, <2>4, <3>2, <4>1, <5>1
          <6> QED BY <2>n, <6>1 DEF Receiver
        <5>2. CASE t.rx.kind # "keep"
          BY <3>2, <4>1, <5>2
        <5> QED BY <5>1, <5>2
      <4> QED BY <2>n, <3>1, <4>1, <4>2, <4>3
    <3>4. ASSUME NEW n \in 1..m PROVE g[n] = Take(g[n - 1], v[n].b)
      <4>j. PICK j : j = n - 1
        OBVIOUS
      <4>1. /\ j \in 0..m /\ j \in 0..(m - 1) /\ n \in 0..m /\ n = j + 1
            /\ (Len(z) + j) + 1 = Len(z) + n /\ Len(z) + j \in 0..(Len(z2) - 1)
        BY <1>0, <4>j
      <4>p. PICK p : p = g[j]
        OBVIOUS
      <4>2. p.rx = r[j] /\ p.body = y[j]
        BY <3>1, <4>1, <4>p
      <4>3. Store(y[j], v[n].b, t.rx.cap) = y[n]
        <5>k. PICK k : k = Len(z) + j
          OBVIOUS
        <5>1. k \in 0..(Len(z2) - 1) /\ k + 1 = Len(z) + n
          BY <4>1, <5>k
        <5>2. /\ y[j] = SubSeq(z2, 1, Least(k, t.rx.cap))
              /\ y[n] = SubSeq(z2, 1, Least(k + 1, t.rx.cap))
          BY <3>1, <4>1, <5>1, <5>k
        <5>3. z2[k + 1] = v[n].b
          BY <1>0, <1>1, <5>1
        <5>4. Store(SubSeq(z2, 1, Least(k, t.rx.cap)), z2[k + 1], t.rx.cap)
              = SubSeq(z2, 1, Least(k + 1, t.rx.cap))
          BY <1>0, <2>n, <5>1, StoreNext
        <5> QED BY <5>2, <5>3, <5>4
      <4>4. g[n] = [rx |-> r[n], body |-> y[n]]
        BY <3>1, <4>1
      <4>5. CASE t.rx.kind = "keep"
        <5>1. s.framing = "length" /\ r[j].total = Len(z) + j
              /\ r[j] = [t.rx EXCEPT !.total = Len(z) + j]
          BY <1>3, <2>4, <3>2, <4>1, <4>5
        <5>2. ~(r[j].total >= r[j].len)
          <6>1. r[j].len = Len(z) + s.left /\ m <= s.left /\ s.left \in Nat /\ j < m
            BY <1>0, <1>3, <2>2, <2>4, <3>2, <4>1, <5>1
          <6> QED BY <1>0, <4>1, <5>1, <6>1
        <5>3. r[j].len # NoLen
          BY <1>3, <2>2, <2>4, <3>2, <4>1, <5>1
        <5>4. ~Stopped(p)
          BY <3>2, <4>1, <4>2, <5>2, <5>3 DEF Stopped, Complete
        <5>q. /\ r[j].ended /\ ~Decodes(r[j]) /\ ~r[j].chunked /\ r[j].kind = t.rx.kind
              /\ r[j].cap = t.rx.cap
          BY <3>2, <4>1
        <5>a. p.rx.ended /\ ~Decodes(p.rx) /\ ~p.rx.chunked /\ p.rx.kind = "keep"
              /\ p.rx.cap = t.rx.cap
          BY <4>2, <4>5, <5>q
        <5>5. Take(p, v[n].b) = [rx |-> [p.rx EXCEPT !.total = @ + 1],
                                 body |-> Store(p.body, v[n].b, p.rx.cap)]
          BY <5>4, <5>a DEF Take
        <5>6. [p.rx EXCEPT !.total = @ + 1] = r[n]
          <6>1. [p.rx EXCEPT !.total = @ + 1] = [p.rx EXCEPT !.total = Len(z) + n]
            BY <4>1, <4>2, <5>1
          <6>2. [p.rx EXCEPT !.total = Len(z) + n] = [t.rx EXCEPT !.total = Len(z) + n]
            BY <2>n, <4>2, <5>1 DEF Receiver
          <6>3. r[n] = [t.rx EXCEPT !.total = Len(z) + n]
            BY <3>2, <4>1, <4>5
          <6> QED BY <6>1, <6>2, <6>3
        <5>7. Store(p.body, v[n].b, p.rx.cap) = y[n]
          BY <4>2, <4>3, <5>a
        <5>8. Take(p, v[n].b) = g[n]
          BY <4>4, <5>5, <5>6, <5>7
        <5> QED BY <4>j, <4>p, <5>8
      <4>6. CASE t.rx.kind = "once"
        <5>1. ~Stopped(p)
          BY <3>2, <4>1, <4>2, <4>6 DEF Stopped
        <5>a. p.rx.ended /\ ~Decodes(p.rx) /\ ~p.rx.chunked /\ p.rx.kind = "once"
          BY <3>2, <4>1, <4>2, <4>6
        <5>2. Take(p, v[n].b) = [rx |-> p.rx, body |-> Store(p.body, v[n].b, Want(p.rx))]
          BY <5>1, <5>a DEF Take
        <5>3. p.rx = t.rx /\ r[n] = t.rx
          BY <3>2, <4>1, <4>2, <4>6
        <5>4. Store(y[j], v[n].b, Want(t.rx)) = Store(y[j], v[n].b, t.rx.cap)
          <6>1. CASE Want(t.rx) = t.rx.cap
            BY <6>1
          <6>2. CASE Want(t.rx) # t.rx.cap
            <7>1. t.rx.len # NoLen /\ t.rx.len < t.rx.cap /\ Want(t.rx) = t.rx.len
              BY <6>2 DEF Want
            <7>2. s.framing = "length" /\ t.rx.len = Len(z) + s.left /\ m <= s.left
              BY <1>0, <1>3, <2>2, <2>4, <7>1
            <7>3. Len(y[j]) = Least(Len(z) + j, t.rx.cap)
              BY <3>1, <4>1
            <7>a. PICK k : k = Len(z) + j
              OBVIOUS
            <7>b. k \in Nat /\ k < t.rx.len /\ t.rx.len \in Nat
              <8>1. j \in Nat /\ j < m /\ s.left \in Nat /\ Len(z) \in Nat
                BY <1>0, <1>3, <4>1
              <8> QED BY <7>2, <7>a, <8>1, <1>0
            <7>c. Least(k, t.rx.cap) = k
              BY <2>n, <7>1, <7>b DEF Least
            <7>4. Len(y[j]) < Want(t.rx) /\ Len(y[j]) < t.rx.cap
              BY <2>n, <7>1, <7>3, <7>a, <7>b, <7>c
            <7> QED BY <7>4 DEF Store
          <6> QED BY <6>1, <6>2
        <5> QED BY <4>2, <4>3, <4>4, <4>j, <4>p, <5>2, <5>3, <5>4
      <4> QED BY <2>n, <4>5, <4>6
    <3>5. Path(g, t, v)
      BY <1>1, <3>3, <3>4 DEF Path
    <3>6. ASSUME NEW k \in 0..m PROVE Good(g[k], After(v, k), s2, z2)
      <4>p. PICK p : p = g[k]
        OBVIOUS
      <4>x. PICK x : x = After(v, k)
        OBVIOUS
      <4>a. Got(x, z2) = Len(z) + k
        BY <1>10, <4>x
      <4>b. /\ p.rx = r[k] /\ p.body = SubSeq(z2, 1, Least(Len(z) + k, t.rx.cap))
        BY <3>1, <4>p
      <4>1. p.rx = r[k] /\ p.body = SubSeq(z2, 1, Least(Got(x, z2), p.rx.cap))
        BY <3>2, <4>a, <4>b
      <4>2. Got(x, z2) \in 0..Len(z2) /\ (OnlyNext(x) <=> k = m)
        BY <1>10, <4>x
      <4>3. /\ p.rx.kind = t.rx.kind /\ p.rx.ended /\ ~p.rx.chunked /\ p.rx.len = s2.len
            /\ ~p.rx.dec.done /\ p.rx.result = "reading"
        <5>1. /\ r[k].kind = t.rx.kind /\ r[k].ended /\ ~r[k].chunked /\ r[k].len = t.rx.len
              /\ ~r[k].dec.done /\ r[k].result = "reading"
          BY <3>2
        <5>2. t.rx.len = s2.len
          BY <1>4, <3>0
        <5> QED BY <4>1, <5>1, <5>2
      <4>4. ASSUME p.rx.kind = "keep" PROVE Complete(p.rx) <=> Ended(s2) /\ OnlyNext(x)
        <5>1. /\ s.framing = "length" /\ p.rx.total = Len(z) + k
              /\ p.rx.len = Len(z) + s.left /\ p.rx.len # NoLen /\ m <= s.left
          <6>1. s.framing = "length" /\ m <= s.left /\ s.len = Len(z) + s.left /\ s.len # NoLen
            BY <1>0, <1>3, <3>0, <4>3, <4>4
          <6>2. p.rx.total = Len(z) + k
            BY <3>2, <4>1, <4>3, <4>4
          <6> QED BY <1>4, <4>3, <6>1, <6>2
        <5>2. p.rx.total >= p.rx.len <=> (s.left = m /\ k = m)
          BY <1>0, <1>3, <5>1
        <5> QED BY <1>4, <4>2, <4>3, <5>1, <5>2 DEF Complete
      <4>5. ~(p.rx.kind = "keep" /\ s2.framing = "none")
        BY <1>4, <2>4, <4>3
      <4>6. s2.framing # "chunked"
        BY <1>3, <1>4
      <4>7. Good(p, x, s2, z2)
        BY <1>4, <4>1, <4>2, <4>3, <4>4, <4>5, <4>6 DEF Good
      <4> QED BY <4>7, <4>p, <4>x
    <3>7. AtEnd(g[m], s2, z2)
      <4>p. PICK p : p = g[m]
        OBVIOUS
      <4>0. m \in 0..m
        BY <1>0
      <4>1. /\ p.rx = r[m] /\ p.rx.ended /\ p.rx.result = "reading" /\ ~Decodes(p.rx)
            /\ p.rx.kind = t.rx.kind /\ (t.rx.kind = "keep" => p.rx.total = Len(z) + m)
        BY <3>1, <3>2, <4>0, <4>p
      <4>2. AtEnd(p, s2, z2)
        BY <1>0, <1>4, <4>1 DEF AtEnd, InHead
      <4> QED BY <4>2, <4>p
    <3> QED BY <1>1, <3>5, <3>6, <3>7 DEF GoodPath
  <2> QED BY <2>1, <2>3, <2>4
<1>12. GoesOn(t, v, ds, s, s2, z)
  BY <1>1, <1>5, <1>8, <1>11, <1>z DEF GoesOn
<1> QED
  BY <1>2, <1>12, <1>m, <1>v

-----------------------------------------------------------------------------
(***************************************************************************)
(* The lines of the head.                                                  *)
(***************************************************************************)
Room == HeadLineCap - 1

\* The limits are numbers, and a line that means something has room (RoomAssumption).
LEMMA HeadCaps ==
  /\ HeadCap \in Nat /\ HeadLineCap \in Nat /\ Room \in Nat /\ Room > 6
  /\ ValueCap \in Nat /\ ValueCap > 3 /\ NumberCap \in Nat /\ MaxDigits \in Nat
  /\ MaxDigits < NumberCap /\ MaxDigits + 4 <= Room
<1>1. HeadCap \in Nat \ {0} /\ HeadLineCap \in Nat \ {0} /\ ValueCap \in Nat \ {0}
      /\ NumberCap \in Nat \ {0}
  BY HeadAssumption
<1>2. MaxDigits \in Nat /\ MaxDigits < NumberCap
  BY ResponseAssumption
<1> QED BY <1>1, <1>2, RoomAssumption DEF Room

\* The line kept of k bytes of text.
Line(text, k) == SubSeq(text, 1, Least(k, Room))

\* One more byte of a line, if there is room for it.
LEMMA LineGrows ==
  ASSUME NEW text \in Seq(HeadByte), NEW k \in 0..(Len(text) - 1)
  PROVE  (IF Len(Line(text, k)) + 1 < HeadLineCap THEN Append(Line(text, k), text[k + 1])
          ELSE Line(text, k)) = Line(text, k + 1)
<1>0. Len(text) \in Nat /\ k \in Nat /\ Room \in Nat /\ HeadLineCap = Room + 1
  BY LenProperties, HeadCaps DEF Room
<1>1. CASE k < Room
  <2>1. Least(k, Room) = k /\ Least(k + 1, Room) = k + 1 /\ k \in 0..Len(text)
    BY <1>0, <1>1 DEF Least
  <2>2. Len(SubSeq(text, 1, k)) = k
    BY <2>1, PrefixFacts
  <2>3. Append(SubSeq(text, 1, k), text[k + 1]) = SubSeq(text, 1, k + 1)
    BY PrefixGrows
  <2>4. Line(text, k) = SubSeq(text, 1, k) /\ Line(text, k + 1) = SubSeq(text, 1, k + 1)
    BY <2>1 DEF Line
  <2>5. k + 1 < HeadLineCap
    BY <1>0, <1>1
  <2> QED BY <2>2, <2>3, <2>4, <2>5
<1>2. CASE ~(k < Room)
  <2>1. Least(k, Room) = Room /\ Least(k + 1, Room) = Room /\ Room \in 0..Len(text)
    BY <1>0, <1>2 DEF Least
  <2>2. Len(SubSeq(text, 1, Room)) = Room
    BY <2>1, PrefixFacts
  <2>3. Line(text, k) = SubSeq(text, 1, Room) /\ Line(text, k + 1) = SubSeq(text, 1, Room)
    BY <2>1 DEF Line
  <2>4. ~(Room + 1 < HeadLineCap)
    BY <1>0
  <2> QED BY <2>2, <2>3, <2>4
<1> QED BY <1>1, <1>2

\* The receiver r after k bytes of a line.
InLine(r, text, k) == [r EXCEPT !.buf = r.buf \o SubSeq(text, 1, k), !.line = Line(text, k)]

\* The receiver r after all of the line.
LineTaken(r, text) ==
    LET next == [TakeLine(InLine(r, text, Len(text))) EXCEPT !.line = <<>>]
    IN  IF EndOfHead(r.buf \o text) THEN [next EXCEPT !.ended = TRUE, !.buf = <<>>] ELSE next

\* A receiver in the middle of a line is a receiver.
LEMMA InLineFacts ==
  ASSUME NEW r \in Receiver, NEW text \in Seq(HeadByte), NEW k \in 0..Len(text)
  PROVE  /\ InLine(r, text, k) \in Receiver
         /\ InLine(r, text, k).buf = r.buf \o SubSeq(text, 1, k)
         /\ InLine(r, text, k).line = Line(text, k)
         /\ Len(InLine(r, text, k).buf) = Len(r.buf) + k
         /\ InLine(r, text, k).kind = r.kind /\ InLine(r, text, k).cap = r.cap
         /\ InLine(r, text, k).status = r.status /\ InLine(r, text, k).ended = r.ended
         /\ InLine(r, text, k).len = r.len /\ InLine(r, text, k).chunked = r.chunked
         /\ InLine(r, text, k).dec = r.dec /\ InLine(r, text, k).total = r.total
         /\ InLine(r, text, k).result = r.result
<1>0. k \in Nat /\ Len(text) \in Nat
  BY LenProperties
<1>b. PICK b : b = r.buf \o SubSeq(text, 1, k)
  OBVIOUS
<1>l. PICK l : l = Line(text, k)
  OBVIOUS
<1>1. r.buf \in Seq(HeadByte)
  BY DEF Receiver
<1>2. SubSeq(text, 1, k) \in Seq(HeadByte) /\ Len(SubSeq(text, 1, k)) = k
  BY PrefixFacts
<1>3. b \in Seq(HeadByte) /\ Len(b) = Len(r.buf) + k
  <2>x. PICK x : x = SubSeq(text, 1, k)
    OBVIOUS
  <2>1. x \in Seq(HeadByte) /\ Len(x) = k
    BY <1>2, <2>x
  <2>2. r.buf \o x \in Seq(HeadByte) /\ Len(r.buf \o x) = Len(r.buf) + Len(x)
    BY <1>1, <2>1, CatFacts
  <2> QED BY <1>b, <2>1, <2>2, <2>x
<1>4. l \in Seq(HeadByte)
  <2>1. Least(k, Room) \in 0..Len(text)
    BY <1>0, HeadCaps DEF Least
  <2> QED BY <1>l, <2>1, PrefixFacts DEF Line
<1>p. PICK p : p = [r EXCEPT !.buf = b, !.line = l]
  OBVIOUS
<1>5. /\ p \in Receiver /\ p.buf = b /\ p.line = l /\ p.kind = r.kind /\ p.cap = r.cap
      /\ p.status = r.status /\ p.ended = r.ended /\ p.len = r.len /\ p.chunked = r.chunked
      /\ p.dec = r.dec /\ p.total = r.total /\ p.result = r.result
  BY <1>3, <1>4, <1>p DEF Receiver
<1>6. InLine(r, text, k) = p
  BY <1>b, <1>l, <1>p DEF InLine
<1> QED BY <1>3, <1>5, <1>6, <1>b, <1>l

\* All elements of a sequence are the sequence.
LEMMA PrefixFull ==
  ASSUME NEW S, NEW w \in Seq(S)
  PROVE  SubSeq(w, 1, Len(w)) = w /\ SubSeq(w, 1, 0) = <<>>
  BY SubSeqFull, SubSeqEmpty

\* One byte of a line, if there is room for it.
LEMMA ByteOfLine ==
  ASSUME NEW r \in Receiver, NEW text \in Seq(HeadByte), NEW k \in 0..(Len(text) - 1),
         Len(r.buf) + k < HeadCap
  PROVE  LET read == InLine(r, text, k + 1)
             next == IF text[k + 1] = "LF" THEN [TakeLine(read) EXCEPT !.line = <<>>] ELSE read
         IN  TakeHead(InLine(r, text, k), text[k + 1]) =
                IF EndOfHead(read.buf) THEN [next EXCEPT !.ended = TRUE, !.buf = <<>>] ELSE next
<1>0. k \in 0..Len(text) /\ k + 1 \in 0..Len(text) /\ k + 1 \in 1..Len(text) /\ Len(text) \in Nat
  BY LenProperties
<1>p. PICK p : p = InLine(r, text, k)
  OBVIOUS
<1>q. PICK q : q = InLine(r, text, k + 1)
  OBVIOUS
<1>b. PICK b : b = text[k + 1]
  OBVIOUS
<1>1. /\ p \in Receiver /\ p.line = Line(text, k) /\ Len(p.buf) = Len(r.buf) + k
      /\ p.buf = r.buf \o SubSeq(text, 1, k) /\ q.buf = r.buf \o SubSeq(text, 1, k + 1)
      /\ q.line = Line(text, k + 1)
  BY <1>0, <1>p, <1>q, InLineFacts
<1>2. b \in HeadByte /\ r.buf \in Seq(HeadByte)
  BY <1>0, <1>b, ElementOfSeq DEF Receiver
<1>3. Append(p.buf, b) = q.buf
  <2>x. PICK x : x = SubSeq(text, 1, k)
    OBVIOUS
  <2>y. PICK y : y = SubSeq(text, 1, k + 1)
    OBVIOUS
  <2>v. PICK v : v = r.buf
    OBVIOUS
  <2>c. PICK c : c = v \o x
    OBVIOUS
  <2>u. PICK u : u = Append(c, b)
    OBVIOUS
  <2>1. x \in Seq(HeadByte) /\ v \in Seq(HeadByte)
    BY <1>0, <1>2, <2>v, <2>x, PrefixFacts
  <2>2. y = Append(x, b)
    BY <1>b, <2>x, <2>y, PrefixGrows
  <2>3. u = v \o y
    <3>0. b \in HeadByte /\ x \in Seq(HeadByte) /\ v \in Seq(HeadByte)
      BY <1>2, <2>1
    <3>1. /\ c \in Seq(HeadByte) /\ Len(c) = Len(v) + Len(x)
          /\ Len(v) \in Nat /\ Len(x) \in Nat
          /\ \A i \in 1..Len(v) : c[i] = v[i]
          /\ \A i \in 1..Len(x) : c[Len(v) + i] = x[i]
      <4>1. /\ v \o x \in Seq(HeadByte) /\ Len(v \o x) = Len(v) + Len(x)
            /\ \A i \in 1..Len(v) : (v \o x)[i] = v[i]
            /\ \A i \in 1..Len(x) : (v \o x)[Len(v) + i] = x[i]
        BY <3>0, CatFacts
      <4> QED BY <2>c, <3>0, <4>1, LenProperties
    <3>2. /\ u \in Seq(HeadByte) /\ Len(u) = Len(c) + 1 /\ u[Len(c) + 1] = b
          /\ \A i \in 1..Len(c) : u[i] = c[i]
      <4>0. c \in Seq(HeadByte) /\ b \in HeadByte
        BY <3>0, <3>1
      <4>1. /\ Append(c, b) \in Seq(HeadByte) /\ Len(Append(c, b)) = Len(c) + 1
            /\ Append(c, b)[Len(c) + 1] = b
            /\ \A i \in 1..Len(c) : Append(c, b)[i] = c[i]
        BY <4>0, AppendProperties
      <4> QED BY <2>u, <4>1
    <3>3. /\ y \in Seq(HeadByte) /\ Len(y) = Len(x) + 1 /\ y[Len(x) + 1] = b
          /\ \A i \in 1..Len(x) : y[i] = x[i]
      BY <2>2, <3>0, AppendProperties
    <3>4. Len(u) = Len(v) + Len(y)
      BY <3>1, <3>2, <3>3
    <3>5. ASSUME NEW i \in 1..Len(v) PROVE u[i] = v[i]
      <4>1. i \in 1..Len(c)
        BY <3>1
      <4> QED BY <3>1, <3>2, <4>1
    <3>6. ASSUME NEW i \in 1..Len(y) PROVE u[Len(v) + i] = y[i]
      <4>1. CASE i = Len(x) + 1
        <5>1. Len(v) + i = Len(c) + 1
          BY <3>1, <4>1
        <5> QED BY <3>2, <3>3, <4>1, <5>1
      <4>2. CASE i # Len(x) + 1
        <5>1. i \in 1..Len(x) /\ Len(v) + i \in 1..Len(c)
          BY <3>1, <3>3, <4>2
        <5> QED BY <3>1, <3>2, <3>3, <5>1
      <4> QED BY <4>1, <4>2
    <3> QED
      BY <3>0, <3>2, <3>3, <3>4, <3>5, <3>6, CatIs
  <2>4. p.buf = c /\ q.buf = v \o y
    BY <1>1, <2>c, <2>v, <2>x, <2>y
  <2> QED BY <2>3, <2>4, <2>u
<1>4. (IF Len(p.line) + 1 < HeadLineCap THEN Append(p.line, b) ELSE p.line) = q.line
  BY <1>1, <1>b, LineGrows
<1>5. [p EXCEPT !.buf = q.buf, !.line = q.line] = q
  <2>1. p = [r EXCEPT !.buf = p.buf, !.line = p.line]
    BY <1>1, <1>p DEF InLine
  <2>2. q = [r EXCEPT !.buf = q.buf, !.line = q.line]
    BY <1>1, <1>q DEF InLine
  <2> QED BY <2>1, <2>2 DEF Receiver
<1>6. ~(Len(p.buf) >= HeadCap) /\ Len(p.buf) < HeadCap
  <2>1. Len(r.buf) \in Nat
    BY <1>2, LenProperties
  <2> QED BY <1>1, <2>1, HeadCaps
<1>n. PICK next : next = IF b = "LF" THEN [TakeLine(q) EXCEPT !.line = <<>>] ELSE q
  OBVIOUS
<1>7. TakeHead(p, b) = IF EndOfHead(q.buf) THEN [next EXCEPT !.ended = TRUE, !.buf = <<>>] ELSE next
  <2>1. TakeHead(p, b) =
          CASE Len(p.buf) >= HeadCap -> [p EXCEPT !.result = "bad"]
            [] Len(p.buf) < HeadCap /\ EndOfHead(q.buf) ->
                 [next EXCEPT !.ended = TRUE, !.buf = <<>>]
            [] OTHER -> next
    BY <1>3, <1>4, <1>5, <1>n DEF TakeHead
  <2> QED BY <1>6, <2>1
<1> QED
  BY <1>7, <1>b, <1>n, <1>p, <1>q

\* The end of the head is four bytes.
LEMMA EndIs ==
  ASSUME NEW b \in Seq(HeadByte)
  PROVE  EndOfHead(b) <=> /\ Len(b) >= 4
                          /\ b[Len(b) - 3] = "CR" /\ b[Len(b) - 2] = "LF"
                          /\ b[Len(b) - 1] = "CR" /\ b[Len(b)] = "LF"
<1>n. PICK n : n = Len(b)
  OBVIOUS
<1>0. n \in Nat
  BY <1>n, LenProperties
<1>e. PICK e : e = <<"CR", "LF", "CR", "LF">>
  OBVIOUS
<1>1. /\ Len(e) = 4 /\ e[1] = "CR" /\ e[2] = "LF" /\ e[3] = "CR" /\ e[4] = "LF"
      /\ e \in Seq({"CR", "LF"})
  BY <1>e
<1>2. CASE n >= 4
  <2>x. PICK x : x = SubSeq(b, n - 3, n)
    OBVIOUS
  <2>0. n - 3 \in 1..(n + 1) /\ n \in (n - 3 - 1)..n /\ n - 3 \in Nat
    BY <1>0, <1>2
  <2>1. x \in Seq(HeadByte) /\ Len(x) = 4 /\ x[1] = b[n - 3] /\ x[2] = b[n - 2]
        /\ x[3] = b[n - 1] /\ x[4] = b[n]
    <3>m. PICK m : m = n - 3
      OBVIOUS
    <3>0. m \in 1..(Len(b) + 1) /\ n \in (m - 1)..Len(b) /\ n - m + 1 = 4 /\ m \in Nat
      BY <1>0, <1>2, <1>n, <3>m
    <3>1. /\ SubSeq(b, m, n) \in Seq(HeadByte) /\ Len(SubSeq(b, m, n)) = n - m + 1
          /\ \A i \in 1..(n - m + 1) : SubSeq(b, m, n)[i] = b[m + i - 1]
      BY <3>0, SubSeqProperties
    <3>2. x \in Seq(HeadByte) /\ Len(x) = 4 /\ \A i \in 1..4 : x[i] = b[m + i - 1]
      BY <2>x, <3>0, <3>1, <3>m
    <3>3. m + 1 - 1 = n - 3 /\ m + 2 - 1 = n - 2 /\ m + 3 - 1 = n - 1 /\ m + 4 - 1 = n
      BY <1>0, <3>m
    <3>4. 1 \in 1..4 /\ 2 \in 1..4 /\ 3 \in 1..4 /\ 4 \in 1..4
      OBVIOUS
    <3> QED BY <3>2, <3>3, <3>4
  <2>2. x = e <=> x[1] = e[1] /\ x[2] = e[2] /\ x[3] = e[3] /\ x[4] = e[4]
    <3>1. ASSUME x[1] = e[1], x[2] = e[2], x[3] = e[3], x[4] = e[4] PROVE x = e
      <4>0. "CR" \in HeadByte /\ "LF" \in HeadByte
        BY DEF HeadByte, Byte
      <4>1. e \in Seq(HeadByte)
        BY <1>e, <4>0
      <4>2. ASSUME NEW i \in 1..Len(x) PROVE x[i] = e[i]
        <5>1. i = 1 \/ i = 2 \/ i = 3 \/ i = 4
          BY <2>1
        <5> QED BY <3>1, <5>1
      <4> QED BY <1>1, <2>1, <4>1, <4>2, SeqEqual
    <3> QED BY <3>1
  <2>3. EndOfHead(b) <=> x = e
    BY <1>2, <1>e, <1>n, <2>x DEF EndOfHead
  <2> QED BY <1>1, <1>2, <1>n, <2>1, <2>2, <2>3
<1>3. CASE ~(n >= 4)
  BY <1>3, <1>n DEF EndOfHead
<1> QED BY <1>2, <1>3

\* g is the way of the receiver t through a line.
ReadsLine(g, t, v, text) ==
    LET full == Len(t.rx.buf) + Len(text) > HeadCap
    IN  /\ Path(g, t, v)
        /\ \A k \in 0..(Len(text) - 1) :
            /\ ~g[k].rx.ended /\ g[k].body = t.body /\ g[k].rx.dec = t.rx.dec
            /\ g[k].rx.result = "bad" \/ g[k].rx.result = "reading"
            /\ g[k].rx.result = "bad" => full
        /\ g[Len(text)].body = t.body
        /\ IF full THEN g[Len(text)].rx.result = "bad"
           ELSE g[Len(text)].rx = LineTaken(t.rx, text)

\* Byte after byte, a line of the head is read up to its end.
LEMMA LineRead ==
  ASSUME NEW t \in State, ~t.rx.ended, t.rx.result = "reading", t.rx.line = <<>>,
         NEW text \in Seq(HeadByte), Len(text) > 0, text[Len(text)] = "LF",
         \A k \in 1..(Len(text) - 1) : text[k] # "LF",
         NEW v \in Seq(Item), Len(v) = Len(text), \A k \in 1..Len(text) : v[k].b = text[k]
  PROVE  \E g : ReadsLine(g, t, v, text)
<1>r. PICK r : r = t.rx
  OBVIOUS
<1>y. PICK y : y = t.body
  OBVIOUS
<1>l. PICK l : l = Len(text)
  OBVIOUS
<1>h. PICK h : h = Len(r.buf)
  OBVIOUS
<1>x. PICK last : last = IF h <= HeadCap THEN HeadCap - h ELSE 0
  OBVIOUS
<1>o. PICK bad : bad = [InLine(r, text, last) EXCEPT !.result = "bad"]
  OBVIOUS
<1>0. /\ l \in Nat /\ l > 0 /\ h \in Nat /\ HeadCap \in Nat /\ r \in Receiver
      /\ r.buf \in Seq(HeadByte) /\ y \in Seq(HeadByte) /\ t = [rx |-> r, body |-> y]
      /\ last \in Nat /\ l = Len(text) /\ ~r.ended /\ r.result = "reading" /\ r.line = <<>>
  <2>1. /\ r \in Receiver /\ y \in Seq(HeadByte) /\ t = [rx |-> r, body |-> y]
    BY <1>r, <1>y DEF State
  <2>2. r.buf \in Seq(HeadByte)
    BY <2>1 DEF Receiver
  <2>3. l \in Nat /\ h \in Nat /\ HeadCap \in Nat
    BY <1>h, <1>l, <2>2, HeadCaps, LenProperties
  <2> QED BY <1>l, <1>r, <1>x, <2>1, <2>2, <2>3
<1>g. PICK g : g = [k \in 0..l |->
        [rx |-> IF k = l /\ h + l <= HeadCap THEN LineTaken(r, text)
                ELSE IF h + k <= HeadCap \/ k = 0 THEN InLine(r, text, k)
                ELSE bad,
         body |-> y]]
  OBVIOUS
<1>1. ASSUME NEW k \in 0..l
      PROVE  /\ g[k] = [rx |-> g[k].rx, body |-> y] /\ g[k].body = y
             /\ g[k].rx = IF k = l /\ h + l <= HeadCap THEN LineTaken(r, text)
                          ELSE IF h + k <= HeadCap \/ k = 0 THEN InLine(r, text, k)
                          ELSE bad
  BY <1>g
<1>2. ASSUME NEW k \in 0..l
      PROVE  /\ InLine(r, text, k) \in Receiver
             /\ InLine(r, text, k).buf = r.buf \o SubSeq(text, 1, k)
             /\ Len(InLine(r, text, k).buf) = h + k
             /\ InLine(r, text, k).ended = FALSE /\ InLine(r, text, k).result = "reading"
             /\ InLine(r, text, k).dec = r.dec
  <2>1. /\ InLine(r, text, k) \in Receiver
        /\ InLine(r, text, k).buf = r.buf \o SubSeq(text, 1, k)
        /\ Len(InLine(r, text, k).buf) = Len(r.buf) + k
        /\ InLine(r, text, k).ended = r.ended /\ InLine(r, text, k).result = r.result
        /\ InLine(r, text, k).dec = r.dec
    <3>1. k \in 0..Len(text) /\ r \in Receiver
      BY <1>0
    <3> QED BY <3>1, InLineFacts
  <2>2. r.ended = FALSE
    BY <1>0 DEF Receiver
  <2> QED BY <1>0, <1>h, <2>1, <2>2
<1>3. InLine(r, text, 0) = r
  <2>e. PICK e : e = SubSeq(text, 1, 0)
    OBVIOUS
  <2>1. e = <<>> /\ Least(0, Room) = 0
    BY <2>e, PrefixFull, HeadCaps DEF Least
  <2>2. r.buf \o e = r.buf
    BY <1>0, <2>1, ConcatEmptySeq
  <2>3. Line(text, 0) = <<>>
    BY <2>1, <2>e DEF Line
  <2>4. InLine(r, text, 0) = [r EXCEPT !.buf = r.buf, !.line = r.line]
    BY <1>0, <2>2, <2>3, <2>e DEF InLine
  <2>5. [r EXCEPT !.buf = r.buf, !.line = r.line] = r
    BY <1>0 DEF Receiver
  <2> QED BY <2>4, <2>5
<1>4. h + l > HeadCap => last \in 0..(l - 1)
  BY <1>0, <1>x
<1>5. h + l > HeadCap => bad.result = "bad" /\ bad.ended = FALSE /\ bad.dec = r.dec
  <2> SUFFICES ASSUME h + l > HeadCap
               PROVE  bad.result = "bad" /\ bad.ended = FALSE /\ bad.dec = r.dec
    OBVIOUS
  <2>p. PICK p : p = InLine(r, text, last)
    OBVIOUS
  <2>1. last \in 0..l
    BY <1>0, <1>4
  <2>2. p \in Receiver /\ p.ended = FALSE /\ p.dec = r.dec
    BY <1>2, <2>1, <2>p
  <2> QED BY <1>o, <2>2, <2>p DEF Receiver
<1>6. g[0] = t
  <2>1. 0 \in 0..l /\ 0 # l
    BY <1>0
  <2> QED BY <1>0, <1>1, <1>3, <2>1
\* A byte of the line that is not its last does not end the head.
<1>7. ASSUME NEW k \in 1..(l - 1) PROVE ~EndOfHead(InLine(r, text, k).buf)
  <2>v. PICK w : w = SubSeq(text, 1, k)
    OBVIOUS
  <2>b. PICK b : b = r.buf
    OBVIOUS
  <2>0. k \in 0..Len(text) /\ k \in 1..l /\ k \in 1..(Len(text) - 1) /\ k \in 1..k
    BY <1>0
  <2>1. w \in Seq(HeadByte) /\ Len(w) = k /\ w[k] = text[k]
    BY <1>0, <2>0, <2>v, PrefixFacts
  <2>2. text[k] # "LF"
    BY <2>0
  <2>3. b \in Seq(HeadByte) /\ Len(b) = h
    BY <1>0, <1>h, <2>b
  <2>4. b \o w \in Seq(HeadByte) /\ Len(b \o w) = h + k /\ (b \o w)[h + k] = w[k]
    <3>1. b \in Seq(HeadByte) /\ w \in Seq(HeadByte)
      BY <2>1, <2>3
    <3>2. /\ b \o w \in Seq(HeadByte) /\ Len(b \o w) = Len(b) + Len(w)
          /\ \A i \in 1..Len(w) : (b \o w)[Len(b) + i] = w[i]
      BY <3>1, CatFacts
    <3> QED BY <2>0, <2>1, <2>3, <3>2
  <2>c. PICK c : c = b \o w
    OBVIOUS
  <2>5. c \in Seq(HeadByte) /\ c[Len(c)] # "LF"
    BY <2>1, <2>2, <2>4, <2>c
  <2>6. ~EndOfHead(c)
    BY <2>5, EndIs
  <2> QED BY <1>2, <2>0, <2>6, <2>b, <2>c, <2>v, <1>0
<1>8. ASSUME NEW k \in 0..(l - 1) PROVE g[k + 1] = Take(g[k], text[k + 1])
  <2>p. PICK p : p = InLine(r, text, k)
    OBVIOUS
  <2>b. PICK b : b = text[k + 1]
    OBVIOUS
  <2>n. PICK n : n = k + 1
    OBVIOUS
  <2>0. k \in 0..l /\ n \in 0..l /\ n # 0 /\ k # l /\ n \in 1..l /\ k \in Nat
    BY <1>0, <2>n
  <2>1. p \in Receiver /\ Len(p.buf) = h + k /\ ~p.ended /\ p.result = "reading"
    BY <1>2, <2>0, <2>p
  <2>2. ASSUME h + k <= HeadCap \/ k = 0
        PROVE  Take(g[k], b) = [rx |-> TakeHead(p, b), body |-> y]
    <3>1. g[k].rx = p /\ g[k].body = y
      BY <1>1, <2>0, <2>2, <2>p
    <3>2. ~Stopped(g[k])
      BY <2>1, <3>1 DEF Stopped, Complete
    <3> QED BY <2>1, <3>1, <3>2 DEF Take
  <2>3. CASE h + n <= HeadCap
    <3>1. h + k <= HeadCap /\ h + k < HeadCap
      BY <1>0, <2>0, <2>3, <2>n
    <3>q. PICK q : q = InLine(r, text, n)
      OBVIOUS
    <3>x. PICK next : next = IF b = "LF" THEN [TakeLine(q) EXCEPT !.line = <<>>] ELSE q
      OBVIOUS
    <3>2. TakeHead(p, b) =
            IF EndOfHead(q.buf) THEN [next EXCEPT !.ended = TRUE, !.buf = <<>>] ELSE next
      <4>1. k \in 0..(Len(text) - 1) /\ Len(r.buf) + k < HeadCap
        BY <1>0, <1>h, <3>1
      <4> QED BY <1>0, <2>b, <2>n, <2>p, <3>q, <3>x, <4>1, ByteOfLine
    <3>3. CASE n # l
      <4>1. n \in 1..(l - 1) /\ b # "LF"
        BY <1>0, <2>0, <2>b, <2>n, <3>3
      <4>2. ~EndOfHead(q.buf)
        BY <1>7, <3>q, <4>1
      <4>3. TakeHead(p, b) = q
        BY <3>2, <3>x, <4>1, <4>2
      <4>4. g[n] = [rx |-> q, body |-> y]
        BY <1>1, <2>0, <2>3, <3>3, <3>q
      <4> QED BY <2>2, <2>b, <2>n, <3>1, <4>3, <4>4
    <3>4. CASE n = l
      <4>1. b = "LF"
        BY <1>0, <2>b, <2>n, <3>4
      <4>2. q.buf = r.buf \o text
        <5>1. SubSeq(text, 1, n) = text
          BY <1>0, <3>4, PrefixFull
        <5>2. q.buf = r.buf \o SubSeq(text, 1, n)
          BY <1>2, <2>0, <3>q
        <5> QED BY <5>1, <5>2
      <4>3. TakeHead(p, b) = LineTaken(r, text)
        BY <1>0, <3>2, <3>4, <3>q, <3>x, <4>1, <4>2 DEF LineTaken
      <4>4. g[n] = [rx |-> LineTaken(r, text), body |-> y]
        BY <1>1, <2>0, <2>3, <3>4
      <4> QED BY <2>2, <2>b, <2>n, <3>1, <4>3, <4>4
    <3> QED BY <3>3, <3>4
  <2>4. CASE ~(h + n <= HeadCap)
    <3>1. g[n] = [rx |-> bad, body |-> y]
      <4>1. ~(n = l /\ h + l <= HeadCap)
        BY <2>4
      <4> QED BY <1>1, <2>0, <2>4, <4>1
    <3>2. CASE h + k <= HeadCap \/ k = 0
      <4>1. k = last /\ h + k >= HeadCap
        BY <1>0, <1>x, <2>0, <2>4, <2>n, <3>2
      <4>2. TakeHead(p, b) = [p EXCEPT !.result = "bad"]
        <5>1. Len(p.buf) >= HeadCap /\ ~(Len(p.buf) < HeadCap)
          BY <1>0, <2>0, <2>1, <4>1
        <5> QED BY <5>1 DEF TakeHead
      <4> QED BY <1>o, <2>2, <2>b, <2>n, <2>p, <3>1, <3>2, <4>1, <4>2
    <3>3. CASE ~(h + k <= HeadCap \/ k = 0)
      <4>1. g[k] = [rx |-> bad, body |-> y]
        <5>1. ~(k = l /\ h + l <= HeadCap)
          BY <2>0
        <5> QED BY <1>1, <2>0, <3>3, <5>1
      <4>2. h + l > HeadCap
        BY <1>0, <2>0, <3>3
      <4>3. Stopped(g[k])
        BY <1>5, <4>1, <4>2 DEF Stopped
      <4> QED BY <2>n, <3>1, <4>1, <4>3 DEF Take
    <3> QED BY <3>2, <3>3
  <2> QED BY <2>3, <2>4, <2>b, <2>n
<1>9. Path(g, t, v)
  <2>1. ASSUME NEW n \in 1..l PROVE g[n] = Take(g[n - 1], v[n].b)
    <3>k. PICK k : k = n - 1
      OBVIOUS
    <3>1. k \in 0..(l - 1) /\ k + 1 = n
      BY <1>0, <3>k
    <3>2. v[n].b = text[k + 1]
      BY <1>0, <3>1
    <3> QED BY <1>8, <3>1, <3>2, <3>k
  <2> QED BY <1>0, <1>6, <2>1 DEF Path
<1>10. ASSUME NEW k \in 0..(l - 1)
       PROVE  /\ ~g[k].rx.ended /\ g[k].body = y /\ g[k].rx.dec = r.dec
              /\ g[k].rx.result = "bad" \/ g[k].rx.result = "reading"
              /\ g[k].rx.result = "bad" => h + l > HeadCap
  <2>0. k \in 0..l /\ k # l
    BY <1>0
  <2>1. CASE h + k <= HeadCap \/ k = 0
    <3>1. g[k].rx = InLine(r, text, k) /\ g[k].body = y
      BY <1>1, <2>0, <2>1
    <3> QED BY <1>2, <2>0, <3>1
  <2>2. CASE ~(h + k <= HeadCap \/ k = 0)
    <3>1. g[k].rx = bad /\ g[k].body = y
      BY <1>1, <2>0, <2>2
    <3>2. h + l > HeadCap
      BY <1>0, <2>0, <2>2
    <3> QED BY <1>5, <3>1, <3>2
  <2> QED BY <2>1, <2>2
<1>11. /\ g[l].body = y
       /\ IF h + l > HeadCap THEN g[l].rx.result = "bad" ELSE g[l].rx = LineTaken(r, text)
  <2>0. l \in 0..l /\ l # 0
    BY <1>0
  <2>1. CASE h + l > HeadCap
    <3>1. ~(h + l <= HeadCap)
      BY <1>0, <2>1
    <3>2. g[l].rx = bad /\ g[l].body = y
      BY <1>1, <2>0, <3>1
    <3> QED BY <1>5, <2>1, <3>2
  <2>2. CASE ~(h + l > HeadCap)
    <3>1. h + l <= HeadCap
      BY <1>0, <2>2
    <3>2. g[l].rx = LineTaken(r, text) /\ g[l].body = y
      BY <1>1, <2>0, <3>1
    <3> QED BY <2>2, <3>2
  <2> QED BY <2>1, <2>2
<1>12. ReadsLine(g, t, v, text)
  BY <1>9, <1>10, <1>11, <1>h, <1>l, <1>r, <1>y DEF ReadsLine
<1> QED BY <1>12

\* A line of the head.
LEMMA HeadGoesOn ==
  ASSUME NEW t \in State, NEW s, NEW s2, NEW z, z = <<>>,
         Good(t, <<>>, s, z), AtEnd(t, s, z), ServerInv(s, z), InHead(s),
         ServerInv(s2, z), s2.at # "status", s.head \in Nat,
         NEW text \in Seq(HeadByte), Len(text) > 0, text[Len(text)] = "LF",
         \A k \in 1..(Len(text) - 1) : text[k] # "LF",
         s2.unfit <=> s.unfit \/ s.head + Len(text) > HeadCap,
         ~s2.unfit => \A p \in State : p.rx = LineTaken(t.rx, text) /\ p.body = <<>> =>
                        Good(p, <<>>, s2, z) /\ AtEnd(p, s2, z)
  PROVE  GoesOn(t, Marked("head", text), <<>>, s, s2, z)
<1>v. PICK v : v = Marked("head", text)
  OBVIOUS
<1>l. PICK l : l = Len(text)
  OBVIOUS
<1>1. /\ v \in Seq(Item) /\ Len(v) = l /\ l \in Nat /\ l > 0 /\ l = Len(text)
      /\ \A k \in 1..l : v[k].part = "head" /\ v[k].b = text[k]
  <2>1. "head" \in Part
    BY DEF Part
  <2>2. /\ Marked("head", text) \in Seq(Item) /\ Len(Marked("head", text)) = Len(text)
        /\ \A k \in 1..Len(text) : /\ Marked("head", text)[k].part = "head"
                                   /\ Marked("head", text)[k].b = text[k]
    BY <2>1, MarkedFacts
  <2> QED BY <1>l, <1>v, <2>2, LenProperties
<1>2. DataFirst(v, <<>>)
  BY <1>v, NoData DEF Part
<1>3. <<>> \in Seq(HeadByte) /\ z \in Seq(HeadByte) /\ z \o <<>> = z /\ Len(z) = 0
  <2>1. <<>> \in Seq(HeadByte) /\ Len(<<>>) = 0
    OBVIOUS
  <2> QED BY <2>1, ConcatEmptySeq
<1>4. Kept(s, z, v, s2, z \o <<>>)
  <2>1. v[1].part # "next" /\ Len(v) > 0
    BY <1>1
  <2>2. ~Ended(s)
    BY DEF InHead, Ended
  <2> QED BY <1>1, <1>2, <1>3, <2>1, <2>2, PieceKept
<1>5. ASSUME NEW k \in 0..l PROVE Got(After(v, k), z) = 0
  <2>1. z \o <<>> = z /\ k \in 0..Len(v)
    BY <1>1, <1>3
  <2>2. Got(After(v, k), z \o <<>>) \in 0..Len(z \o <<>>)
    BY <1>1, <1>2, <1>3, <2>1, GotAfter
  <2> QED BY <1>3, <2>1, <2>2
<1>6. ASSUME NEW k \in 0..(l - 1) PROVE After(v, k) # <<>> /\ After(v, k)[1].part = "head"
  <2>1. k \in 0..Len(v) /\ 1 \in 1..(Len(v) - k) /\ k + 1 \in 1..l
    BY <1>1
  <2>2. Len(After(v, k)) = Len(v) - k /\ After(v, k)[1] = v[k + 1]
    BY <1>1, <2>1, AfterFacts
  <2>3. Len(After(v, k)) # 0
    BY <1>1, <2>2
  <2> QED BY <1>1, <2>1, <2>2, <2>3, EmptyFacts
<1>7. After(v, l) = <<>>
  BY <1>1, AfterEnds
<1>8. CASE s.unfit
  <2>1. s2.unfit /\ s.at # "status"
    BY <1>8 DEF ServerInv
  <2>2. t.rx.result = "bad"
    <3>1. Idle(t)
      BY <1>8 DEF AtEnd
    <3>2. ASSUME t.rx.result # "bad" PROVE FALSE
      BY <3>1, <3>2 DEF Idle, Good
    <3> QED BY <3>2
  <2>g. PICK g : g = [k \in 0..l |-> t]
    OBVIOUS
  <2>3. \A k \in 0..l : g[k] = t
    BY <2>g
  <2>4. Path(g, t, v)
    <3>1. ASSUME NEW n \in 1..l PROVE g[n] = Take(g[n - 1], v[n].b)
      <4>1. n \in 0..l /\ n - 1 \in 0..l
        BY <1>1
      <4>2. \A b : Take(t, b) = t
        BY <2>2 DEF Take, Stopped
      <4> QED BY <2>3, <4>1, <4>2
    <3>2. g[0] = t
      BY <1>1, <2>3
    <3> QED BY <1>1, <3>1, <3>2 DEF Path
  <2>5. ASSUME NEW k \in 0..l PROVE Good(g[k], After(v, k), s2, z)
    <3>1. g[k] = t
      BY <2>3
    <3>2. Got(After(v, k), z) \in 0..Len(z)
      BY <1>3, <1>5
    <3> QED BY <2>1, <2>2, <3>1, <3>2 DEF Good
  <2>6. AtEnd(g[l], s2, z)
    <3>1. g[l] = t
      BY <1>1, <2>3
    <3> QED BY <2>1, <2>2, <3>1 DEF AtEnd, Idle
  <2>7. GoodPath(g, t, v, s2, z)
    BY <1>1, <2>4, <2>5, <2>6 DEF GoodPath
  <2>8. \E h : GoodPath(h, t, v, s2, z)
    BY <2>7
  <2> QED BY <1>1, <1>3, <1>4, <1>v, <2>8 DEF GoesOn
<1>9. CASE ~s.unfit
  <2>r. PICK r : r = t.rx
    OBVIOUS
  <2>1. /\ r.result = "reading" /\ ~r.ended /\ r.line = <<>> /\ Len(r.buf) = s.head
        /\ r.dec = Fresh /\ t.body = <<>>
    <3>1. r.result = "reading" /\ ~r.ended /\ r.dec = Fresh
      BY <1>9, <2>r DEF AtEnd
    <3>2. t.body = <<>>
      BY <2>r, <3>1 DEF Good
    <3>3. r.line = <<>> /\ Len(r.buf) = s.head
      <4>1. CASE s.at = "status"
        <5>1. r = NewReceiver(r.kind, r.cap) /\ s.head = 0
          BY <2>r, <4>1 DEF AtEnd, ServerInv
        <5>2. r.line = <<>> /\ r.buf = <<>>
          BY <5>1 DEF NewReceiver
        <5> QED BY <5>1, <5>2, EmptyFacts
      <4>2. CASE s.at = "fields"
        BY <1>9, <2>r, <4>2 DEF AtEnd, BetweenLines
      <4> QED BY <4>1, <4>2 DEF InHead
    <3> QED BY <3>1, <3>2, <3>3
  <2>2. PICK g : ReadsLine(g, t, v, text)
    BY <1>1, <2>1, <2>r, LineRead
  <2>3. Path(g, t, v)
    BY <2>2 DEF ReadsLine
  <2>f. s2.unfit <=> Len(r.buf) + l > HeadCap
    BY <1>9, <1>l, <2>1
  <2>4. /\ \A k \in 0..(l - 1) :
            /\ ~g[k].rx.ended /\ g[k].body = <<>> /\ g[k].rx.dec = Fresh
            /\ g[k].rx.result = "bad" \/ g[k].rx.result = "reading"
            /\ g[k].rx.result = "bad" => s2.unfit
        /\ g[l].body = <<>>
        /\ IF s2.unfit THEN g[l].rx.result = "bad" ELSE g[l].rx = LineTaken(r, text)
    BY <1>l, <2>1, <2>2, <2>f, <2>r DEF ReadsLine
  <2>5. ASSUME NEW k \in 0..(l - 1) PROVE Good(g[k], After(v, k), s2, z)
    <3>1. k \in 0..l
      BY <1>1
    <3>x. PICK w : w = After(v, k)
      OBVIOUS
    <3>p. PICK p : p = g[k]
      OBVIOUS
    <3>2. Got(w, z) = 0 /\ w # <<>> /\ w[1].part = "head"
      BY <1>5, <1>6, <3>1, <3>x
    <3>3. /\ ~p.rx.ended /\ p.body = <<>> /\ ~p.rx.dec.done
          /\ p.rx.result = "bad" \/ p.rx.result = "reading"
          /\ p.rx.result = "bad" => s2.unfit
      BY <2>4, <3>p DEF Fresh
    <3>4. Got(w, z) \in 0..Len(z)
      BY <1>3, <3>2
    <3>5. Good(p, w, s2, z)
      BY <3>2, <3>3, <3>4 DEF Good
    <3> QED BY <3>5, <3>p, <3>x
  <2>p. PICK p : p = g[l]
    OBVIOUS
  <2>6. p \in State
    <3>1. l \in 0..Len(v)
      BY <1>1
    <3> QED BY <1>1, <2>3, <2>p, <3>1, PathTyped
  <2>7. Good(p, <<>>, s2, z) /\ AtEnd(p, s2, z)
    <3>1. CASE s2.unfit
      <4>1. p.rx.result = "bad"
        BY <2>4, <2>p, <3>1
      <4>2. Got(<<>>, z) = 0
        <5>1. l \in 0..l
          BY <1>1
        <5> QED BY <1>5, <1>7, <5>1
      <4>3. Got(<<>>, z) \in 0..Len(z)
        BY <1>3, <4>2
      <4>4. Good(p, <<>>, s2, z)
        BY <3>1, <4>1, <4>3 DEF Good
      <4>5. AtEnd(p, s2, z)
        BY <3>1, <4>1 DEF AtEnd, Idle
      <4> QED BY <4>4, <4>5
    <3>2. CASE ~s2.unfit
      <4>1. p.rx = LineTaken(t.rx, text) /\ p.body = <<>>
        BY <2>4, <2>p, <2>r, <3>2
      <4> QED BY <2>6, <3>2, <4>1
    <3> QED BY <3>1, <3>2
  <2>8. ASSUME NEW k \in 0..l PROVE Good(g[k], After(v, k), s2, z)
    <3>1. CASE k = l
      BY <1>7, <2>7, <2>p, <3>1
    <3>2. CASE k # l
      <4>1. k \in 0..(l - 1)
        BY <1>1, <3>2
      <4> QED BY <2>5, <4>1
    <3> QED BY <3>1, <3>2
  <2>9. GoodPath(g, t, v, s2, z)
    BY <1>1, <2>3, <2>7, <2>8, <2>p DEF GoodPath
  <2>10. \E h : GoodPath(h, t, v, s2, z)
    BY <2>9
  <2> QED BY <1>1, <1>3, <1>4, <1>v, <2>10 DEF GoesOn
<1> QED BY <1>8, <1>9

\* A sequence ends with CRLF when its last two elements say so.
LEMMA TailIs ==
  ASSUME NEW w \in Seq(HeadByte), Len(w) >= 2
  PROVE  SubSeq(w, Len(w) - 1, Len(w)) = CRLF <=> w[Len(w) - 1] = "CR" /\ w[Len(w)] = "LF"
<1>n. PICK n : n = Len(w)
  OBVIOUS
<1>m. PICK m : m = n - 1
  OBVIOUS
<1>x. PICK x : x = SubSeq(w, m, n)
  OBVIOUS
<1>e. PICK e : e = CRLF
  OBVIOUS
<1>0. n \in Nat /\ m \in 1..(Len(w) + 1) /\ n \in (m - 1)..Len(w) /\ n - m + 1 = 2 /\ m \in Nat
  BY <1>n, <1>m, LenProperties
<1>1. /\ SubSeq(w, m, n) \in Seq(HeadByte) /\ Len(SubSeq(w, m, n)) = n - m + 1
      /\ \A i \in 1..(n - m + 1) : SubSeq(w, m, n)[i] = w[m + i - 1]
  BY <1>0, SubSeqProperties
<1>2. x \in Seq(HeadByte) /\ Len(x) = 2 /\ \A i \in 1..2 : x[i] = w[m + i - 1]
  BY <1>0, <1>1, <1>x
<1>3. x[1] = w[n - 1] /\ x[2] = w[n]
  <2>1. m + 1 - 1 = n - 1 /\ m + 2 - 1 = n /\ 1 \in 1..2 /\ 2 \in 1..2
    BY <1>0, <1>m
  <2> QED BY <1>2, <2>1
<1>4. e \in Seq(HeadByte) /\ Len(e) = 2 /\ e[1] = "CR" /\ e[2] = "LF"
  BY <1>e, CRLFFacts
<1>5. ASSUME x[1] = e[1], x[2] = e[2] PROVE x = e
  <2>1. ASSUME NEW i \in 1..Len(x) PROVE x[i] = e[i]
    <3>1. i = 1 \/ i = 2
      BY <1>2
    <3> QED BY <1>5, <3>1
  <2> QED BY <1>2, <1>4, <2>1, SeqEqual
<1> QED BY <1>3, <1>4, <1>5, <1>e, <1>m, <1>n, <1>x

\* w is what the buffer b of the head is after the line of core, and what it ends in.
LineEnd(w, b, core) ==
    /\ w \in Seq(HeadByte) /\ Len(w) = Len(b) + Len(core) + 2
    /\ Len(b) \in Nat /\ Len(core) \in Nat
    /\ SubSeq(w, Len(w) - 1, Len(w)) = CRLF
    /\ EndOfHead(w) <=> /\ Len(core) = 0 /\ Len(b) >= 2
                        /\ SubSeq(b, Len(b) - 1, Len(b)) = CRLF

\* A line ends the head only when it is empty and follows another one.
LEMMA LineEnds ==
  ASSUME NEW b \in Seq(HeadByte), NEW core \in Seq(HeadByte),
         \A k \in 1..Len(core) : core[k] # "LF",
         NEW text, text = core \o CRLF
  PROVE  LineEnd(b \o text, b, core)
<1>x. PICK x : x = text
  OBVIOUS
<1>w. PICK w : w = b \o x
  OBVIOUS
<1>n. PICK n : n = Len(b)
  OBVIOUS
<1>m. PICK m : m = Len(core)
  OBVIOUS
<1>1. /\ x \in Seq(HeadByte) /\ Len(x) = m + 2 /\ m \in Nat
      /\ \A k \in 1..m : x[k] = core[k]
      /\ x[m + 1] = "CR" /\ x[m + 2] = "LF"
  BY <1>m, <1>x, LineFacts
<1>2. /\ w \in Seq(HeadByte) /\ Len(w) = n + m + 2 /\ n \in Nat
      /\ \A i \in 1..n : w[i] = b[i]
      /\ \A i \in 1..(m + 2) : w[n + i] = x[i]
  <2>1. /\ b \o x \in Seq(HeadByte) /\ Len(b \o x) = Len(b) + Len(x) /\ Len(b) \in Nat
        /\ \A i \in 1..Len(b) : (b \o x)[i] = b[i]
        /\ \A i \in 1..Len(x) : (b \o x)[Len(b) + i] = x[i]
    <3>1. b \in Seq(HeadByte) /\ x \in Seq(HeadByte)
      BY <1>1
    <3> QED BY <3>1, CatFacts
  <2>2. Len(b) + (m + 2) = n + m + 2
    BY <1>1, <1>n, <2>1
  <2> QED BY <1>1, <1>n, <1>w, <2>1, <2>2
<1>l. PICK l : l = Len(w)
  OBVIOUS
<1>3. /\ l \in Nat /\ l >= 2 /\ m + 1 \in 1..(m + 2) /\ m + 2 \in 1..(m + 2)
      /\ n + (m + 1) = l - 1 /\ n + (m + 2) = l
  BY <1>1, <1>2, <1>l
<1>4. w[l - 1] = "CR" /\ w[l] = "LF"
  BY <1>1, <1>2, <1>3
<1>5. SubSeq(w, l - 1, l) = CRLF
  BY <1>2, <1>3, <1>4, <1>l, TailIs
<1>6. EndOfHead(w) <=> l >= 4 /\ w[l - 3] = "CR" /\ w[l - 2] = "LF"
  BY <1>2, <1>4, <1>l, EndIs
<1>7. CASE m > 0
  <2>1. w[l - 2] # "LF"
    <3>1. m \in 1..m /\ m \in 1..(m + 2) /\ n + m = l - 2
      BY <1>1, <1>2, <1>3, <1>7
    <3> QED BY <1>1, <1>2, <1>m, <3>1
  <2>2. m # 0
    BY <1>7
  <2> QED BY <1>2, <1>3, <1>5, <1>6, <1>l, <1>m, <1>n, <1>w, <1>x, <1>1, <2>1, <2>2 DEF LineEnd
<1>8. CASE ~(m > 0)
  <2>1. m = 0 /\ l = n + 2
    BY <1>1, <1>2, <1>3, <1>8
  <2>2. CASE n >= 2
    <3>1. n - 1 \in 1..n /\ n \in 1..n /\ l - 3 = n - 1 /\ l - 2 = n /\ l >= 4
      BY <1>2, <2>1, <2>2
    <3>2. w[l - 3] = b[n - 1] /\ w[l - 2] = b[n]
      BY <1>2, <3>1
    <3>3. SubSeq(b, n - 1, n) = CRLF <=> b[n - 1] = "CR" /\ b[n] = "LF"
      BY <1>n, <2>2, TailIs
    <3> QED
      BY <1>1, <1>2, <1>5, <1>6, <1>l, <1>m, <1>n, <1>w, <1>x,
         <2>1, <2>2, <3>1, <3>2, <3>3 DEF LineEnd
  <2>3. CASE ~(n >= 2)
    <3>1. ~(l >= 4)
      BY <1>2, <2>1, <2>3
    <3> QED BY <1>1, <1>2, <1>5, <1>6, <1>l, <1>m, <1>n, <1>w, <1>x, <2>1, <2>3, <3>1 DEF LineEnd
  <2> QED BY <2>2, <2>3
<1> QED BY <1>7, <1>8

\* What the receiver is after a line.
Taken(q, r, buf, line_) ==
    /\ q.line = <<>> /\ q.status /\ q.result = r.result /\ q.dec = r.dec
    /\ q.total = r.total /\ q.kind = r.kind /\ q.cap = r.cap
    /\ EndOfHead(buf) => q.ended
    /\ ~EndOfHead(buf) => (q.ended <=> r.ended) /\ q.buf = buf
    /\ ~r.status => q.len = r.len /\ (q.chunked <=> r.chunked)
    /\ r.status =>
         /\ q.len = IF r.len = NoLen THEN ContentLength(line_) ELSE r.len
         /\ q.chunked <=> r.chunked \/ Field(line_, "Transfer-Encoding:", "chunked")

\* What a whole line changes of the receiver.
LEMMA LineTakenIs ==
  ASSUME NEW r \in Receiver, NEW text \in Seq(HeadByte)
  PROVE  Taken(LineTaken(r, text), r, r.buf \o text, Line(text, Len(text)))
<1>i. PICK i : i = InLine(r, text, Len(text))
  OBVIOUS
<1>q. PICK q : q = LineTaken(r, text)
  OBVIOUS
<1>n. PICK n : n = TakeLine(i)
  OBVIOUS
<1>e. PICK e : e = [n EXCEPT !.line = <<>>]
  OBVIOUS
<1>b. PICK b : b = r.buf \o text
  OBVIOUS
<1>l. PICK l : l = Line(text, Len(text))
  OBVIOUS
<1>1. /\ i \in Receiver /\ i.line = l /\ i.kind = r.kind /\ i.cap = r.cap
      /\ i.status = r.status /\ i.ended = r.ended /\ i.len = r.len /\ i.chunked = r.chunked
      /\ i.dec = r.dec /\ i.total = r.total /\ i.result = r.result /\ i.buf = b
  <2>1. Len(text) \in 0..Len(text)
    BY LenProperties
  <2>2. SubSeq(text, 1, Len(text)) = text
    BY PrefixFull
  <2>3. i.buf = r.buf \o SubSeq(text, 1, Len(text))
    BY <1>i, <2>1, InLineFacts
  <2> QED BY <1>b, <1>i, <1>l, <2>1, <2>2, <2>3, InLineFacts
<1>2. /\ n \in Receiver /\ n.kind = r.kind /\ n.cap = r.cap /\ n.status /\ n.ended = r.ended
      /\ n.dec = r.dec /\ n.total = r.total /\ n.result = r.result /\ n.buf = b
      /\ ~r.status => n.len = r.len /\ n.chunked = r.chunked
      /\ r.status => /\ n.len = IF r.len = NoLen THEN ContentLength(l) ELSE r.len
                     /\ n.chunked = (r.chunked \/ Field(l, "Transfer-Encoding:", "chunked"))
  <2>0. n \in Receiver
    BY <1>1, <1>n, TakeLineIs
  <2>1. CASE ~r.status
    <3>1. n = [i EXCEPT !.status = TRUE]
      BY <1>1, <1>n, <2>1, TakeLineIs
    <3> QED BY <1>1, <2>0, <2>1, <3>1 DEF Receiver
  <2>2. CASE r.status
    <3>k. PICK k : k = IF r.len = NoLen THEN ContentLength(l) ELSE r.len
      OBVIOUS
    <3>c. PICK c : c = (r.chunked \/ Field(l, "Transfer-Encoding:", "chunked"))
      OBVIOUS
    <3>1. \E o \in BOOLEAN : n = [i EXCEPT !.len = k, !.chunked = c, !.close = o]
      <4>1. \E o \in BOOLEAN :
              n = [i EXCEPT
                !.len = IF i.len = NoLen THEN ContentLength(i.line) ELSE i.len,
                !.chunked = (i.chunked \/ Field(i.line, "Transfer-Encoding:", "chunked")),
                !.close = o]
        BY <1>1, <1>n, <2>2, TakeLineIs
      <4> QED BY <1>1, <3>c, <3>k, <4>1
    <3>2. /\ n.len = k /\ n.chunked = c /\ n.kind = i.kind /\ n.cap = i.cap
          /\ n.status = i.status /\ n.ended = i.ended /\ n.dec = i.dec /\ n.total = i.total
          /\ n.result = i.result /\ n.buf = i.buf
      BY <1>1, <3>1 DEF Receiver
    <3> QED BY <1>1, <2>0, <2>2, <3>2, <3>c, <3>k
  <2> QED BY <2>1, <2>2
<1>3. /\ e.line = <<>> /\ e.kind = n.kind /\ e.cap = n.cap /\ e.status = n.status
      /\ e.ended = n.ended /\ e.dec = n.dec /\ e.total = n.total /\ e.result = n.result
      /\ e.buf = n.buf /\ e.len = n.len /\ e.chunked = n.chunked /\ e \in Receiver
  <2>1. <<>> \in Seq(HeadByte)
    OBVIOUS
  <2> QED BY <1>2, <1>e, <2>1 DEF Receiver
<1>4. q = IF EndOfHead(b) THEN [e EXCEPT !.ended = TRUE, !.buf = <<>>] ELSE e
  BY <1>b, <1>e, <1>i, <1>n, <1>q DEF LineTaken
<1>5. CASE EndOfHead(b)
  <2>1. /\ q.line = e.line /\ q.kind = e.kind /\ q.cap = e.cap /\ q.status = e.status
        /\ q.ended = TRUE /\ q.dec = e.dec /\ q.total = e.total /\ q.result = e.result
        /\ q.len = e.len /\ q.chunked = e.chunked
    BY <1>3, <1>4, <1>5 DEF Receiver
  <2> QED BY <1>2, <1>3, <1>5, <1>b, <1>l, <1>q, <2>1 DEF Taken
<1>6. CASE ~EndOfHead(b)
  <2>1. q = e
    BY <1>4, <1>6
  <2> QED BY <1>2, <1>3, <1>6, <1>b, <1>l, <1>q, <2>1 DEF Taken
<1> QED BY <1>5, <1>6

\* The line of the status.
LEMMA StatusGoesOn ==
  ASSUME NEW t \in State, NEW s \in Server, NEW z \in Seq(HeadByte),
         Good(t, <<>>, s, z), AtEnd(t, s, z), ServerInv(s, z), s.at = "status"
  PROVE  GoesOn(t, Marked("head", <<"x">> \o CRLF), <<>>, s,
                [s EXCEPT !.at = "fields", !.head = 3, !.unfit = 3 > HeadCap], z)
<1>c. PICK core : core = <<"x">>
  OBVIOUS
<1>x. PICK text : text = core \o CRLF
  OBVIOUS
<1>2. PICK s2 : s2 = [s EXCEPT !.at = "fields", !.head = 3, !.unfit = 3 > HeadCap]
  OBVIOUS
<1>0. core \in Seq(HeadByte) /\ Len(core) = 1 /\ core[1] = "x" /\ z = <<>> /\ InHead(s)
      /\ \A k \in 1..Len(core) : core[k] # "LF"
  <2>1. "x" \in HeadByte
    BY DEF HeadByte, Byte
  <2>2. core \in Seq(HeadByte) /\ Len(core) = 1 /\ core[1] = "x"
    BY <1>c, <2>1
  <2> QED BY <2>2 DEF ServerInv, InHead
<1>1. /\ text \in Seq(HeadByte) /\ Len(text) = 3 /\ Len(text) > 0 /\ text[Len(text)] = "LF"
      /\ \A k \in 1..(Len(text) - 1) : text[k] # "LF"
  <2>1. /\ text \in Seq(HeadByte) /\ Len(text) = Len(core) + 2
        /\ \A k \in 1..Len(core) : text[k] = core[k]
        /\ text[Len(core) + 1] = "CR" /\ text[Len(core) + 2] = "LF"
    BY <1>0, <1>x, LineFacts
  <2>2. text[1] = "x" /\ text[2] = "CR" /\ text[3] = "LF" /\ Len(text) = 3
    BY <1>0, <2>1
  <2>3. ASSUME NEW k \in 1..(Len(text) - 1) PROVE text[k] # "LF"
    <3>1. k = 1 \/ k = 2
      BY <2>2
    <3> QED BY <2>2, <3>1
  <2> QED BY <2>1, <2>2, <2>3
<1>3. /\ s2.at = "fields" /\ s2.head = 3 /\ (s2.unfit <=> 3 > HeadCap)
      /\ s2.framing = "none" /\ s2.len = NoLen /\ s.head = 0 /\ ~s.unfit
      /\ s.framing = "none" /\ s.len = NoLen
      /\ InHead(s2) /\ ~Ended(s2)
  BY <1>2 DEF Server, ServerInv, InHead, Ended
<1>4. ServerInv(s2, z)
  BY <1>0, <1>3 DEF ServerInv
<1>r. PICK r : r = t.rx
  OBVIOUS
<1>5. /\ r \in Receiver /\ r.buf = <<>> /\ r.len = NoLen /\ ~r.chunked /\ ~r.status /\ ~r.ended
      /\ r.dec = Fresh /\ r.total = 0 /\ r.result = "reading"
  <2>1. r = NewReceiver(r.kind, r.cap)
    BY <1>r DEF AtEnd
  <2> QED BY <1>r, <2>1 DEF NewReceiver, State
<1>6. ASSUME ~s2.unfit, NEW p \in State, p.rx = LineTaken(t.rx, text), p.body = <<>>
      PROVE  Good(p, <<>>, s2, z) /\ AtEnd(p, s2, z)
  <2>b. PICK b : b = r.buf \o text
    OBVIOUS
  <2>q. PICK q : q = p.rx
    OBVIOUS
  <2>1. ~EndOfHead(b) /\ Len(b) = 3 /\ SubSeq(b, Len(b) - 1, Len(b)) = CRLF
    <3>1. r.buf \in Seq(HeadByte) /\ Len(r.buf) = 0
      <4>1. Len(<<>>) = 0 /\ <<>> \in Seq(HeadByte)
        OBVIOUS
      <4> QED BY <1>5, <4>1
    <3>u. PICK u : u = r.buf
      OBVIOUS
    <3>2. u \in Seq(HeadByte) /\ Len(u) = 0
      BY <3>1, <3>u
    <3>3. core \in Seq(HeadByte) /\ (\A k \in 1..Len(core) : core[k] # "LF") /\ text = core \o CRLF
      BY <1>0, <1>x
    <3>4. LineEnd(u \o text, u, core)
      BY <3>2, <3>3, LineEnds
    <3>5. LineEnd(b, u, core)
      BY <2>b, <3>4, <3>u
    <3> QED BY <1>0, <3>2, <3>5 DEF LineEnd
  <2>2. /\ q.line = <<>> /\ q.status /\ q.result = "reading" /\ q.dec = Fresh /\ q.total = 0
        /\ ~q.ended /\ q.buf = b /\ q.len = NoLen /\ ~q.chunked
    <3>1. Taken(LineTaken(r, text), r, r.buf \o text, Line(text, Len(text)))
      BY <1>1, <1>5, LineTakenIs
    <3>2. q = LineTaken(r, text)
      BY <1>6, <1>r, <2>q
    <3>3. Taken(q, r, b, Line(text, Len(text)))
      BY <2>b, <3>1, <3>2
    <3> QED BY <1>5, <2>1, <3>3 DEF Taken
  <2>3. Good(p, <<>>, s2, z)
    <3>1. Got(<<>>, z) = 0 /\ Got(<<>>, z) \in 0..Len(z)
      <4>1. Got(<<>>, z) = Len(z) /\ Len(z) = 0
        <5>1. Got(<<>>, z) = Len(z)
          BY EmptyFacts
        <5> QED BY <1>0, <5>1, EmptyFacts
      <4> QED BY <4>1
    <3>2. ~q.dec.done
      BY <2>2 DEF Fresh
    <3> QED BY <1>3, <1>6, <2>2, <2>q, <3>1, <3>2 DEF Good
  <2>4. BetweenLines(p, s2)
    BY <1>3, <2>1, <2>2, <2>q DEF BetweenLines
  <2>5. AtEnd(p, s2, z)
    BY <1>3, <1>6, <2>2, <2>4, <2>q DEF AtEnd
  <2> QED BY <2>3, <2>5
<1>7. s2.unfit <=> s.unfit \/ s.head + Len(text) > HeadCap
  BY <1>1, <1>3
<1>8. s2.at # "status" /\ s.head \in Nat
  BY <1>3
<1>9. GoesOn(t, Marked("head", text), <<>>, s, s2, z)
  BY <1>0, <1>1, <1>4, <1>6, <1>7, <1>8, HeadGoesOn
<1> QED BY <1>2, <1>9, <1>c, <1>x

\* The server after the empty line.
AfterBlank(s) ==
    [s EXCEPT
        !.head = 0, !.fields = 0, !.coded = FALSE,
        !.left = IF s.framing = "length" THEN s.len ELSE 0,
        !.unfit = @ \/ s.head + 2 > HeadCap,
        !.at = CASE s.framing = "chunked" -> "size"
                 [] s.framing = "length" /\ s.len = 0 -> "next"
                 [] OTHER -> "body"]

\* The line that ends the head: it says nothing, and it is the end.
LEMMA BlankGoesOn ==
  ASSUME NEW t \in State, NEW s \in Server, NEW z \in Seq(HeadByte),
         Good(t, <<>>, s, z), AtEnd(t, s, z), ServerInv(s, z), s.at = "fields"
  PROVE  GoesOn(t, Marked("head", CRLF), <<>>, s, AfterBlank(s), z)
<1>x. PICK text : text = CRLF
  OBVIOUS
<1>2. PICK s2 : s2 = AfterBlank(s)
  OBVIOUS
<1>r. PICK r : r = t.rx
  OBVIOUS
<1>0. z = <<>> /\ InHead(s) /\ Len(z) = 0 /\ r \in Receiver
  BY <1>r, EmptyFacts DEF ServerInv, InHead, State
<1>1. /\ text \in Seq(HeadByte) /\ Len(text) = 2 /\ Len(text) > 0 /\ text[Len(text)] = "LF"
      /\ text[1] = "CR"
      /\ \A k \in 1..(Len(text) - 1) : text[k] # "LF"
  <2>1. text \in Seq(HeadByte) /\ Len(text) = 2 /\ text[1] = "CR" /\ text[2] = "LF"
    BY <1>x, CRLFFacts
  <2>2. ASSUME NEW k \in 1..(Len(text) - 1) PROVE text[k] # "LF"
    <3>1. k = 1
      BY <2>1
    <3> QED BY <2>1, <3>1
  <2> QED BY <2>1, <2>2
<1>3. /\ s2.framing = s.framing /\ s2.len = s.len /\ ~InHead(s2)
      /\ s2.left = (IF s.framing = "length" THEN s.len ELSE 0)
      /\ (s2.unfit <=> s.unfit \/ s.head + 2 > HeadCap)
      /\ s2.at = CASE s.framing = "chunked" -> "size"
                   [] s.framing = "length" /\ s.len = 0 -> "next"
                   [] OTHER -> "body"
  BY <1>2 DEF AfterBlank, Server, InHead
<1>4. /\ s.framing \in {"none", "length", "chunked"} /\ s.head \in Nat
      /\ s.framing # "chunked" => (s.framing = "none" <=> s.len = NoLen)
      /\ s.len \in Nat \cup {NoLen}
  BY DEF Server, ServerInv
<1>5. /\ s.framing = "chunked" => s2.at = "size"
      /\ s.framing = "none" => s2.at = "body"
      /\ s.framing = "length" => /\ s.len \in Nat /\ s.len # NoLen
                                 /\ s2.at = IF s.len = 0 THEN "next" ELSE "body"
                                 /\ s2.left = s.len
  BY <1>3, <1>4
<1>6. Ended(s2) <=> s.framing = "length" /\ s.len = 0
  BY <1>4, <1>5 DEF Ended
<1>7. ServerInv(s2, z)
  <2>1. s.framing = "length" => Len(z) + s2.left = s2.len /\ (s2.left = 0 <=> Ended(s2))
    <3>1. \A n \in Nat : 0 + n = n
      OBVIOUS
    <3> QED BY <1>0, <1>3, <1>5, <1>6, <3>1
  <2>2. s2.at \in {"size", "body", "next"}
    BY <1>4, <1>5
  <2> QED BY <1>3, <1>4, <1>5, <1>6, <2>1, <2>2 DEF ServerInv
<1>8. Line(text, Len(text)) = text
  <2>1. Least(Len(text), Room) = Len(text)
    BY <1>1, HeadCaps DEF Least
  <2>2. SubSeq(text, 1, Len(text)) = text
    BY <1>1, PrefixFull
  <2> QED BY <2>1, <2>2 DEF Line
<1>9. ContentLength(text) = NoLen /\ ~Field(text, "Transfer-Encoding:", "chunked")
  <2>1. Head(text) = "CR"
    BY <1>1
  <2>2. ~HasName(text, "Content-Length:") /\ ~HasName(text, "Transfer-Encoding:")
    BY <2>1 DEF HasName
  <2> QED BY <2>2 DEF ContentLength, Field
<1>10. ASSUME ~s2.unfit, NEW p \in State, p.rx = LineTaken(t.rx, text), p.body = <<>>
       PROVE  Good(p, <<>>, s2, z) /\ AtEnd(p, s2, z)
  <2>b. PICK b : b = r.buf \o text
    OBVIOUS
  <2>q. PICK q : q = p.rx
    OBVIOUS
  <2>0. /\ ~s.unfit /\ BetweenLines(t, s) /\ r.result = "reading" /\ r.dec = Fresh
        /\ r.total = 0
    BY <1>0, <1>3, <1>10, <1>r DEF AtEnd
  <2>1. EndOfHead(b)
    <3>u. PICK u : u = r.buf
      OBVIOUS
    <3>e. PICK e : e = <<>>
      OBVIOUS
    <3>1. /\ u \in Seq(HeadByte) /\ Len(u) >= 2 /\ SubSeq(u, Len(u) - 1, Len(u)) = CRLF
      BY <1>0, <1>r, <2>0, <3>u DEF BetweenLines, Receiver
    <3>2. /\ e \in Seq(HeadByte) /\ Len(e) = 0 /\ (\A k \in 1..Len(e) : e[k] # "LF")
          /\ text = e \o CRLF
      <4>1. e \in Seq(HeadByte) /\ Len(e) = 0
        BY <3>e, EmptyFacts
      <4>2. e \o text = text
        BY <1>1, <3>e, ConcatEmptySeq
      <4>3. \A k \in 1..Len(e) : e[k] # "LF"
        BY <4>1
      <4> QED BY <1>x, <4>1, <4>2, <4>3
    <3>3. LineEnd(u \o text, u, e)
      BY <3>1, <3>2, LineEnds
    <3>4. LineEnd(b, u, e)
      BY <2>b, <3>3, <3>u
    <3> QED BY <3>1, <3>2, <3>4 DEF LineEnd
  <2>2. Taken(q, r, b, text)
    <3>1. Taken(LineTaken(r, text), r, r.buf \o text, Line(text, Len(text)))
      BY <1>0, <1>1, LineTakenIs
    <3>2. q = LineTaken(r, text)
      BY <1>10, <1>r, <2>q
    <3> QED BY <1>8, <2>b, <3>1, <3>2
  <2>3. r.status /\ r.len = s.len /\ (r.chunked <=> s.framing = "chunked")
    BY <1>r, <2>0 DEF BetweenLines
  <2>4. /\ q.ended /\ q.result = "reading" /\ q.dec = Fresh /\ q.total = 0 /\ q.len = s.len
        /\ (q.chunked <=> s.framing = "chunked")
    BY <1>9, <2>0, <2>1, <2>2, <2>3 DEF Taken
  <2>5. ~q.dec.done /\ ~q.dec.bad /\ q.dec.at = "size" /\ q.dec.line = <<>>
    BY <2>4 DEF Fresh
  <2>6. Complete(q) <=> s.framing = "none" \/ (s.framing = "length" /\ s.len = 0)
    <3>1. CASE s.framing = "chunked"
      BY <2>4, <2>5, <3>1 DEF Complete
    <3>2. CASE s.framing = "none"
      BY <1>4, <2>4, <3>2 DEF Complete
    <3>3. CASE s.framing = "length"
      <4>1. s.len \in Nat /\ s.len # NoLen
        BY <1>5, <3>3
      <4>2. 0 >= s.len <=> s.len = 0
        BY <4>1
      <4> QED BY <2>4, <3>3, <4>1, <4>2 DEF Complete
    <3> QED BY <1>4, <3>1, <3>2, <3>3
  <2>7. Good(p, <<>>, s2, z)
    <3>1. Got(<<>>, z) = 0
      <4>1. Got(<<>>, z) = Len(z)
        BY EmptyFacts
      <4> QED BY <1>0, <4>1
    <3>2. Got(<<>>, z) \in 0..Len(z)
      BY <1>0, <3>1
    <3>3. p.body = IF q.kind = "keep" /\ s2.framing = "none" THEN <<>>
                   ELSE SubSeq(z, 1, Least(Got(<<>>, z), q.cap))
      <4>1. Least(0, q.cap) = 0
        <5>1. q.cap \in Nat
          BY <2>q DEF State, Receiver
        <5> QED BY <5>1 DEF Least
      <4>2. SubSeq(z, 1, 0) = <<>>
        BY PrefixFull
      <4> QED BY <1>10, <3>1, <4>1, <4>2
    <3>4. q.kind = "keep" /\ s2.framing # "none" => (Complete(q) <=> Ended(s2) /\ OnlyNext(<<>>))
      BY <1>3, <1>6, <2>6, EmptyFacts
    <3> QED BY <1>3, <2>4, <2>5, <2>q, <3>2, <3>3, <3>4 DEF Good
  <2>8. AtEnd(p, s2, z)
    <3>1. Decodes(q) => DecoderAt(q.dec, s2)
      <4>1. ASSUME Decodes(q) PROVE DecoderAt(q.dec, s2)
        <5>1. s.framing = "chunked" /\ s2.at = "size" /\ ~Ended(s2)
          BY <1>5, <1>6, <2>4, <4>1 DEF Decodes
        <5> QED BY <2>5, <5>1 DEF DecoderAt
      <4> QED BY <4>1
    <3>2. s2.at # "status" /\ s2.at # "fields"
      BY <1>3 DEF InHead
    <3> QED BY <1>0, <1>10, <1>3, <2>4, <2>q, <3>1, <3>2 DEF AtEnd
  <2> QED BY <2>7, <2>8
<1>11. s2.unfit <=> s.unfit \/ s.head + Len(text) > HeadCap
  BY <1>1, <1>3
<1>12. s2.at # "status" /\ s.head \in Nat
  BY <1>3, <1>4 DEF InHead
<1>13. GoesOn(t, Marked("head", text), <<>>, s, s2, z)
  BY <1>0, <1>1, <1>7, <1>10, <1>11, <1>12, HeadGoesOn
<1> QED BY <1>2, <1>13, <1>x

-----------------------------------------------------------------------------
(***************************************************************************)
(* What a field says.                                                      *)
(***************************************************************************)
\* A sequence without its first element.
LEMMA TailFacts ==
  ASSUME NEW w \in Seq(HeadByte), Len(w) > 0
  PROVE  /\ Tail(w) \in Seq(HeadByte) /\ Len(Tail(w)) = Len(w) - 1 /\ Head(w) = w[1]
         /\ \A i \in 1..(Len(w) - 1) : Tail(w)[i] = w[i + 1]
<1>1. w # <<>>
  BY EmptyFacts
<1>2. /\ Tail(w) \in Seq(HeadByte) /\ Len(Tail(w)) = Len(w) - 1
      /\ \A i \in 1..Len(Tail(w)) : Tail(w)[i] = w[i + 1]
  BY <1>1, HeadTailProperties
<1> QED BY <1>1, <1>2

\* x is the elements of w from place a to place b.
Cut(x, w, a, b) ==
    /\ x \in Seq(HeadByte) /\ Len(x) = b - a + 1
    /\ \A i \in 1..(b - a + 1) : x[i] = w[a + i - 1]

\* A piece of a sequence, element by element.
LEMMA CutIs ==
  ASSUME NEW w \in Seq(HeadByte), NEW a \in 1..(Len(w) + 1), NEW b \in (a - 1)..Len(w)
  PROVE  Cut(SubSeq(w, a, b), w, a, b)
<1>0. Len(w) \in Nat /\ a \in Int /\ b \in Int
  BY LenProperties
<1>1. \A i \in a..b : w[i] \in HeadByte
  <2> SUFFICES ASSUME NEW i \in a..b PROVE w[i] \in HeadByte
    OBVIOUS
  <2>1. i \in 1..Len(w)
    BY <1>0
  <2> QED BY <2>1, ElementOfSeq
<1>2. /\ SubSeq(w, a, b) \in Seq(HeadByte)
      /\ Len(SubSeq(w, a, b)) = IF a <= b THEN b - a + 1 ELSE 0
      /\ \A i \in 1..(b - a + 1) : SubSeq(w, a, b)[i] = w[a + i - 1]
  BY <1>0, <1>1, SubSeqProperties
<1>3. (IF a <= b THEN b - a + 1 ELSE 0) = b - a + 1
  BY <1>0
<1> QED BY <1>2, <1>3 DEF Cut

\* The blanks at the start.
LEMMA SkipIs ==
  ASSUME NEW w \in Seq(HeadByte), NEW k \in 1..Len(w), \A i \in 1..(k - 1) : w[i] = "SP",
         w[k] # "SP"
  PROVE  SkipBlanks(w) = SubSeq(w, k, Len(w))
<1> DEFINE I == {i \in 1..Len(w) : w[i] # "SP"}
           n == SelectInSeq(w, LAMBDA b : b # "SP")
<1>1. Len(w) \in Nat /\ k \in Nat /\ k # 0
  BY LenProperties
<1>2. n = IF I # {} THEN Min(I) ELSE 0
  BY DEF SelectInSeq
<1>3. SkipBlanks(w) = IF n = 0 THEN <<>> ELSE SubSeq(w, n, Len(w))
  BY DEF SkipBlanks
<1> HIDE DEF n
<1>4. k \in I /\ (\A i \in I : k <= i) /\ I \subseteq Nat
  <2>1. ASSUME NEW i \in I PROVE k <= i
    <3>1. i \in 1..Len(w) /\ w[i] # "SP"
      OBVIOUS
    <3>2. ~(i \in 1..(k - 1))
      BY <3>1
    <3> QED BY <1>1, <3>1, <3>2
  <2> QED BY <1>1, <2>1
<1> HIDE DEF I
<1>5. Min(I) = k
  <2>1. \E x \in I : \A y \in I : x <= y
    BY <1>4
  <2>2. Min(I) \in I /\ \A y \in I : Min(I) <= y
    BY <2>1 DEF Min
  <2>3. Min(I) <= k /\ k <= Min(I) /\ Min(I) \in Nat
    BY <1>4, <2>2
  <2> QED BY <1>1, <2>3
<1> QED BY <1>1, <1>2, <1>3, <1>4, <1>5

\* The end of the line and the blanks before it.
LEMMA TrimIs ==
  ASSUME NEW w \in Seq(HeadByte), NEW k \in 1..Len(w), w[k] \notin {"CR", "LF", "SP"},
         \A i \in (k + 1)..Len(w) : w[i] \in {"CR", "LF", "SP"}
  PROVE  TrimEnd(w) = SubSeq(w, 1, k)
<1> DEFINE I == {i \in 1..Len(w) : w[i] \notin {"CR", "LF", "SP"}}
           n == SelectLastInSeq(w, LAMBDA b : b \notin {"CR", "LF", "SP"})
<1>1. Len(w) \in Nat /\ k \in Nat
  BY LenProperties
<1>2. n = IF I # {} THEN Max(I) ELSE 0
  BY DEF SelectLastInSeq
<1>3. TrimEnd(w) = SubSeq(w, 1, n)
  BY DEF TrimEnd
<1> HIDE DEF n
<1>4. k \in I /\ (\A i \in I : i <= k) /\ I \subseteq Nat
  <2>1. ASSUME NEW i \in I PROVE i <= k
    <3>1. i \in 1..Len(w) /\ w[i] \notin {"CR", "LF", "SP"}
      OBVIOUS
    <3>2. ~(i \in (k + 1)..Len(w))
      BY <3>1
    <3> QED BY <1>1, <3>1, <3>2
  <2>2. k \in I
    OBVIOUS
  <2>3. I \subseteq Nat
    <3>1. I \subseteq 1..Len(w) /\ 1..Len(w) \subseteq Nat
      BY <1>1
    <3> HIDE DEF I
    <3> QED BY <3>1
  <2> HIDE DEF I
  <2> QED BY <2>1, <2>2, <2>3
<1> HIDE DEF I
<1>5. Max(I) = k
  <2>1. \E x \in I : \A y \in I : x >= y
    <3>1. \A y \in I : k >= y
      BY <1>1, <1>4
    <3> QED BY <1>4, <3>1
  <2>2. Max(I) \in I /\ \A y \in I : Max(I) >= y
    BY <2>1, Zenon DEF Max
  <2>3. Max(I) <= k /\ Max(I) >= k /\ Max(I) \in Nat
    BY <1>4, <2>2
  <2> QED BY <1>1, <2>3
<1> QED BY <1>2, <1>3, <1>4, <1>5

\* The value of a field: what is between the blanks after the name and the end of the line.
LEMMA ValueIs ==
  ASSUME NEW w \in Seq(HeadByte), NEW a \in 2..Len(w), NEW b \in a..Len(w),
         \A i \in 2..(a - 1) : w[i] = "SP", w[a] # "SP", w[b] \notin {"CR", "LF", "SP"},
         \A i \in (b + 1)..Len(w) : w[i] \in {"CR", "LF", "SP"}
  PROVE  Cut(TrimEnd(SkipBlanks(Tail(w))), w, a, b)
<1>l. PICK l : l = Len(w)
  OBVIOUS
<1>0. l \in Nat /\ a \in 2..l /\ b \in a..l /\ l > 0 /\ a \in Nat /\ b \in Nat
  BY <1>l, LenProperties
<1>t. PICK t : t = Tail(w)
  OBVIOUS
<1>s. PICK s : s = SkipBlanks(t)
  OBVIOUS
<1>x. PICK x : x = TrimEnd(s)
  OBVIOUS
<1>1. /\ t \in Seq(HeadByte) /\ Len(t) = l - 1
      /\ \A i \in 1..(l - 1) : t[i] = w[i + 1]
  BY <1>0, <1>l, <1>t, TailFacts
<1>2. s = SubSeq(t, a - 1, l - 1)
  <2>1. a - 1 \in 1..Len(t) /\ a - 1 \in 1..(l - 1) /\ (a - 1) + 1 = a
    BY <1>0, <1>1
  <2>2. t[a - 1] # "SP"
    BY <1>1, <2>1
  <2>3. ASSUME NEW i \in 1..((a - 1) - 1) PROVE t[i] = "SP"
    <3>1. i \in 1..(l - 1) /\ i + 1 \in 2..(a - 1)
      BY <1>0
    <3> QED BY <1>1, <3>1
  <2>4. SkipBlanks(t) = SubSeq(t, a - 1, Len(t))
    BY <1>1, <2>1, <2>2, <2>3, SkipIs
  <2> QED BY <1>1, <1>s, <2>4
<1>3. /\ s \in Seq(HeadByte) /\ Len(s) = l - a + 1
      /\ \A i \in 1..(l - a + 1) : s[i] = w[a + i - 1]
  <2>1. a - 1 \in 1..(Len(t) + 1) /\ l - 1 \in ((a - 1) - 1)..Len(t)
    BY <1>0, <1>1
  <2>2. Cut(SubSeq(t, a - 1, l - 1), t, a - 1, l - 1)
    BY <1>1, <2>1, CutIs
  <2>3. (l - 1) - (a - 1) + 1 = l - a + 1
    BY <1>0
  <2>4. s \in Seq(HeadByte) /\ Len(s) = l - a + 1
        /\ \A i \in 1..(l - a + 1) : s[i] = t[(a - 1) + i - 1]
    BY <1>2, <2>2, <2>3 DEF Cut
  <2>5. ASSUME NEW i \in 1..(l - a + 1) PROVE s[i] = w[a + i - 1]
    <3>1. (a - 1) + i - 1 \in 1..(l - 1) /\ ((a - 1) + i - 1) + 1 = a + i - 1
      BY <1>0
    <3> QED BY <1>1, <2>4, <3>1
  <2> QED BY <2>4, <2>5
<1>4. x = SubSeq(s, 1, b - a + 1)
  <2>k. PICK k : k = b - a + 1
    OBVIOUS
  <2>1. k \in 1..Len(s) /\ k \in 1..(l - a + 1) /\ a + k - 1 = b /\ k \in Nat
    BY <1>0, <1>3, <2>k
  <2>2. s[k] \notin {"CR", "LF", "SP"}
    BY <1>3, <2>1
  <2>3. ASSUME NEW i \in (k + 1)..Len(s) PROVE s[i] \in {"CR", "LF", "SP"}
    <3>1. i \in 1..(l - a + 1) /\ a + i - 1 \in (b + 1)..l
      BY <1>0, <1>3, <2>1, <2>k
    <3>2. w[a + i - 1] \in {"CR", "LF", "SP"}
      BY <1>l, <3>1
    <3> QED BY <1>3, <3>1, <3>2
  <2>4. TrimEnd(s) = SubSeq(s, 1, k)
    BY <1>3, <2>1, <2>2, <2>3, TrimIs
  <2> QED BY <1>x, <2>4, <2>k
<1>5. Cut(x, w, a, b)
  <2>k. PICK k : k = b - a + 1
    OBVIOUS
  <2>1. k \in 0..Len(s) /\ k \in Nat /\ k <= l - a + 1
    BY <1>0, <1>3, <2>k
  <2>2. SubSeq(s, 1, k) \in Seq(HeadByte) /\ Len(SubSeq(s, 1, k)) = k
        /\ \A i \in 1..k : SubSeq(s, 1, k)[i] = s[i]
    BY <1>3, <2>1, PrefixFacts
  <2>3. ASSUME NEW i \in 1..k PROVE x[i] = w[a + i - 1]
    <3>1. i \in 1..(l - a + 1)
      BY <1>0, <2>1
    <3> QED BY <1>3, <1>4, <2>2, <2>k, <3>1
  <2> QED BY <1>4, <2>2, <2>3, <2>k DEF Cut
<1> QED BY <1>5, <1>s, <1>t, <1>x

\* A line without the name gives no length and no coding.
LEMMA NothingSaid ==
  ASSUME NEW w, w = <<>> \/ Head(w) \notin {"Content-Length:", "Transfer-Encoding:"}
  PROVE  ContentLength(w) = NoLen /\ ~Field(w, "Transfer-Encoding:", "chunked")
  BY DEF ContentLength, Field, HasName

\* The length a line announces.
LEMMA LengthIs ==
  ASSUME NEW w \in Seq(HeadByte), NEW ds \in Seq(Digit), NEW a \in 2..Len(w),
         Len(ds) > 0, Len(ds) <= MaxDigits, TrueValue(ds) < Width,
         w[1] = "Content-Length:", \A i \in 2..(a - 1) : w[i] = "SP",
         Len(w) = a + Len(ds) + 1, \A i \in 1..Len(ds) : w[a + i - 1] = ds[i],
         w[a + Len(ds)] = "CR"
  PROVE  /\ ContentLength(w) = TrueValue(ds) /\ TrueValue(ds) \in Nat
         /\ ~Field(w, "Transfer-Encoding:", "chunked")
<1>l. PICK l : l = Len(w)
  OBVIOUS
<1>d. PICK d : d = Len(ds)
  OBVIOUS
<1>n. PICK n : n = NumberCap - 1
  OBVIOUS
<1>0. /\ l \in Nat /\ a \in 2..l /\ a \in Nat /\ d \in Nat /\ d > 0 /\ l > 0 /\ l = a + d + 1
      /\ n \in Nat /\ d <= n
  <2>1. l \in Nat /\ d \in Nat /\ d <= MaxDigits /\ d > 0 /\ l = a + d + 1
    BY <1>l, <1>d, LenProperties
  <2>2. n \in Nat /\ MaxDigits <= n
    BY <1>n, HeadCaps
  <2> QED BY <1>l, <2>1, <2>2, HeadCaps
<1>t. PICK t : t = Tail(w)
  OBVIOUS
<1>s. PICK s : s = SkipBlanks(t)
  OBVIOUS
<1>x. PICK x : x = FirstOf(s, n)
  OBVIOUS
<1>m. PICK m : m = IF d + 2 < n THEN d + 2 ELSE n
  OBVIOUS
<1>1. /\ t \in Seq(HeadByte) /\ Len(t) = l - 1
      /\ \A i \in 1..(l - 1) : t[i] = w[i + 1]
  BY <1>0, <1>l, <1>t, TailFacts
<1>D. \A i \in 1..d : w[a + i - 1] = ds[i] /\ ds[i] \in Digit
  BY <1>d, ElementOfSeq
<1>2. s = SubSeq(t, a - 1, l - 1)
  <2>1. a - 1 \in 1..Len(t) /\ a - 1 \in 1..(l - 1) /\ (a - 1) + 1 = a
    BY <1>0, <1>1
  <2>2. t[a - 1] # "SP"
    <3>1. 1 \in 1..d /\ a + 1 - 1 = a
      BY <1>0
    <3>2. w[a] \in Digit
      BY <1>D, <3>1
    <3>3. w[a] # "SP"
      BY <3>2, NotDigits
    <3> QED BY <1>1, <2>1, <3>3
  <2>3. ASSUME NEW i \in 1..((a - 1) - 1) PROVE t[i] = "SP"
    <3>1. i \in 1..(l - 1) /\ i + 1 \in 2..(a - 1)
      BY <1>0
    <3> QED BY <1>1, <3>1
  <2>4. SkipBlanks(t) = SubSeq(t, a - 1, Len(t))
    BY <1>1, <2>1, <2>2, <2>3, SkipIs
  <2> QED BY <1>1, <1>s, <2>4
<1>3. /\ s \in Seq(HeadByte) /\ Len(s) = d + 2
      /\ \A i \in 1..(d + 2) : s[i] = w[a + i - 1]
  <2>1. a - 1 \in 1..(Len(t) + 1) /\ l - 1 \in ((a - 1) - 1)..Len(t)
    BY <1>0, <1>1
  <2>2. Cut(SubSeq(t, a - 1, l - 1), t, a - 1, l - 1)
    BY <1>1, <2>1, CutIs
  <2>3. (l - 1) - (a - 1) + 1 = d + 2
    BY <1>0
  <2>4. s \in Seq(HeadByte) /\ Len(s) = d + 2
        /\ \A i \in 1..(d + 2) : s[i] = t[(a - 1) + i - 1]
    BY <1>2, <2>2, <2>3 DEF Cut
  <2>5. ASSUME NEW i \in 1..(d + 2) PROVE s[i] = w[a + i - 1]
    <3>1. (a - 1) + i - 1 \in 1..(l - 1) /\ ((a - 1) + i - 1) + 1 = a + i - 1
      BY <1>0
    <3> QED BY <1>1, <2>4, <3>1
  <2> QED BY <2>4, <2>5
<1>4. m \in 0..Len(s) /\ d <= m /\ m \in Nat /\ m <= d + 2
  BY <1>0, <1>3, <1>m
<1>5. /\ x \in Seq(HeadByte) /\ Len(x) = m /\ \A i \in 1..m : x[i] = s[i]
  <2>1. x = SubSeq(s, 1, m)
    BY <1>3, <1>m, <1>x DEF FirstOf
  <2>2. SubSeq(s, 1, m) \in Seq(HeadByte) /\ Len(SubSeq(s, 1, m)) = m
        /\ \A i \in 1..m : SubSeq(s, 1, m)[i] = s[i]
    BY <1>3, <1>4, PrefixFacts
  <2> QED BY <2>1, <2>2
<1>6. LeadingDigits(x) = SubSeq(x, 1, d)
  <2>1. d \in 0..Len(x)
    BY <1>0, <1>4, <1>5
  <2>2. ASSUME NEW i \in 1..d PROVE x[i] \in Digit
    <3>1. i \in 1..m /\ i \in 1..(d + 2)
      BY <1>0, <1>4
    <3> QED BY <1>3, <1>5, <1>D, <3>1
  <2>3. d = Len(x) \/ x[d + 1] \notin Digit
    <3>1. ASSUME d # Len(x) PROVE x[d + 1] \notin Digit
      <4>1. d + 1 \in 1..m /\ d + 1 \in 1..(d + 2) /\ a + (d + 1) - 1 = a + d
        BY <1>0, <1>4, <1>5, <3>1
      <4>2. x[d + 1] = "CR"
        BY <1>3, <1>5, <1>d, <4>1
      <4> QED BY <4>2, NotDigits
    <3> QED BY <3>1
  <2> QED BY <1>5, <2>1, <2>2, <2>3, LeadingIs
<1>7. SubSeq(x, 1, d) = ds
  <2>0. d \in 0..Len(x)
    BY <1>0, <1>4, <1>5
  <2>1. SubSeq(x, 1, d) \in Seq(HeadByte) /\ Len(SubSeq(x, 1, d)) = d
        /\ \A i \in 1..d : SubSeq(x, 1, d)[i] = x[i]
    BY <1>5, <2>0, PrefixFacts
  <2>2. ds \in Seq(HeadByte)
    BY DigitFacts
  <2>y. PICK y : y = SubSeq(x, 1, d)
    OBVIOUS
  <2>3. ASSUME NEW i \in 1..Len(y) PROVE y[i] = ds[i]
    <3>1. i \in 1..d /\ i \in 1..m /\ i \in 1..(d + 2)
      BY <1>0, <1>4, <2>1, <2>y
    <3> QED BY <1>3, <1>5, <1>D, <2>1, <2>y, <3>1
  <2>4. y = ds
    BY <1>d, <2>1, <2>2, <2>3, <2>y, SeqEqual
  <2> QED BY <2>4, <2>y
<1>8. Head(w) = "Content-Length:" /\ w # <<>>
  BY <1>0, <1>l, TailFacts, EmptyFacts
<1>c. PICK c : c = FoldLeft(ShiftInDec, [v |-> 0, over |-> FALSE], ds)
  OBVIOUS
<1>9. c.v = TrueValue(ds) /\ ~c.over
  BY <1>c, LengthOfDigits
<1>10. ds # <<>>
  BY <1>0, <1>d, EmptyFacts
<1>11. ContentLength(w) = c.v
  <2>1. LeadingDigits(FirstOf(SkipBlanks(Tail(w)), NumberCap - 1)) = ds
    BY <1>6, <1>7, <1>n, <1>s, <1>t, <1>x
  <2>2. HasName(w, "Content-Length:")
    BY <1>8 DEF HasName
  <2> QED BY <1>9, <1>10, <1>c, <2>1, <2>2 DEF ContentLength
<1>12. TrueValue(ds) \in Nat
  BY SizeOfDigits
<1>13. ~Field(w, "Transfer-Encoding:", "chunked")
  BY <1>8 DEF Field, HasName
<1> QED BY <1>9, <1>11, <1>12, <1>13

\* A line that has room is kept as it is; of one that has none, the first byte is.
LEMMA LineKept ==
  ASSUME NEW text \in Seq(HeadByte), Len(text) > 0
  PROVE  /\ Len(text) <= Room => Line(text, Len(text)) = text
         /\ Head(Line(text, Len(text))) = text[1]
<1>l. PICK l : l = Len(text)
  OBVIOUS
<1>m. PICK m : m = Least(l, Room)
  OBVIOUS
<1>x. PICK x : x = SubSeq(text, 1, m)
  OBVIOUS
<1>0. l \in Nat /\ l > 0 /\ m \in 0..l /\ m > 0 /\ (l <= Room => m = l)
  <2>1. l \in Nat /\ l > 0
    BY <1>l, LenProperties
  <2> QED BY <1>m, <2>1, HeadCaps DEF Least
<1>1. x \in Seq(HeadByte) /\ Len(x) = m /\ \A i \in 1..m : x[i] = text[i]
  BY <1>0, <1>l, <1>x, PrefixFacts
<1>2. Head(x) = text[1]
  <2>1. 1 \in 1..m
    BY <1>0
  <2>2. Head(x) = x[1]
    BY <1>0, <1>1, TailFacts
  <2> QED BY <1>1, <2>1, <2>2
<1>3. Line(text, Len(text)) = x
  BY <1>l, <1>m, <1>x DEF Line
<1>4. l <= Room => x = text
  BY <1>0, <1>l, <1>x, PrefixFull
<1> QED BY <1>2, <1>3, <1>4, <1>l

\* Numbers are sequences of digits.
LEMMA NumbersAre == \A ds \in Numbers : ds \in Seq(Digit) /\ Len(ds) \in 1..MaxDigits
<1> SUFFICES ASSUME NEW n \in 1..MaxDigits, NEW ds \in [1..n -> Digit]
             PROVE  ds \in Seq(Digit) /\ Len(ds) \in 1..MaxDigits
  BY DEF Numbers
<1>1. n \in Nat
  BY HeadCaps
<1>2. ds \in Seq(Digit)
  BY <1>1
<1>3. Len(ds) = n
  BY <1>1
<1> QED BY <1>2, <1>3

\* What the receiver takes the field for is what it says.
Says(f) ==
    /\ f.len \in Nat \cup {NoLen} /\ f.chunked \in BOOLEAN
    /\ \E core \in Seq(HeadByte) : /\ f.text = core \o CRLF /\ Len(core) > 0
                                   /\ \A k \in 1..Len(core) : core[k] # "LF"
    /\ ContentLength(Line(f.text, Len(f.text))) = f.len
    /\ Field(Line(f.text, Len(f.text)), "Transfer-Encoding:", "chunked") <=> f.chunked

\* A length is taken for what it is, with a blank in front or without.
LEMMA SaysLength ==
  ASSUME NEW blank \in Seq({"SP"}), Len(blank) \in 0..1, NEW ds \in Numbers,
         TrueValue(ds) < Width
  PROVE  Says(FieldLine(<<"Content-Length:">> \o blank \o ds, FALSE, TrueValue(ds)))
<1>n. PICK name : name = <<"Content-Length:">>
  OBVIOUS
<1>h. PICK h : h = name \o blank
  OBVIOUS
<1>c. PICK core : core = h \o ds
  OBVIOUS
<1>x. PICK text : text = core \o CRLF
  OBVIOUS
<1>b. PICK b : b = Len(blank)
  OBVIOUS
<1>d. PICK d : d = Len(ds)
  OBVIOUS
<1>f. PICK f : f = FieldLine(<<"Content-Length:">> \o blank \o ds, FALSE, TrueValue(ds))
  OBVIOUS
<1>0. f.text = text /\ f.chunked = FALSE /\ f.len = TrueValue(ds)
  BY <1>c, <1>f, <1>h, <1>n, <1>x DEF FieldLine
<1>1. /\ b \in 0..1 /\ d \in 1..MaxDigits /\ b \in Nat /\ d \in Nat /\ ds \in Seq(Digit)
      /\ ds \in Seq(HeadByte) /\ blank \in Seq(HeadByte) /\ name \in Seq(HeadByte)
      /\ Len(name) = 1 /\ name[1] = "Content-Length:"
  <2>1. "Content-Length:" \in HeadByte /\ "SP" \in HeadByte
    BY DEF HeadByte, Name
  <2>2. name \in Seq(HeadByte) /\ Len(name) = 1 /\ name[1] = "Content-Length:"
    BY <1>n, <2>1
  <2>3. blank \in Seq(HeadByte)
    BY <2>1
  <2>4. ds \in Seq(Digit) /\ d \in 1..MaxDigits
    BY <1>d, NumbersAre
  <2>5. ds \in Seq(HeadByte)
    BY <2>4, DigitFacts
  <2> QED BY <1>b, <2>2, <2>3, <2>4, <2>5, HeadCaps
<1>2. /\ h \in Seq(HeadByte) /\ Len(h) = b + 1 /\ h[1] = "Content-Length:"
      /\ \A i \in 1..b : h[1 + i] = "SP"
  <2>0. name \in Seq(HeadByte) /\ blank \in Seq(HeadByte)
    BY <1>1
  <2>1. /\ name \o blank \in Seq(HeadByte) /\ Len(name \o blank) = Len(name) + Len(blank)
        /\ \A i \in 1..Len(name) : (name \o blank)[i] = name[i]
        /\ \A i \in 1..Len(blank) : (name \o blank)[Len(name) + i] = blank[i]
    BY <2>0, CatFacts
  <2>2. \A i \in 1..b : blank[i] = "SP"
    <3>1. \A i \in 1..Len(blank) : blank[i] \in {"SP"}
      BY ElementOfSeq
    <3> QED BY <1>b, <3>1
  <2>3. 1 \in 1..1
    OBVIOUS
  <2> QED BY <1>1, <1>b, <1>h, <2>1, <2>2, <2>3
<1>3. /\ core \in Seq(HeadByte) /\ Len(core) = b + 1 + d
      /\ \A i \in 1..(b + 1) : core[i] = h[i]
      /\ \A i \in 1..d : core[b + 1 + i] = ds[i]
  <2>0. h \in Seq(HeadByte) /\ ds \in Seq(HeadByte)
    BY <1>1, <1>2
  <2>1. /\ h \o ds \in Seq(HeadByte) /\ Len(h \o ds) = Len(h) + Len(ds)
        /\ \A i \in 1..Len(h) : (h \o ds)[i] = h[i]
        /\ \A i \in 1..Len(ds) : (h \o ds)[Len(h) + i] = ds[i]
    BY <2>0, CatFacts
  <2> QED BY <1>1, <1>2, <1>c, <1>d, <2>1
<1>4. /\ text \in Seq(HeadByte) /\ Len(text) = b + d + 3
      /\ \A i \in 1..(b + 1 + d) : text[i] = core[i]
      /\ text[b + d + 2] = "CR"
  <2>1. /\ text \in Seq(HeadByte) /\ Len(text) = Len(core) + 2
        /\ \A k \in 1..Len(core) : text[k] = core[k]
        /\ text[Len(core) + 1] = "CR" /\ text[Len(core) + 2] = "LF"
    BY <1>3, <1>x, LineFacts
  <2>2. (b + 1 + d) + 2 = b + d + 3 /\ (b + 1 + d) + 1 = b + d + 2
    BY <1>1
  <2> QED BY <1>3, <2>1, <2>2
<1>5. Line(text, Len(text)) = text
  <2>1. Len(text) > 0 /\ Len(text) <= Room
    BY <1>1, <1>4, HeadCaps
  <2> QED BY <1>4, <2>1, LineKept
<1>6. /\ ContentLength(text) = TrueValue(ds) /\ TrueValue(ds) \in Nat
      /\ ~Field(text, "Transfer-Encoding:", "chunked")
  <2>a. PICK a : a = b + 2
    OBVIOUS
  <2>1. a \in 2..Len(text) /\ Len(text) = a + d + 1 /\ a + d = b + d + 2 /\ a \in Nat
    BY <1>1, <1>4, <2>a
  <2>2. text[1] = "Content-Length:"
    <3>1. 1 \in 1..(b + 1 + d) /\ 1 \in 1..(b + 1)
      BY <1>1
    <3> QED BY <1>2, <1>3, <1>4, <3>1
  <2>3. ASSUME NEW i \in 2..(a - 1) PROVE text[i] = "SP"
    <3>j. PICK j : j = i - 1
      OBVIOUS
    <3>1. j \in 1..b /\ 1 + j = i /\ i \in 1..(b + 1) /\ i \in 1..(b + 1 + d)
      BY <1>1, <2>a, <3>j
    <3> QED BY <1>2, <1>3, <1>4, <3>1
  <2>4. ASSUME NEW i \in 1..d PROVE text[a + i - 1] = ds[i]
    <3>1. a + i - 1 = b + 1 + i /\ b + 1 + i \in 1..(b + 1 + d)
      BY <1>1, <2>a
    <3> QED BY <1>3, <1>4, <3>1
  <2>5. /\ Len(ds) > 0 /\ Len(ds) <= MaxDigits /\ Len(text) = a + Len(ds) + 1
        /\ \A i \in 1..Len(ds) : text[a + i - 1] = ds[i]
        /\ text[a + Len(ds)] = "CR"
    BY <1>1, <1>4, <1>d, <2>1, <2>4
  <2> QED BY <1>1, <1>4, <2>1, <2>2, <2>3, <2>5, LengthIs
<1>7. \E c \in Seq(HeadByte) : /\ text = c \o CRLF /\ Len(c) > 0
                               /\ \A k \in 1..Len(c) : c[k] # "LF"
  <2>1. ASSUME NEW k \in 1..Len(core) PROVE core[k] # "LF"
    <3>1. k \in 1..(b + 1 + d)
      BY <1>3
    <3>2. CASE k = 1
      <4>1. 1 \in 1..(b + 1)
        BY <1>1
      <4> QED BY <1>2, <1>3, <3>2, <4>1
    <3>3. CASE k \in 2..(b + 1)
      <4>j. PICK j : j = k - 1
        OBVIOUS
      <4>1. j \in 1..b /\ 1 + j = k /\ k \in 1..(b + 1)
        BY <1>1, <3>3, <4>j
      <4> QED BY <1>2, <1>3, <4>1
    <3>4. CASE k > b + 1
      <4>j. PICK j : j = k - (b + 1)
        OBVIOUS
      <4>1. j \in 1..d /\ b + 1 + j = k
        BY <1>1, <3>1, <3>4, <4>j
      <4>2. core[k] \in Digit
        BY <1>1, <1>3, <1>d, <4>1, ElementOfSeq
      <4> QED BY <4>2, NotDigits
    <3> QED BY <1>1, <3>1, <3>2, <3>3, <3>4
  <2>2. Len(core) > 0
    BY <1>1, <1>3
  <2> QED BY <1>3, <1>x, <2>1, <2>2
<1>8. Says(f)
  BY <1>0, <1>5, <1>6, <1>7 DEF Says
<1> QED BY <1>8, <1>f

\* What the receiver takes for the value of a coding.
LEMMA CodingIs ==
  ASSUME NEW core \in Seq(HeadByte), NEW a \in 2..Len(core), Len(core) <= 5,
         Len(core) - a <= 2, core[1] = "Transfer-Encoding:",
         \A i \in 2..(a - 1) : core[i] = "SP", core[a] # "SP", core[Len(core)] = "chunked",
         \A i \in 1..Len(core) : core[i] # "LF",
         NEW chunked \in BOOLEAN,
         \A x : Cut(x, core, a, Len(core)) => (HasToken(x, "chunked") <=> chunked)
  PROVE  Says(FieldLine(core, chunked, NoLen))
<1>x. PICK text : text = core \o CRLF
  OBVIOUS
<1>n. PICK n : n = Len(core)
  OBVIOUS
<1>f. PICK f : f = FieldLine(core, chunked, NoLen)
  OBVIOUS
<1>v. PICK v : v = TrimEnd(SkipBlanks(Tail(text)))
  OBVIOUS
<1>0. f.text = text /\ f.chunked = chunked /\ f.len = NoLen
  BY <1>f, <1>x DEF FieldLine
<1>1. /\ text \in Seq(HeadByte) /\ Len(text) = n + 2 /\ n \in Nat
      /\ \A k \in 1..n : text[k] = core[k]
      /\ text[n + 1] = "CR" /\ text[n + 2] = "LF"
  BY <1>n, <1>x, LineFacts
<1>2. n <= 5 /\ a \in 2..n /\ n - a <= 2 /\ n > 1 /\ a \in Nat
  BY <1>1, <1>n
<1>3. Line(text, Len(text)) = text
  <2>1. Len(text) > 0 /\ Len(text) <= Room
    BY <1>1, <1>2, HeadCaps
  <2> QED BY <1>1, <2>1, LineKept
<1>4. text[1] = "Transfer-Encoding:" /\ Head(text) = "Transfer-Encoding:" /\ text # <<>>
  <2>1. 1 \in 1..n /\ Len(text) > 0
    BY <1>1, <1>2
  <2>2. text[1] = "Transfer-Encoding:"
    BY <1>1, <2>1
  <2>3. Head(text) = text[1]
    BY <1>1, <2>1, TailFacts
  <2>4. text # <<>>
    BY <2>1, EmptyFacts
  <2> QED BY <2>2, <2>3, <2>4
<1>5. Cut(v, text, a, n)
  <2>1. a \in 2..Len(text) /\ n \in a..Len(text) /\ a \in 1..n /\ n \in 1..n
    BY <1>1, <1>2
  <2>2. ASSUME NEW i \in 2..(a - 1) PROVE text[i] = "SP"
    <3>1. i \in 1..n
      BY <1>1, <1>2
    <3> QED BY <1>1, <3>1
  <2>3. text[a] # "SP" /\ text[n] \notin {"CR", "LF", "SP"}
    BY <1>1, <1>n, <2>1
  <2>4. ASSUME NEW i \in (n + 1)..Len(text) PROVE text[i] \in {"CR", "LF", "SP"}
    <3>1. i = n + 1 \/ i = n + 2
      BY <1>1
    <3> QED BY <1>1, <3>1
  <2>5. Cut(TrimEnd(SkipBlanks(Tail(text))), text, a, n)
    BY <1>1, <2>1, <2>2, <2>3, <2>4, ValueIs
  <2> QED BY <1>v, <2>5
<1>6. Cut(v, core, a, n)
  <2>1. ASSUME NEW i \in 1..(n - a + 1) PROVE v[i] = core[a + i - 1]
    <3>1. a + i - 1 \in 1..n
      BY <1>1, <1>2
    <3> QED BY <1>1, <1>5, <3>1 DEF Cut
  <2> QED BY <1>5, <2>1 DEF Cut
<1>7. Len(v) < ValueCap
  <2>1. Len(v) = n - a + 1
    BY <1>5 DEF Cut
  <2> QED BY <1>1, <1>2, <2>1, HeadCaps
<1>8. Field(text, "Transfer-Encoding:", "chunked") <=> chunked
  <2>1. HasToken(v, "chunked") <=> chunked
    BY <1>6, <1>n
  <2> QED BY <1>4, <1>7, <1>v, <2>1 DEF Field, HasName
<1>9. ContentLength(text) = NoLen
  BY <1>4 DEF ContentLength, HasName
<1>10. \E c \in Seq(HeadByte) : /\ text = c \o CRLF /\ Len(c) > 0
                                /\ \A k \in 1..Len(c) : c[k] # "LF"
  <2>1. Len(core) > 0
    BY <1>2, <1>n
  <2> QED BY <1>x, <2>1
<1>11. Says(f)
  BY <1>0, <1>3, <1>8, <1>9, <1>10 DEF Says
<1> QED BY <1>11, <1>f

\* A line that does not begin with a name of a framing field says nothing of the framing.
LEMMA SaysNothing ==
  ASSUME NEW core \in Seq(HeadByte), Len(core) > 0, \A i \in 1..Len(core) : core[i] # "LF",
         core[1] \notin {"Content-Length:", "Transfer-Encoding:"}
  PROVE  Says(FieldLine(core, FALSE, NoLen))
<1>x. PICK text : text = core \o CRLF
  OBVIOUS
<1>f. PICK f : f = FieldLine(core, FALSE, NoLen)
  OBVIOUS
<1>l. PICK l : l = Line(text, Len(text))
  OBVIOUS
<1>0. f.text = text /\ f.chunked = FALSE /\ f.len = NoLen
  BY <1>f, <1>x DEF FieldLine
<1>1. /\ text \in Seq(HeadByte) /\ Len(text) = Len(core) + 2 /\ Len(core) \in Nat
      /\ \A k \in 1..Len(core) : text[k] = core[k]
  BY <1>x, LineFacts
<1>2. Len(text) > 0 /\ text[1] = core[1]
  BY <1>1
<1>3. Head(l) \notin {"Content-Length:", "Transfer-Encoding:"}
  <2>1. Head(l) = text[1]
    BY <1>1, <1>2, <1>l, LineKept
  <2> QED BY <1>2, <2>1
<1>4. ContentLength(l) = NoLen /\ ~Field(l, "Transfer-Encoding:", "chunked")
  BY <1>3, NothingSaid
<1>5. \E c \in Seq(HeadByte) : /\ text = c \o CRLF /\ Len(c) > 0
                               /\ \A k \in 1..Len(c) : c[k] # "LF"
  BY <1>x
<1>6. Says(f)
  BY <1>0, <1>4, <1>5, <1>l DEF Says
<1> QED BY <1>6, <1>f

\* The bytes the lines of a head are made of.
LEMMA Bytes ==
  {"x", "CR", "LF", "SP", "COMMA", "chunked", "close", "Content-Length:",
   "Transfer-Encoding:", "Connection:"} \subseteq HeadByte
  BY DEF HeadByte, Byte, Name, Word

\* Every length that fits says what it is.
LEMMA LengthsSay ==
  ASSUME ~LongLengths, NEW f \in Lengths
  PROVE  Says(f)
<1>1. PICK blank \in {<<>>, <<"SP">>},
           ds \in {n \in Numbers : TrueValue(n) < Width \/ LongLengths} :
        f = LengthLine(blank, ds)
  BY DEF Lengths
<1>2. ds \in Numbers /\ TrueValue(ds) < Width
  BY <1>1
<1>3. blank \in Seq({"SP"}) /\ Len(blank) \in 0..1
  <2>1. CASE blank = <<>>
    BY <2>1
  <2>2. CASE blank = <<"SP">>
    BY <2>2
  <2> QED BY <1>1, <2>1, <2>2
<1>4. Says(FieldLine(<<"Content-Length:">> \o blank \o ds, FALSE, TrueValue(ds)))
  BY <1>2, <1>3, SaysLength
<1> QED BY <1>1, <1>4 DEF LengthLine

\* Only chunked, alone.
LEMMA ChunkedSays ==
  Says(FieldLine(<<"Transfer-Encoding:">> \o <<"chunked">>, TRUE, NoLen))
<1>n. PICK name : name = <<"Transfer-Encoding:">>
  OBVIOUS
<1>w. PICK w : w = <<"chunked">>
  OBVIOUS
<1>c. PICK core : core = name \o w
  OBVIOUS
<1>1. /\ name \in Seq(HeadByte) /\ Len(name) = 1 /\ name[1] = "Transfer-Encoding:"
      /\ w \in Seq(HeadByte) /\ Len(w) = 1 /\ w[1] = "chunked"
  <2>1. "Transfer-Encoding:" \in HeadByte /\ "chunked" \in HeadByte
    BY Bytes
  <2> QED BY <1>n, <1>w, <2>1
<1>2. core \in Seq(HeadByte) /\ Len(core) = 2 /\ core[1] = "Transfer-Encoding:"
      /\ core[2] = "chunked"
  <2>0. name \in Seq(HeadByte) /\ w \in Seq(HeadByte)
    BY <1>1
  <2>1. /\ name \o w \in Seq(HeadByte) /\ Len(name \o w) = Len(name) + Len(w)
        /\ \A i \in 1..Len(name) : (name \o w)[i] = name[i]
        /\ \A i \in 1..Len(w) : (name \o w)[Len(name) + i] = w[i]
    BY <2>0, CatFacts
  <2>2. 1 \in 1..1 /\ 1 + 1 = 2
    OBVIOUS
  <2> QED BY <1>1, <1>c, <2>1, <2>2
<1>3. ASSUME NEW x, Cut(x, core, 2, Len(core)) PROVE HasToken(x, "chunked")
  <2>1. Len(x) = 1 /\ x[1] = "chunked" /\ x \in Seq(HeadByte)
    <3>1. Len(core) - 2 + 1 = 1 /\ 1 \in 1..1 /\ 2 + 1 - 1 = 2
      BY <1>2
    <3> QED BY <1>2, <1>3, <3>1 DEF Cut
  <2>2. 1 \in DOMAIN x /\ 0 \in 0..Len(x) /\ 0 < 1
    BY <2>1
  <2>3. \A m \in (0 + 1)..(1 - 1) : x[m] = "SP"
    OBVIOUS
  <2> QED BY <2>1, <2>2, <2>3 DEF HasToken
<1>4. ASSUME NEW i \in 1..Len(core) PROVE core[i] # "LF"
  <2>1. i = 1 \/ i = 2
    BY <1>2
  <2> QED BY <1>2, <2>1
<1>5. 2 \in 2..Len(core) /\ Len(core) <= 5 /\ Len(core) - 2 <= 2 /\ core[2] # "SP"
      /\ core[Len(core)] = "chunked"
  BY <1>2
<1>6. \A i \in 2..(2 - 1) : core[i] = "SP"
  OBVIOUS
<1>7. TRUE \in BOOLEAN /\ \A x : Cut(x, core, 2, Len(core)) => (HasToken(x, "chunked") <=> TRUE)
  BY <1>3
<1>8. Says(FieldLine(core, TRUE, NoLen))
  BY <1>2, <1>4, <1>5, <1>6, <1>7, CodingIs
<1> QED BY <1>8, <1>c, <1>n, <1>w

\* Chunked after another coding.
LEMMA ListSays ==
  Says(FieldLine(<<"Transfer-Encoding:">> \o <<"SP", "x", "COMMA", "chunked">>, TRUE, NoLen))
<1>n. PICK name : name = <<"Transfer-Encoding:">>
  OBVIOUS
<1>w. PICK w : w = <<"SP", "x", "COMMA", "chunked">>
  OBVIOUS
<1>c. PICK core : core = name \o w
  OBVIOUS
<1>1. /\ name \in Seq(HeadByte) /\ Len(name) = 1 /\ name[1] = "Transfer-Encoding:"
      /\ w \in Seq(HeadByte) /\ Len(w) = 4 /\ w[1] = "SP" /\ w[2] = "x" /\ w[3] = "COMMA"
      /\ w[4] = "chunked"
  <2>1. /\ "Transfer-Encoding:" \in HeadByte /\ "chunked" \in HeadByte /\ "SP" \in HeadByte
        /\ "x" \in HeadByte /\ "COMMA" \in HeadByte
    BY Bytes
  <2>2. name \in Seq(HeadByte) /\ Len(name) = 1 /\ name[1] = "Transfer-Encoding:"
    BY <1>n, <2>1
  <2>3. w \in Seq(HeadByte)
    BY <1>w, <2>1
  <2>4. Len(w) = 4 /\ w[1] = "SP" /\ w[2] = "x" /\ w[3] = "COMMA" /\ w[4] = "chunked"
    BY <1>w
  <2> QED BY <2>2, <2>3, <2>4
<1>2. core \in Seq(HeadByte) /\ Len(core) = 5 /\ core[1] = "Transfer-Encoding:"
      /\ core[2] = "SP" /\ core[3] = "x" /\ core[4] = "COMMA" /\ core[5] = "chunked"
  <2>0. name \in Seq(HeadByte) /\ w \in Seq(HeadByte)
    BY <1>1
  <2>1. /\ name \o w \in Seq(HeadByte) /\ Len(name \o w) = Len(name) + Len(w)
        /\ \A i \in 1..Len(name) : (name \o w)[i] = name[i]
        /\ \A i \in 1..Len(w) : (name \o w)[Len(name) + i] = w[i]
    BY <2>0, CatFacts
  <2>2. /\ core \in Seq(HeadByte) /\ Len(core) = 5
        /\ \A i \in 1..1 : core[i] = name[i]
        /\ \A i \in 1..4 : core[1 + i] = w[i]
    BY <1>1, <1>c, <2>1
  <2>3. /\ 1 \in 1..1 /\ 1 \in 1..4 /\ 2 \in 1..4 /\ 3 \in 1..4 /\ 4 \in 1..4
        /\ 1 + 1 = 2 /\ 1 + 2 = 3 /\ 1 + 3 = 4 /\ 1 + 4 = 5
    OBVIOUS
  <2> QED BY <1>1, <2>2, <2>3
<1>3. ASSUME NEW x, Cut(x, core, 3, Len(core)) PROVE HasToken(x, "chunked")
  <2>1. Len(x) = 3 /\ x[1] = "x" /\ x[2] = "COMMA" /\ x[3] = "chunked" /\ x \in Seq(HeadByte)
    <3>1. /\ Len(core) - 3 + 1 = 3 /\ 1 \in 1..3 /\ 2 \in 1..3 /\ 3 \in 1..3
          /\ 3 + 1 - 1 = 3 /\ 3 + 2 - 1 = 4 /\ 3 + 3 - 1 = 5
      BY <1>2
    <3> QED BY <1>2, <1>3, <3>1 DEF Cut
  <2>2. 3 \in DOMAIN x /\ 2 \in 0..Len(x) /\ 2 < 3
    BY <2>1
  <2>3. \A m \in (2 + 1)..(3 - 1) : x[m] = "SP"
    OBVIOUS
  <2> QED BY <2>1, <2>2, <2>3 DEF HasToken
<1>4. ASSUME NEW i \in 1..Len(core) PROVE core[i] # "LF"
  <2>1. i = 1 \/ i = 2 \/ i = 3 \/ i = 4 \/ i = 5
    BY <1>2
  <2> QED BY <1>2, <2>1
<1>5. 3 \in 2..Len(core) /\ Len(core) <= 5 /\ Len(core) - 3 <= 2 /\ core[3] # "SP"
      /\ core[Len(core)] = "chunked"
  BY <1>2
<1>6. \A i \in 2..(3 - 1) : core[i] = "SP"
  <2> SUFFICES ASSUME NEW i \in 2..(3 - 1) PROVE core[i] = "SP"
    OBVIOUS
  <2>1. i = 2
    OBVIOUS
  <2> QED BY <1>2, <2>1
<1>7. TRUE \in BOOLEAN /\ \A x : Cut(x, core, 3, Len(core)) => (HasToken(x, "chunked") <=> TRUE)
  BY <1>3
<1>8. Says(FieldLine(core, TRUE, NoLen))
  BY <1>2, <1>4, <1>5, <1>6, <1>7, CodingIs
<1> QED BY <1>8, <1>c, <1>n, <1>w

\* A word that is only the end of another coding's name.
LEMMA WordSays ==
  Says(FieldLine(<<"Transfer-Encoding:", "x", "chunked">>, FALSE, NoLen))
<1>c. PICK core : core = <<"Transfer-Encoding:", "x", "chunked">>
  OBVIOUS
<1>2. core \in Seq(HeadByte) /\ Len(core) = 3 /\ core[1] = "Transfer-Encoding:"
      /\ core[2] = "x" /\ core[3] = "chunked"
  <2>1. "Transfer-Encoding:" \in HeadByte /\ "chunked" \in HeadByte /\ "x" \in HeadByte
    BY Bytes
  <2>2. core \in Seq(HeadByte)
    BY <1>c, <2>1
  <2>3. Len(core) = 3 /\ core[1] = "Transfer-Encoding:" /\ core[2] = "x" /\ core[3] = "chunked"
    BY <1>c
  <2> QED BY <2>2, <2>3
<1>3. ASSUME NEW x, Cut(x, core, 2, Len(core)) PROVE ~HasToken(x, "chunked")
  <2>1. Len(x) = 2 /\ x[1] = "x" /\ x[2] = "chunked" /\ x \in Seq(HeadByte)
    <3>1. Len(core) - 2 + 1 = 2 /\ 1 \in 1..2 /\ 2 \in 1..2 /\ 2 + 1 - 1 = 2 /\ 2 + 2 - 1 = 3
      BY <1>2
    <3> QED BY <1>2, <1>3, <3>1 DEF Cut
  <2> SUFFICES ASSUME NEW i \in DOMAIN x, NEW j \in 0..Len(x), x[i] = "chunked", j < i,
                      j = 0 \/ x[j] = "COMMA", \A m \in (j + 1)..(i - 1) : x[m] = "SP"
               PROVE  FALSE
    BY DEF HasToken
  <2>2. DOMAIN x = 1..2
    BY <2>1
  <2>3. i = 2 /\ (j = 0 \/ j = 1)
    <3>1. i = 1 \/ i = 2
      BY <2>2
    <3>2. i = 2
      BY <2>1, <3>1
    <3>3. j \in Nat /\ j < 2
      BY <2>1, <3>2
    <3> QED BY <3>2, <3>3
  <2>4. CASE j = 0
    <3>1. 1 \in (j + 1)..(i - 1)
      BY <2>3, <2>4
    <3> QED BY <2>1, <3>1
  <2>5. CASE j = 1
    BY <2>1, <2>5
  <2> QED BY <2>3, <2>4, <2>5
<1>4. ASSUME NEW i \in 1..Len(core) PROVE core[i] # "LF"
  <2>1. i = 1 \/ i = 2 \/ i = 3
    BY <1>2
  <2> QED BY <1>2, <2>1
<1>5. 2 \in 2..Len(core) /\ Len(core) <= 5 /\ Len(core) - 2 <= 2 /\ core[2] # "SP"
      /\ core[Len(core)] = "chunked"
  BY <1>2
<1>6. \A i \in 2..(2 - 1) : core[i] = "SP"
  OBVIOUS
<1>7. FALSE \in BOOLEAN /\ \A x : Cut(x, core, 2, Len(core)) => (HasToken(x, "chunked") <=> FALSE)
  BY <1>3
<1>8. Says(FieldLine(core, FALSE, NoLen))
  BY <1>2, <1>4, <1>5, <1>6, <1>7, CodingIs
<1> QED BY <1>8, <1>c

\* The other lines say nothing of the framing.
LEMMA OthersSay ==
  ASSUME NEW f \in Others
  PROVE  Says(f)
<1>1. PICK core \in {<<"Connection:", "SP", "close">>, <<"x", "Content-Length:", "x">>,
                     [m \in 1..(HeadLineCap + 1) |-> "x"]} :
        f = FieldLine(core, FALSE, NoLen)
  BY DEF Others
<1>2. /\ core \in Seq(HeadByte) /\ Len(core) > 0
      /\ core[1] \notin {"Content-Length:", "Transfer-Encoding:"}
      /\ \A i \in 1..Len(core) : core[i] # "LF"
  <2>0. /\ "Connection:" \in HeadByte /\ "SP" \in HeadByte /\ "close" \in HeadByte
        /\ "x" \in HeadByte /\ "Content-Length:" \in HeadByte
    BY Bytes
  <2>1. CASE core = <<"Connection:", "SP", "close">>
    <3>1. core \in Seq(HeadByte)
      BY <2>0, <2>1
    <3>2. Len(core) = 3 /\ core[1] = "Connection:" /\ core[2] = "SP" /\ core[3] = "close"
      BY <2>1
    <3>3. ASSUME NEW i \in 1..Len(core) PROVE core[i] # "LF"
      <4>1. i = 1 \/ i = 2 \/ i = 3
        BY <3>2
      <4> QED BY <3>2, <4>1
    <3> QED BY <3>1, <3>2, <3>3
  <2>2. CASE core = <<"x", "Content-Length:", "x">>
    <3>1. core \in Seq(HeadByte)
      BY <2>0, <2>2
    <3>2. Len(core) = 3 /\ core[1] = "x" /\ core[2] = "Content-Length:" /\ core[3] = "x"
      BY <2>2
    <3>3. ASSUME NEW i \in 1..Len(core) PROVE core[i] # "LF"
      <4>1. i = 1 \/ i = 2 \/ i = 3
        BY <3>2
      <4> QED BY <3>2, <4>1
    <3> QED BY <3>1, <3>2, <3>3
  <2>3. CASE core = [m \in 1..(HeadLineCap + 1) |-> "x"]
    <3>n. PICK n : n = HeadLineCap + 1
      OBVIOUS
    <3>1. n \in Nat /\ n > 0
      BY <3>n, HeadCaps
    <3>2. core = [m \in 1..n |-> "x"]
      BY <2>3, <3>n
    <3>3. core \in Seq(HeadByte) /\ Len(core) = n /\ \A m \in 1..n : core[m] = "x"
      BY <2>0, <3>1, <3>2
    <3>4. 1 \in 1..n
      BY <3>1
    <3> QED BY <3>1, <3>3, <3>4
  <2> QED BY <1>1, <2>1, <2>2, <2>3
<1>3. Says(FieldLine(core, FALSE, NoLen))
  BY <1>2, SaysNothing
<1> QED BY <1>1, <1>3

\* Lengths that fit are taken for what they are, and so are the codings.
LEMMA EveryFieldSays ==
  ASSUME ~LongLengths, NEW f \in Lengths \cup Codings \cup Others
  PROVE  Says(f)
<1>1. ASSUME f \in Codings PROVE Says(f)
  <2>1. \/ \E value \in {<<"chunked">>, <<"SP", "x", "COMMA", "chunked">>} :
             f = FieldLine(<<"Transfer-Encoding:">> \o value, TRUE, NoLen)
        \/ f = FieldLine(<<"Transfer-Encoding:", "x", "chunked">>, FALSE, NoLen)
    BY <1>1 DEF Codings
  <2>2. \/ f = FieldLine(<<"Transfer-Encoding:">> \o <<"chunked">>, TRUE, NoLen)
        \/ f = FieldLine(<<"Transfer-Encoding:">> \o <<"SP", "x", "COMMA", "chunked">>, TRUE, NoLen)
        \/ f = FieldLine(<<"Transfer-Encoding:", "x", "chunked">>, FALSE, NoLen)
    BY <2>1
  <2> QED BY <2>2, ChunkedSays, ListSays, WordSays
<1> QED BY <1>1, LengthsSay, OthersSay

\* The server after a field.
AfterField(s, f) ==
    LET len == IF f.len # NoLen THEN f.len ELSE s.len
    IN  [s EXCEPT
            !.framing = Framing(f.chunked \/ @ = "chunked", len),
            !.len = len, !.head = @ + Len(f.text), !.fields = @ + 1,
            !.coded = @ \/ f \in Codings,
            !.unfit = @ \/ s.head + Len(f.text) > HeadCap]

\* A field is read, or the head does not fit.
LEMMA FieldGoesOn ==
  ASSUME NEW t \in State, NEW s \in Server, NEW z \in Seq(HeadByte),
         Good(t, <<>>, s, z), AtEnd(t, s, z), ServerInv(s, z), s.at = "fields",
         NEW f, Says(f), f.len = NoLen \/ s.len = NoLen
  PROVE  GoesOn(t, Marked("head", f.text), <<>>, s, AfterField(s, f), z)
<1>x. PICK text : text = f.text
  OBVIOUS
<1>2. PICK s2 : s2 = AfterField(s, f)
  OBVIOUS
<1>r. PICK r : r = t.rx
  OBVIOUS
<1>k. PICK len : len = IF f.len # NoLen THEN f.len ELSE s.len
  OBVIOUS
<1>c. PICK core \in Seq(HeadByte) : /\ text = core \o CRLF /\ Len(core) > 0
                                    /\ \A k \in 1..Len(core) : core[k] # "LF"
  BY <1>x DEF Says
<1>0. z = <<>> /\ InHead(s) /\ Len(z) = 0 /\ r \in Receiver
  BY <1>r, EmptyFacts DEF ServerInv, InHead, State
<1>1. /\ text \in Seq(HeadByte) /\ Len(text) = Len(core) + 2 /\ Len(core) \in Nat
      /\ Len(text) > 0 /\ text[Len(text)] = "LF"
      /\ \A k \in 1..(Len(text) - 1) : text[k] # "LF"
  <2>1. /\ text \in Seq(HeadByte) /\ Len(text) = Len(core) + 2 /\ Len(core) \in Nat
        /\ \A k \in 1..Len(core) : text[k] = core[k]
        /\ text[Len(core) + 1] = "CR" /\ text[Len(core) + 2] = "LF"
    BY <1>c, LineFacts
  <2>2. ASSUME NEW k \in 1..(Len(text) - 1) PROVE text[k] # "LF"
    <3>1. k \in 1..Len(core) \/ k = Len(core) + 1
      BY <2>1
    <3> QED BY <1>c, <2>1, <3>1
  <2> QED BY <2>1, <2>2
<1>3. /\ s2.at = "fields" /\ s2.len = len /\ s2.head = s.head + Len(text)
      /\ (s2.unfit <=> s.unfit \/ s.head + Len(text) > HeadCap)
      /\ s2.framing = Framing(f.chunked \/ s.framing = "chunked", len)
      /\ InHead(s2) /\ ~Ended(s2)
  <2>h. PICK h : h = s.head + Len(text)
    OBVIOUS
  <2>a. PICK a : a = Framing(f.chunked \/ s.framing = "chunked", len)
    OBVIOUS
  <2>u. PICK u : u = (s.unfit \/ s.head + Len(text) > HeadCap)
    OBVIOUS
  <2>1. s2 = [s EXCEPT !.framing = a, !.len = len, !.head = h, !.fields = @ + 1,
                       !.coded = @ \/ f \in Codings, !.unfit = u]
    BY <1>2, <1>k, <1>x, <2>a, <2>h, <2>u DEF AfterField
  <2>2. s2.at = "fields" /\ s2.len = len /\ s2.head = h /\ s2.unfit = u /\ s2.framing = a
    BY <2>1 DEF Server
  <2> QED BY <2>2, <2>a, <2>h, <2>u DEF InHead, Ended
<1>4. /\ s.head \in Nat /\ s.framing \in {"none", "length", "chunked"}
      /\ s.len \in Nat \cup {NoLen} /\ f.len \in Nat \cup {NoLen} /\ f.chunked \in BOOLEAN
  BY DEF Server, Says
<1>5. /\ s2.framing = "chunked" <=> f.chunked \/ s.framing = "chunked"
      /\ s2.framing # "chunked" => (s2.framing = "none" <=> s2.len = NoLen)
  BY <1>3 DEF Framing
<1>7. ServerInv(s2, z)
  BY <1>0, <1>3, <1>5 DEF ServerInv
<1>10. ASSUME ~s2.unfit, NEW p \in State, p.rx = LineTaken(t.rx, text), p.body = <<>>
       PROVE  Good(p, <<>>, s2, z) /\ AtEnd(p, s2, z)
  <2>b. PICK b : b = r.buf \o text
    OBVIOUS
  <2>q. PICK q : q = p.rx
    OBVIOUS
  <2>0. /\ ~s.unfit /\ BetweenLines(t, s) /\ r.result = "reading" /\ r.dec = Fresh
        /\ r.total = 0 /\ ~r.ended
    BY <1>0, <1>3, <1>10, <1>r DEF AtEnd
  <2>1. /\ ~EndOfHead(b) /\ b \in Seq(HeadByte) /\ Len(b) = s2.head /\ s2.head >= 2
        /\ SubSeq(b, s2.head - 1, s2.head) = CRLF
    <3>u. PICK u : u = r.buf
      OBVIOUS
    <3>1. u \in Seq(HeadByte) /\ Len(u) = s.head
      BY <1>0, <1>r, <2>0, <3>u DEF BetweenLines, Receiver
    <3>2. core \in Seq(HeadByte) /\ (\A k \in 1..Len(core) : core[k] # "LF") /\ text = core \o CRLF
      BY <1>c
    <3>3. LineEnd(u \o text, u, core)
      BY <3>1, <3>2, LineEnds
    <3>4. LineEnd(b, u, core)
      BY <2>b, <3>3, <3>u
    <3>5. Len(b) = s.head + Len(core) + 2 /\ b \in Seq(HeadByte)
          /\ SubSeq(b, Len(b) - 1, Len(b)) = CRLF /\ ~EndOfHead(b)
      BY <1>c, <3>1, <3>4 DEF LineEnd
    <3>6. Len(b) = s2.head /\ s2.head >= 2
      <4>1. s2.head = s.head + Len(text)
        BY <1>3
      <4> QED BY <1>1, <1>4, <3>5, <4>1
    <3> QED BY <3>5, <3>6
  <2>2. Taken(q, r, b, Line(text, Len(text)))
    <3>1. Taken(LineTaken(r, text), r, r.buf \o text, Line(text, Len(text)))
      BY <1>0, <1>1, LineTakenIs
    <3>2. q = LineTaken(r, text)
      BY <1>10, <1>r, <2>q
    <3> QED BY <2>b, <3>1, <3>2
  <2>3. /\ ContentLength(Line(text, Len(text))) = f.len
        /\ (Field(Line(text, Len(text)), "Transfer-Encoding:", "chunked") <=> f.chunked)
    BY <1>x DEF Says
  <2>4. r.status /\ r.len = s.len /\ (r.chunked <=> s.framing = "chunked")
    BY <1>r, <2>0 DEF BetweenLines
  <2>5. /\ q.line = <<>> /\ q.status /\ ~q.ended /\ q.result = "reading" /\ q.dec = Fresh
        /\ q.total = 0 /\ q.buf = b
        /\ q.len = (IF s.len = NoLen THEN f.len ELSE s.len)
        /\ (q.chunked <=> s.framing = "chunked" \/ f.chunked)
    BY <2>0, <2>1, <2>2, <2>3, <2>4 DEF Taken
  <2>6. q.len = s2.len
    BY <1>3, <1>k, <2>5
  <2>7. ~q.dec.done
    BY <2>5 DEF Fresh
  <2>8. Good(p, <<>>, s2, z)
    <3>1. Got(<<>>, z) = 0
      <4>1. Got(<<>>, z) = Len(z)
        BY EmptyFacts
      <4> QED BY <1>0, <4>1
    <3>2. Got(<<>>, z) \in 0..Len(z)
      BY <1>0, <3>1
    <3> QED BY <1>3, <1>10, <2>5, <2>7, <2>q, <3>1, <3>2 DEF Good
  <2>9. BetweenLines(p, s2)
    BY <1>5, <2>1, <2>5, <2>6, <2>q DEF BetweenLines
  <2>10. AtEnd(p, s2, z)
    BY <1>3, <1>10, <2>5, <2>9, <2>q DEF AtEnd
  <2> QED BY <2>8, <2>10
<1>11. s2.at # "status"
  BY <1>3
<1>13. GoesOn(t, Marked("head", text), <<>>, s, s2, z)
  BY <1>0, <1>1, <1>3, <1>4, <1>7, <1>10, <1>11, HeadGoesOn
<1> QED BY <1>2, <1>13, <1>x

-----------------------------------------------------------------------------
(***************************************************************************)
(* A record.                                                               *)
(***************************************************************************)
Feeding == INSTANCE Iteration WITH op <- TakeByte

\* Of the first n bytes of w, u are used, and t becomes f[u].
Fed(s, f, n, u) ==
    /\ s = [rx |-> f[u].rx, body |-> f[u].body, used |-> u]
    /\ u = n \/ Stopped(f[u])
    /\ u > 0 => ~Stopped(f[u - 1])

\* A record: the fold over its bytes goes along the path as far as bytes are used.
LEMMA FeedIs ==
  ASSUME NEW t \in State, NEW w \in Seq(Item), NEW f, Path(f, t, w), NEW n \in 0..Len(w)
  PROVE  \E u \in 0..n :
            Fed(FoldLeft(TakeByte, [rx |-> t.rx, body |-> t.body, used |-> 0],
                         [m \in 1..n |-> w[m].b]), f, n, u)
<1> DEFINE base == [rx |-> t.rx, body |-> t.body, used |-> 0]
           piece == [m \in 1..n |-> w[m].b]
<1>1. Len(w) \in Nat /\ n \in Nat /\ \A k \in 1..n : w[k].b \in HeadByte
  <2>1. Len(w) \in Nat
    BY LenProperties
  <2>2. ASSUME NEW k \in 1..n PROVE w[k].b \in HeadByte
    <3>1. k \in 1..Len(w)
      BY <2>1
    <3>2. w[k] \in Item
      BY <3>1, ElementOfSeq
    <3> QED BY <3>2 DEF Item
  <2> QED BY <2>1, <2>2
<1>2. piece \in Seq(HeadByte) /\ Len(piece) = n /\ \A k \in 1..n : piece[k] = w[k].b
  BY <1>1
<1>3. FoldLeft(TakeByte, base, piece) = Feeding!Fold(base, piece)
  BY DEF Feeding!Fold, FoldLeft, MapThenFoldSet, Max, Feeding!Largest
<1> HIDE DEF piece
<1>4. PICK g : Feeding!Iterates(g, base, piece, n) /\ Feeding!Fold(base, piece) = g[n]
  BY <1>2, Feeding!FoldIterates
<1> DEFINE S == {k \in Nat : k <= n => \E u \in 0..k : Fed(g[k], f, k, u)}
<1>5. 0 \in S
  <2>1. g[0] = base
    BY <1>1, <1>4 DEF Feeding!Iterates
  <2>2. f[0] = t
    BY DEF Path
  <2>3. Fed(g[0], f, 0, 0)
    BY <2>1, <2>2 DEF Fed
  <2> QED
    BY <2>3
<1>6. ASSUME NEW k \in Nat, k \in S PROVE k + 1 \in S
  <2> SUFFICES ASSUME k + 1 <= n PROVE \E u \in 0..(k + 1) : Fed(g[k + 1], f, k + 1, u)
    OBVIOUS
  <2>1. k <= n /\ k + 1 \in 1..n /\ k + 1 \in 0..n /\ k + 1 # 0 /\ (k + 1) - 1 = k
    BY <1>1
  <2>2. PICK u \in 0..k : Fed(g[k], f, k, u)
    BY <1>6, <2>1
  <2> DEFINE b == w[k + 1].b
  <2>3. g[k + 1] = TakeByte(g[k], b)
    <3>1. g[k + 1] = TakeByte(g[k], piece[k + 1])
      BY <1>4, <2>1 DEF Feeding!Iterates
    <3> QED BY <1>2, <2>1, <3>1
  <2>4. f[u] \in State /\ u \in Nat /\ u \in 0..Len(w)
    <3>1. u \in Nat /\ u \in 0..Len(w)
      BY <1>1, <2>1
    <3> QED BY <3>1, PathTyped
  <2> HIDE DEF b
  <2>5. g[k + 1] = [rx |-> Take(f[u], b).rx, body |-> Take(f[u], b).body,
                    used |-> IF Stopped(f[u]) THEN u ELSE u + 1]
    <3>1. TakeByte([rx |-> f[u].rx, body |-> f[u].body, used |-> u], b)
          = [rx |-> Take(f[u], b).rx, body |-> Take(f[u], b).body,
             used |-> IF Stopped(f[u]) THEN u ELSE u + 1]
      BY <2>4, TakeByteIs
    <3>2. g[k] = [rx |-> f[u].rx, body |-> f[u].body, used |-> u]
      BY <2>2 DEF Fed
    <3> QED BY <2>3, <3>1, <3>2
  <2>6. CASE Stopped(f[u])
    <3>1. Take(f[u], b) = f[u]
      BY <2>6 DEF Take
    <3>2. Fed(g[k + 1], f, k + 1, u)
      BY <2>2, <2>5, <2>6, <3>1 DEF Fed
    <3> QED BY <2>4, <3>2
  <2>7. CASE ~Stopped(f[u])
    <3>1. u = k
      BY <2>2, <2>7 DEF Fed
    <3>2. k + 1 \in 1..Len(w)
      BY <1>1, <2>1
    <3>3. f[k + 1] = Take(f[(k + 1) - 1], w[k + 1].b)
      BY <3>2 DEF Path
    <3>4. f[k + 1] = Take(f[u], b)
      BY <2>1, <3>1, <3>3 DEF b
    <3>5. (k + 1) - 1 = u /\ u + 1 = k + 1
      BY <2>1, <3>1
    <3>6. Fed(g[k + 1], f, k + 1, k + 1)
      BY <2>5, <2>7, <3>4, <3>5 DEF Fed
    <3> QED BY <3>6
  <2> QED BY <2>6, <2>7
<1>7. \A k \in Nat : k \in S
  <2> HIDE DEF S
  <2> QED BY <1>5, <1>6, Feeding!NatSetInduction
<1>8. \E u \in 0..n : Fed(g[n], f, n, u)
  BY <1>1, <1>7
<1> HIDE DEF base
<1>9. FoldLeft(TakeByte, base, piece) = g[n]
  BY <1>3, <1>4
<1> QED
  BY <1>8, <1>9 DEF base, piece

-----------------------------------------------------------------------------
(***************************************************************************)
(* What Good says of a receiver that was not given up.                     *)
(***************************************************************************)
\* What it has stored is what it has got, up to the room there is.
LEMMA HasStored ==
  ASSUME NEW t \in State, NEW w, NEW s, NEW z \in Seq(HeadByte),
         Good(t, w, s, z), t.rx.result # "bad",
         (t.rx.kind = "keep" /\ s.framing = "none" /\ t.rx.ended) => Got(w, z) = 0
  PROVE  /\ t.body = SubSeq(z, 1, Least(Got(w, z), t.rx.cap))
         /\ Len(t.body) = Least(Got(w, z), t.rx.cap)
         /\ Got(w, z) \in 0..Len(z)
<1>n. PICK n : n = Got(w, z)
  OBVIOUS
<1>m. PICK m : m = Least(n, t.rx.cap)
  OBVIOUS
<1>1. n \in 0..Len(z) /\ n \in Nat /\ Len(z) \in Nat /\ t.rx.cap \in Nat
  <2>1. n \in 0..Len(z) /\ Len(z) \in Nat
    BY <1>n, LenProperties DEF Good
  <2> QED BY <2>1 DEF State, Receiver
<1>2. m \in 0..Len(z) /\ (n = 0 => m = 0)
  BY <1>1, <1>m DEF Least
<1>3. SubSeq(z, 1, m) \in Seq(HeadByte) /\ Len(SubSeq(z, 1, m)) = m
  BY <1>2, PrefixFacts
<1>4. ASSUME n = 0 PROVE SubSeq(z, 1, m) = <<>>
  <2>1. Len(SubSeq(z, 1, m)) = 0
    BY <1>2, <1>3, <1>4
  <2> QED BY <1>3, <2>1, EmptySeq
<1>5. t.body = SubSeq(z, 1, m)
  <2>1. CASE ~t.rx.ended
    <3>1. t.body = <<>> /\ n = 0
      BY <1>n, <2>1 DEF Good
    <3> QED BY <1>4, <3>1
  <2>2. CASE t.rx.ended
    <3>1. t.body = IF t.rx.kind = "keep" /\ s.framing = "none" THEN <<>>
                   ELSE SubSeq(z, 1, Least(Got(w, z), t.rx.cap))
      BY <2>2 DEF Good
    <3>2. CASE t.rx.kind = "keep" /\ s.framing = "none"
      <4>1. n = 0
        BY <1>n, <2>2, <3>2
      <4> QED BY <1>4, <3>1, <3>2, <4>1
    <3>3. CASE ~(t.rx.kind = "keep" /\ s.framing = "none")
      BY <1>m, <1>n, <3>1, <3>3
    <3> QED BY <3>2, <3>3
  <2> QED BY <2>1, <2>2
<1> QED
  BY <1>1, <1>3, <1>5, <1>m, <1>n

\* A framed response is complete on a kept connection at its end.
LEMMA EndsThere ==
  ASSUME NEW t \in State, NEW w \in Seq(Item), NEW s, NEW z,
         Good(t, w, s, z), t.rx.result # "bad", t.rx.kind = "keep", s.framing # "none"
  PROVE  Complete(t.rx) <=> Ended(s) /\ OnlyNext(w)
<1>1. CASE t.rx.ended
  BY <1>1 DEF Good
<1>2. CASE ~t.rx.ended
  <2>1. ~Complete(t.rx)
    BY <1>2 DEF Complete
  <2>2. IF w = <<>> THEN InHead(s) ELSE w[1].part = "head"
    BY <1>2 DEF Good
  <2>3. CASE w = <<>>
    BY <2>1, <2>2, <2>3 DEF InHead, Ended
  <2>4. CASE w # <<>>
    <3>1. w[1].part = "head"
      BY <2>2, <2>4
    <3>2. 1 \in DOMAIN w
      BY <2>4, EmptySeq
    <3> QED BY <2>1, <3>1, <3>2 DEF OnlyNext
  <2> QED BY <2>3, <2>4
<1> QED BY <1>1, <1>2

\* Without framing a kept connection takes the response for complete.
LEMMA UnframedIsComplete ==
  ASSUME NEW t \in State, NEW w, NEW s, NEW z, Good(t, w, s, z), ServerInv(s, z),
         t.rx.result # "bad", t.rx.ended, s.framing = "none"
  PROVE  Complete(t.rx)
<1>1. (t.rx.chunked <=> s.framing = "chunked") /\ t.rx.len = s.len
  BY DEF Good
<1>2. s.len = NoLen
  BY DEF ServerInv
<1> QED
  BY <1>1, <1>2 DEF Complete

-----------------------------------------------------------------------------
(***************************************************************************)
(* The invariant gives the three properties.                               *)
(***************************************************************************)
\* The receiver, as the paths have it.
Here == [rx |-> rx, body |-> body]

\* What the invariant says of the receiver now.
LEMMA LiveNow ==
  ASSUME Live
  PROVE  /\ Here \in State /\ Here.rx = rx /\ Here.body = body
         /\ snd \in Server /\ sent \in Seq(HeadByte) /\ wire \in Seq(Item)
         /\ ServerInv(snd, sent) /\ Good(Here, wire, snd, sent)
         /\ wire = <<>> => AtEnd(Here, snd, sent)
<1>1. /\ Here \in State /\ snd \in Server /\ sent \in Seq(HeadByte) /\ wire \in Seq(Item)
      /\ ServerInv(snd, sent)
  BY DEF Live, Typed, Here
<1>2. Here.rx = rx /\ Here.body = body
  BY DEF Here
<1>3. PICK f : GoodPath(f, Here, wire, snd, sent)
  BY DEF Live, Here
<1>4. Len(wire) \in Nat /\ 0 \in 0..Len(wire)
  BY <1>1, LenProperties
<1>5. f[0] = Here /\ Good(f[0], After(wire, 0), snd, sent)
  BY <1>3, <1>4 DEF GoodPath, Path
<1>6. After(wire, 0) = wire
  BY <1>1, AfterEnds
<1>7. wire = <<>> => AtEnd(Here, snd, sent)
  <2> SUFFICES ASSUME wire = <<>> PROVE AtEnd(Here, snd, sent)
    OBVIOUS
  <2>1. Len(wire) = 0
    BY EmptyFacts
  <2>2. AtEnd(f[Len(wire)], snd, sent)
    BY <1>3 DEF GoodPath
  <2> QED BY <1>5, <2>1, <2>2
<1> QED
  BY <1>1, <1>2, <1>5, <1>6, <1>7

\* A receiver that still reads when it has used all bytes has not met what does not fit.
LEMMA StillFits ==
  ASSUME Live, rx.result = "reading", wire = <<>>
  PROVE  ~snd.unfit
<1> SUFFICES ASSUME snd.unfit PROVE FALSE
  OBVIOUS
<1>1. AtEnd(Here, snd, sent) /\ Here.rx = rx
  BY LiveNow
<1>2. Idle(Here)
  BY <1>1 DEF AtEnd
<1>3. rx.kind = "once" /\ rx.cap = 0 /\ rx.ended
  BY <1>1, <1>2 DEF Idle
<1>4. Enough(Here)
  BY <1>1, <1>3 DEF Enough
<1> QED
  BY <1>3, <1>4 DEF Live, Here

\* While the receiver reads, the three properties hold.
LEMMA ReadingIsRight ==
  ASSUME Live, rx.result = "reading"
  PROVE  StoresTheBody /\ EndsWithMessage /\ RejectsTheUnfit
<1>1. /\ Here \in State /\ Here.rx = rx /\ Here.body = body
      /\ snd \in Server /\ sent \in Seq(HeadByte) /\ wire \in Seq(Item)
      /\ ServerInv(snd, sent) /\ Good(Here, wire, snd, sent)
  BY LiveNow
<1>2. Here.rx.result # "bad"
  BY <1>1
<1>3. StoresTheBody
  <2>1. ~(Here.rx.kind = "keep" /\ snd.framing = "none" /\ Here.rx.ended)
    <3> SUFFICES ASSUME Here.rx.kind = "keep", snd.framing = "none", Here.rx.ended PROVE FALSE
      OBVIOUS
    <3>1. Complete(Here.rx)
      BY <1>1, <1>2, UnframedIsComplete
    <3> QED BY <1>1, <3>1 DEF Live
  <2>2. Here.body = SubSeq(sent, 1, Least(Got(wire, sent), Here.rx.cap))
    BY <1>1, <1>2, <2>1, HasStored
  <2> QED BY <1>1, <2>2 DEF StoresTheBody, Least, Got
<1>4. EndsWithMessage
  <2>1. ASSUME rx.kind = "keep", snd.framing # "none"
        PROVE  Complete(rx) <=> MessageSent /\ OnlyNext(wire)
    <3>1. Complete(Here.rx) <=> Ended(snd) /\ OnlyNext(wire)
      BY <1>1, <1>2, <2>1, EndsThere
    <3> QED BY <1>1, <3>1 DEF Ended, MessageSent
  <2>2. ~Reusable(rx)
    BY DEF Reusable
  <2> QED BY <2>1, <2>2 DEF EndsWithMessage
<1>5. RejectsTheUnfit
  BY StillFits DEF RejectsTheUnfit
<1> QED
  BY <1>3, <1>4, <1>5

\* And so they follow from the invariant.
LEMMA InvariantGives ==
  ResponseInv => StoresTheBody /\ EndsWithMessage /\ RejectsTheUnfit
  BY ReadingIsRight DEF ResponseInv

-----------------------------------------------------------------------------
(***************************************************************************)
(* The first state.                                                        *)
(***************************************************************************)
\* It holds in the beginning.
LEMMA InitIsGood == Init => ResponseInv
<1> SUFFICES ASSUME Init PROVE ResponseInv
  OBVIOUS
<1>1. PICK kind \in {"keep", "once"}, cap \in {0, BodyCap} : rx = NewReceiver(kind, cap)
  BY DEF Init
<1>2. cap \in Nat
  BY ResponseAssumption
<1>3. /\ rx.result = "reading" /\ rx.kind = kind /\ rx.cap = cap /\ ~rx.ended
      /\ rx.dec = Fresh /\ rx.total = 0 /\ rx \in Receiver
  <2>1. <<>> \in Seq(HeadByte) /\ NoLen \in Int
    BY DEF NoLen
  <2>2. Fresh \in Decoder /\ ~Fresh.done
    BY <2>1 DEF Fresh, Decoder
  <2>3. PICK c : c = Fresh
    OBVIOUS
  <2>4. rx = [kind |-> kind, cap |-> cap, buf |-> <<>>, line |-> <<>>, status |-> FALSE,
              ended |-> FALSE, len |-> NoLen, chunked |-> FALSE, close |-> FALSE,
              dec |-> c, total |-> 0, result |-> "reading"]
    BY <1>1, <2>3 DEF NewReceiver
  <2>5. rx \in Receiver
    BY <1>2, <2>1, <2>2, <2>3, <2>4 DEF Receiver
  <2> QED BY <2>3, <2>4, <2>5
<1>d. ~rx.dec.done
  BY <1>3 DEF Fresh
<1>4. /\ snd.at = "status" /\ snd.framing = "none" /\ snd.len = NoLen /\ ~snd.unfit
      /\ snd.head = 0 /\ snd \in Server
  BY DEF Init, Server
<1>5. body = <<>> /\ sent = <<>> /\ wire = <<>>
  BY DEF Init
<1>6. /\ <<>> \in Seq(HeadByte) /\ <<>> \in Seq(Item) /\ Len(<<>>) = 0
      /\ Got(<<>>, <<>>) = 0 /\ Got(<<>>, <<>>) \in 0..Len(<<>>)
  <2>1. <<>> \in Seq(HeadByte) /\ <<>> \in Seq(Item) /\ Len(<<>>) = 0
    OBVIOUS
  <2>2. Got(<<>>, <<>>) = Len(<<>>)
    BY <2>1, EmptyFacts
  <2> QED BY <2>1, <2>2
<1>7. Here.rx = rx /\ Here.body = body
  BY DEF Here
<1>8. Typed
  <2>1. Here \in State
    BY <1>3, <1>5, <1>6 DEF Here, State
  <2> QED BY <1>4, <1>5, <1>6, <2>1 DEF Typed, Here
<1>9. ServerInv(snd, sent)
  BY <1>4, <1>5 DEF ServerInv, InHead, Ended
<1>10. ~Complete(rx) /\ ~Enough(Here)
  BY <1>3, <1>7 DEF Complete, Enough
<1>11. Good(Here, wire, snd, sent)
  BY <1>3, <1>d, <1>4, <1>5, <1>6, <1>7 DEF Good, InHead
<1>12. AtEnd(Here, snd, sent)
  <2>1. rx = NewReceiver(rx.kind, rx.cap)
    BY <1>1, <1>3
  <2> QED BY <1>3, <1>4, <1>7, <2>1 DEF AtEnd, InHead
<1>13. \E f : GoodPath(f, Here, wire, snd, sent)
  <2> DEFINE f == [n \in 0..0 |-> Here]
  <2>1. f[0] = Here
    OBVIOUS
  <2>2. Len(wire) = 0
    BY <1>5, <1>6
  <2>3. After(wire, 0) = wire
    BY <1>5, <1>6, AfterEnds
  <2> HIDE DEF f
  <2>4. Path(f, Here, wire)
    BY <2>1, <2>2 DEF Path
  <2>5. ASSUME NEW n \in 0..Len(wire) PROVE Good(f[n], After(wire, n), snd, sent)
    <3>1. n = 0
      BY <2>2
    <3> QED BY <1>11, <2>1, <2>3, <3>1
  <2>6. AtEnd(f[Len(wire)], snd, sent)
    BY <1>12, <2>1, <2>2
  <2>7. GoodPath(f, Here, wire, snd, sent)
    BY <2>4, <2>5, <2>6 DEF GoodPath
  <2> QED BY <2>7
<1>14. Live
  BY <1>5, <1>8, <1>9, <1>10, <1>13 DEF Live, Here
<1> QED
  BY <1>3, <1>14 DEF ResponseInv

-----------------------------------------------------------------------------
(***************************************************************************)
(* Sending.                                                                *)
(***************************************************************************)
\* The server sends v, with the data e.
LEMMA SendKeeps ==
  ASSUME Live, rx.result = "reading",
         NEW v, NEW e \in Seq(HeadByte), NEW s2 \in Server, s2.at # "status",
         \A t \in State : Good(t, <<>>, snd, sent) /\ AtEnd(t, snd, sent) =>
                            GoesOn(t, v, e, snd, s2, sent),
         rx' = rx, body' = body, snd' = s2, sent' = sent \o e, wire' = wire \o v
  PROVE  ResponseInv'
<1>1. Here \in State /\ sent \in Seq(HeadByte) /\ wire \in Seq(Item) /\ snd \in Server
  BY LiveNow
<1>2. PICK f : GoodPath(f, Here, wire, snd, sent)
  BY DEF Live, Here
<1>3. Len(wire) \in Nat /\ Len(wire) \in 0..Len(wire)
  BY <1>1, LenProperties
<1>4. PICK t : t = f[Len(wire)]
  OBVIOUS
<1>5. t \in State
  <2>1. Path(f, Here, wire)
    BY <1>2 DEF GoodPath
  <2> QED BY <1>1, <1>3, <1>4, <2>1, PathTyped
<1>6. Good(t, <<>>, snd, sent) /\ AtEnd(t, snd, sent)
  <2>1. After(wire, Len(wire)) = <<>>
    BY <1>1, AfterEnds
  <2> QED BY <1>2, <1>3, <1>4, <2>1 DEF GoodPath
<1>7. GoesOn(t, v, e, snd, s2, sent)
  BY <1>5, <1>6
<1>8. /\ v \in Seq(Item) /\ Kept(snd, sent, v, s2, sent \o e) /\ ServerInv(s2, sent \o e)
      /\ \E g : GoodPath(g, t, v, s2, sent \o e)
  BY <1>7 DEF GoesOn
<1>9. PICK g : GoodPath(g, f[Len(wire)], v, s2, sent \o e)
  BY <1>4, <1>8
<1>10. \E h : GoodPath(h, Here, wire \o v, s2, sent \o e)
  BY <1>1, <1>2, <1>8, <1>9, PathGoesOn
<1>11. wire \o v \in Seq(Item) /\ sent \o e \in Seq(HeadByte)
  BY <1>1, <1>8, ConcatProperties
<1>12. Here = [rx |-> rx, body |-> body]
  BY DEF Here
<1>13. Typed'
  BY <1>1, <1>11, <1>12 DEF Typed
<1>14. ServerInv(snd', sent')
  BY <1>8
<1>15. \E h : GoodPath(h, [rx |-> rx', body |-> body'], wire', snd', sent')
  BY <1>10, <1>12
<1>16. Live'
  BY <1>13, <1>14, <1>15 DEF Live
<1> QED
  BY <1>16 DEF ResponseInv

\* Nothing is added to the body.
LEMMA NothingAdded ==
  ASSUME NEW z \in Seq(HeadByte)
  PROVE  <<>> \in Seq(HeadByte) /\ z \o <<>> = z
  BY ConcatEmptySeq

\* Sending the status line.
LEMMA StatusKeeps ==
  ASSUME Live, rx.result = "reading", SendStatus
  PROVE  ResponseInv'
<1>s. PICK s2 : s2 = [snd EXCEPT !.at = "fields", !.head = 3, !.unfit = 3 > HeadCap]
  OBVIOUS
<1>v. PICK v : v = Marked("head", <<"x">> \o CRLF)
  OBVIOUS
<1>1. snd \in Server /\ sent \in Seq(HeadByte) /\ ServerInv(snd, sent)
  BY LiveNow
<1>2. /\ snd.at = "status" /\ wire' = wire \o v /\ snd' = s2
      /\ rx' = rx /\ body' = body /\ sent' = sent
  BY <1>s, <1>v DEF SendStatus, Sending, Put
<1>3. <<>> \in Seq(HeadByte) /\ sent' = sent \o <<>>
  BY <1>1, <1>2, NothingAdded
<1>4. s2 \in Server /\ s2.at # "status"
  <2>1. PICK u : u = (3 > HeadCap)
    OBVIOUS
  <2>2. s2 = [snd EXCEPT !.at = "fields", !.head = 3, !.unfit = u] /\ u \in BOOLEAN
    BY <1>s, <2>1
  <2> QED BY <1>1, <2>2 DEF Server
<1>5. ASSUME NEW t \in State, Good(t, <<>>, snd, sent) /\ AtEnd(t, snd, sent)
      PROVE  GoesOn(t, v, <<>>, snd, s2, sent)
  BY <1>1, <1>2, <1>5, <1>s, <1>v, StatusGoesOn
<1> QED
  BY <1>2, <1>3, <1>4, <1>5, SendKeeps

\* Sending a field.
LEMMA FieldKeeps ==
  ASSUME ~LongLengths, Live, rx.result = "reading", SendField
  PROVE  ResponseInv'
<1>1. snd \in Server /\ sent \in Seq(HeadByte) /\ ServerInv(snd, sent)
  BY LiveNow
<1>2. PICK f \in Lengths \cup Codings \cup Others :
        /\ f.len = NoLen \/ snd.len = NoLen
        /\ Put("head", f.text) /\ snd' = AfterField(snd, f)
  BY DEF SendField, AfterField
<1>3. snd.at = "fields" /\ rx' = rx /\ body' = body /\ sent' = sent
  BY DEF SendField, Sending
<1>s. PICK s2 : s2 = AfterField(snd, f)
  OBVIOUS
<1>v. PICK v : v = Marked("head", f.text)
  OBVIOUS
<1>4. <<>> \in Seq(HeadByte) /\ sent' = sent \o <<>>
  BY <1>1, <1>3, NothingAdded
<1>5. Says(f)
  BY EveryFieldSays
<1>6. s2 \in Server /\ s2.at # "status"
  <2>1. PICK len : len = IF f.len # NoLen THEN f.len ELSE snd.len
    OBVIOUS
  <2>2. PICK a : a = Framing(f.chunked \/ snd.framing = "chunked", len)
    OBVIOUS
  <2>3. PICK h : h = snd.head + Len(f.text)
    OBVIOUS
  <2>4. PICK c : c = (snd.coded \/ f \in Codings)
    OBVIOUS
  <2>5. PICK u : u = (snd.unfit \/ snd.head + Len(f.text) > HeadCap)
    OBVIOUS
  <2>6. PICK n : n = snd.fields + 1
    OBVIOUS
  <2>7. s2 = [snd EXCEPT !.framing = a, !.len = len, !.head = h, !.fields = n,
                         !.coded = c, !.unfit = u]
    BY <1>s, <2>1, <2>2, <2>3, <2>4, <2>5, <2>6 DEF AfterField
  <2>8. len \in Nat \cup {NoLen} /\ n \in Nat /\ snd.head \in Nat
    BY <1>1, <1>5, <2>1, <2>6 DEF Says, Server
  <2>9. a \in {"none", "length", "chunked"}
    BY <2>2 DEF Framing
  <2>10. c \in BOOLEAN /\ u \in BOOLEAN
    BY <2>4, <2>5
  <2>11. h \in Nat
    <3>1. PICK core \in Seq(HeadByte) : f.text = core \o CRLF
      BY <1>5 DEF Says
    <3>2. Len(core \o CRLF) \in Nat
      BY LineFacts, LenProperties
    <3>3. Len(f.text) \in Nat
      BY <3>1, <3>2
    <3> QED BY <2>3, <2>8, <3>3
  <2> QED BY <1>1, <1>3, <2>7, <2>8, <2>9, <2>10, <2>11 DEF Server
<1>7. ASSUME NEW t \in State, Good(t, <<>>, snd, sent) /\ AtEnd(t, snd, sent)
      PROVE  GoesOn(t, v, <<>>, snd, s2, sent)
  BY <1>1, <1>2, <1>3, <1>5, <1>7, <1>s, <1>v, FieldGoesOn
<1>8. wire' = wire \o v /\ snd' = s2
  BY <1>2, <1>s, <1>v DEF Put
<1> QED
  BY <1>3, <1>4, <1>6, <1>7, <1>8, SendKeeps

\* Sending the empty line after the fields.
LEMMA BlankKeeps ==
  ASSUME Live, rx.result = "reading", SendBlank
  PROVE  ResponseInv'
<1>s. PICK s2 : s2 = AfterBlank(snd)
  OBVIOUS
<1>v. PICK v : v = Marked("head", CRLF)
  OBVIOUS
<1>1. snd \in Server /\ sent \in Seq(HeadByte) /\ ServerInv(snd, sent)
  BY LiveNow
<1>2. /\ snd.at = "fields" /\ wire' = wire \o v /\ snd' = s2
      /\ rx' = rx /\ body' = body /\ sent' = sent
  BY <1>s, <1>v DEF SendBlank, Sending, Put, AfterBlank
<1>3. <<>> \in Seq(HeadByte) /\ sent' = sent \o <<>>
  BY <1>1, <1>2, NothingAdded
<1>4. s2 \in Server /\ s2.at # "status"
  <2>1. PICK n : n = IF snd.framing = "length" THEN snd.len ELSE 0
    OBVIOUS
  <2>2. PICK u : u = (snd.unfit \/ snd.head + 2 > HeadCap)
    OBVIOUS
  <2>3. PICK a : a = CASE snd.framing = "chunked" -> "size"
                       [] snd.framing = "length" /\ snd.len = 0 -> "next"
                       [] OTHER -> "body"
    OBVIOUS
  <2>4. s2 = [snd EXCEPT !.head = 0, !.fields = 0, !.coded = FALSE, !.left = n,
                         !.unfit = u, !.at = a]
    BY <1>s, <2>1, <2>2, <2>3 DEF AfterBlank
  <2>5. n \in Nat
    <3>1. snd.framing = "length" => snd.len # NoLen
      BY <1>1 DEF ServerInv
    <3> QED BY <1>1, <2>1, <3>1 DEF Server
  <2>6. a \in {"size", "next", "body"} /\ u \in BOOLEAN
    BY <2>2, <2>3
  <2> QED BY <1>1, <2>4, <2>5, <2>6 DEF Server
<1>5. ASSUME NEW t \in State, Good(t, <<>>, snd, sent) /\ AtEnd(t, snd, sent)
      PROVE  GoesOn(t, v, <<>>, snd, s2, sent)
  BY <1>1, <1>2, <1>5, <1>s, <1>v, BlankGoesOn
<1> QED
  BY <1>2, <1>3, <1>4, <1>5, SendKeeps

\* A function on 1..n is a sequence.
LEMMA BytesFrom ==
  ASSUME NEW n \in Nat, NEW S, S \subseteq HeadByte, NEW ds \in [1..n -> S]
  PROVE  ds \in Seq(S) /\ ds \in Seq(HeadByte) /\ Len(ds) = n
<1>1. ds \in Seq(S) /\ Len(ds) = n
  OBVIOUS
<1>2. ds \in Seq(HeadByte)
  <2>1. \A k \in 1..n : ds[k] \in HeadByte
    OBVIOUS
  <2> QED BY <2>1
<1> QED BY <1>1, <1>2

\* A body is made of bytes.
LEMMA ContentIsBytes == Content \subseteq HeadByte
  BY ResponseAssumption DEF HeadByte

\* Sending some of a body that is not chunked.
LEMMA BodyKeeps ==
  ASSUME Live, rx.result = "reading", SendBody
  PROVE  ResponseInv'
<1>1. snd \in Server /\ sent \in Seq(HeadByte) /\ ServerInv(snd, sent) /\ Len(sent) \in Nat
  BY LiveNow, LenProperties
<1>n. PICK n \in 1..(MaxData - Len(sent)) : \E ds \in [1..n -> Content] :
        /\ snd.framing = "length" => n <= snd.left
        /\ sent' = sent \o ds /\ Put("data", ds) /\ snd' = AfterBody(snd, n)
  BY DEF SendBody, AfterBody
<1>2. PICK ds \in [1..n -> Content] :
        /\ snd.framing = "length" => n <= snd.left
        /\ sent' = sent \o ds /\ Put("data", ds) /\ snd' = AfterBody(snd, n)
  BY <1>n
<1>3. snd.at = "body" /\ ~snd.unfit /\ rx' = rx /\ body' = body
  BY DEF SendBody, Sending
<1>s. PICK s2 : s2 = AfterBody(snd, n)
  OBVIOUS
<1>v. PICK v : v = Marked("data", ds)
  OBVIOUS
<1>4. n \in Nat /\ n > 0
  BY <1>1, <1>2, ResponseAssumption
<1>5. ds \in Seq(HeadByte) /\ Len(ds) = n /\ Len(ds) > 0
  BY <1>2, <1>4, BytesFrom, ContentIsBytes
<1>6. s2 \in Server /\ s2.at # "status"
  <2>1. CASE snd.framing = "none"
    BY <1>1, <1>3, <1>s, <2>1 DEF AfterBody
  <2>2. CASE snd.framing # "none"
    <3>1. snd.framing = "length"
      BY <1>1, <1>3, <2>2 DEF ServerInv, Server
    <3>2. PICK l : l = snd.left - n
      OBVIOUS
    <3>3. PICK a : a = IF snd.left = n THEN "next" ELSE snd.at
      OBVIOUS
    <3>4. s2 = [snd EXCEPT !.left = l, !.at = a]
      BY <1>s, <2>2, <3>2, <3>3 DEF AfterBody
    <3>5. l \in Nat
      <4>1. snd.left \in Nat /\ n <= snd.left
        BY <1>1, <1>2, <3>1 DEF Server
      <4> QED BY <1>4, <3>2, <4>1
    <3>6. a \in {"next", "body"}
      BY <1>3, <3>3
    <3> QED BY <1>1, <3>4, <3>5, <3>6 DEF Server
  <2> QED BY <2>1, <2>2
<1>7. ASSUME NEW t \in State, Good(t, <<>>, snd, sent) /\ AtEnd(t, snd, sent)
      PROVE  GoesOn(t, v, ds, snd, s2, sent)
  <2>1. snd.framing = "length" => Len(ds) <= snd.left
    BY <1>2, <1>5
  <2>2. GoesOn(t, Marked("data", ds), ds, snd, AfterBody(snd, Len(ds)), sent)
    BY <1>1, <1>3, <1>5, <1>7, <2>1, BodyGoesOn
  <2> QED BY <1>5, <1>s, <1>v, <2>2
<1>8. wire' = wire \o v /\ snd' = s2 /\ sent' = sent \o ds
  BY <1>2, <1>s, <1>v DEF Put
<1> QED
  BY <1>3, <1>5, <1>6, <1>7, <1>8, SendKeeps

\* Sending the size of a chunk.
LEMMA SizeKeeps ==
  ASSUME Live, rx.result = "reading", SendSize
  PROVE  ResponseInv'
<1>1. snd \in Server /\ sent \in Seq(HeadByte) /\ ServerInv(snd, sent)
  BY LiveNow
<1>2. PICK ds \in Numbers, ext \in Extensions :
        /\ Put("size", ds \o ext \o CRLF)
        /\ snd' = [snd EXCEPT !.at = IF TrueValue(ds) = 0 THEN "trailers" ELSE "data",
                              !.left = TrueValue(ds),
                              !.unfit = TrueValue(ds) >= Width
                                        \/ Len(ds) + Len(ext) + 1 >= LineCap]
  BY DEF SendSize
<1>3. /\ snd.at = "size" /\ ~snd.unfit /\ rx' = rx /\ body' = body /\ sent' = sent
  BY DEF SendSize, Sending
<1>s. PICK s2 : s2 = [snd EXCEPT !.at = IF TrueValue(ds) = 0 THEN "trailers" ELSE "data",
                              !.left = TrueValue(ds),
                              !.unfit = TrueValue(ds) >= Width
                                        \/ Len(ds) + Len(ext) + 1 >= LineCap]
  OBVIOUS
<1>v. PICK v : v = Marked("size", ds \o ext \o CRLF)
  OBVIOUS
<1>4. <<>> \in Seq(HeadByte) /\ sent' = sent \o <<>>
  BY <1>1, <1>3, NothingAdded
<1>5. ds \in Seq(Digit) /\ Len(ds) > 0
  <2>1. PICK n \in 1..MaxDigits : ds \in [1..n -> Digit]
    BY DEF Numbers
  <2>2. n \in Nat /\ n > 0
    BY ResponseAssumption
  <2>3. ds \in Seq(Digit) /\ Len(ds) = n
    BY <2>1, <2>2
  <2> QED BY <2>2, <2>3
<1>6. ext \in Seq(HeadByte) /\ \A k \in 1..Len(ext) : ext[k] = "x"
  <2>1. PICK n \in 0..MaxExt : ext = [m \in 1..n |-> "x"]
    BY DEF Extensions
  <2>2. n \in Nat /\ "x" \in HeadByte
    BY ResponseAssumption, Bytes
  <2> QED BY <2>1, <2>2
<1>7. s2 \in Server /\ s2.at # "status"
  <2>1. PICK x : x = TrueValue(ds)
    OBVIOUS
  <2>2. PICK a : a = IF x = 0 THEN "trailers" ELSE "data"
    OBVIOUS
  <2>3. PICK u : u = (x >= Width \/ Len(ds) + Len(ext) + 1 >= LineCap)
    OBVIOUS
  <2>4. s2 = [snd EXCEPT !.at = a, !.left = x, !.unfit = u]
    BY <1>s, <2>1, <2>2, <2>3
  <2>5. x \in Nat
    BY <1>5, <2>1, SizeOfDigits
  <2>6. a \in {"trailers", "data"} /\ u \in BOOLEAN
    BY <2>2, <2>3
  <2> QED BY <1>1, <2>4, <2>5, <2>6 DEF Server
<1>8. ASSUME NEW t \in State, Good(t, <<>>, snd, sent) /\ AtEnd(t, snd, sent)
      PROVE  GoesOn(t, v, <<>>, snd, s2, sent)
  BY <1>1, <1>3, <1>5, <1>6, <1>8, <1>s, <1>v, SizeGoesOn
<1>9. wire' = wire \o v /\ snd' = s2
  BY <1>2, <1>s, <1>v DEF Put
<1> QED
  BY <1>3, <1>4, <1>7, <1>8, <1>9, SendKeeps

\* Sending the data of a chunk and its end.
LEMMA DataKeeps ==
  ASSUME Live, rx.result = "reading", SendData
  PROVE  ResponseInv'
<1>1. /\ snd \in Server /\ sent \in Seq(HeadByte) /\ ServerInv(snd, sent)
      /\ wire \in Seq(Item)
  BY LiveNow
<1>2. PICK ds \in [1..snd.left -> Content] :
        /\ sent' = sent \o ds
        /\ wire' = wire \o Marked("data", ds) \o Marked("size", CRLF)
  BY DEF SendData
<1>s. PICK s2 : s2 = [snd EXCEPT !.at = "size", !.left = 0]
  OBVIOUS
<1>v. PICK v : v = Marked("data", ds) \o Marked("size", CRLF)
  OBVIOUS
<1>3. snd.at = "data" /\ ~snd.unfit /\ rx' = rx /\ body' = body /\ snd' = s2
  BY <1>s DEF SendData, Sending
<1>4. snd.left \in Nat
  BY <1>1 DEF Server
<1>5. ds \in Seq(HeadByte) /\ Len(ds) = snd.left
  BY <1>2, <1>4, BytesFrom, ContentIsBytes
<1>6. s2 \in Server /\ s2.at # "status"
  BY <1>1, <1>s DEF Server
<1>7. ASSUME NEW t \in State, Good(t, <<>>, snd, sent) /\ AtEnd(t, snd, sent)
      PROVE  GoesOn(t, v, ds, snd, s2, sent)
  BY <1>1, <1>3, <1>5, <1>7, <1>s, <1>v, DataGoesOn
<1>8. wire' = wire \o v
  <2>1. PICK a : a = Marked("data", ds)
    OBVIOUS
  <2>2. PICK b : b = Marked("size", CRLF)
    OBVIOUS
  <2>3. a \in Seq(Item) /\ b \in Seq(Item)
    BY <1>5, <2>1, <2>2, MarkedFacts, CRLFFacts DEF Part
  <2>4. (wire \o a) \o b = wire \o (a \o b)
    BY <1>1, <2>3, ConcatAssociative
  <2> QED BY <1>2, <1>v, <2>1, <2>2, <2>4
<1> QED
  BY <1>2, <1>3, <1>5, <1>6, <1>7, <1>8, SendKeeps

\* Sending a trailer.
LEMMA TrailerKeeps ==
  ASSUME Live, rx.result = "reading", SendTrailer
  PROVE  ResponseInv'
<1>1. snd \in Server /\ sent \in Seq(HeadByte) /\ ServerInv(snd, sent)
  BY LiveNow
<1>2. PICK n \in 1..2 : Put("trailers", TrailerLine(n))
  BY DEF SendTrailer, TrailerLine
<1>s. PICK s2 : s2 = [snd EXCEPT !.trailers = @ + 1]
  OBVIOUS
<1>v. PICK v : v = Marked("trailers", TrailerLine(n))
  OBVIOUS
<1>3. /\ snd.at = "trailers" /\ rx' = rx /\ body' = body /\ snd' = s2
      /\ sent' = sent /\ wire' = wire \o v
  BY <1>2, <1>s, <1>v DEF SendTrailer, Sending, Put
<1>4. <<>> \in Seq(HeadByte) /\ sent' = sent \o <<>>
  BY <1>1, <1>3, NothingAdded
<1>5. s2 \in Server /\ s2.at # "status"
  <2>1. PICK m : m = snd.trailers + 1
    OBVIOUS
  <2>2. s2 = [snd EXCEPT !.trailers = m]
    BY <1>s, <2>1
  <2>3. m \in Nat
    BY <1>1, <2>1 DEF Server
  <2> QED BY <1>1, <1>3, <2>2, <2>3 DEF Server
<1>6. n \in Nat \ {0}
  OBVIOUS
<1>7. ASSUME NEW t \in State, Good(t, <<>>, snd, sent) /\ AtEnd(t, snd, sent)
      PROVE  GoesOn(t, v, <<>>, snd, s2, sent)
  BY <1>1, <1>3, <1>6, <1>7, <1>s, <1>v, TrailerGoesOn
<1> QED
  BY <1>3, <1>4, <1>5, <1>7, SendKeeps

\* Sending the end of the trailers.
LEMMA EndKeeps ==
  ASSUME Live, rx.result = "reading", SendEnd
  PROVE  ResponseInv'
<1>1. snd \in Server /\ sent \in Seq(HeadByte) /\ ServerInv(snd, sent)
  BY LiveNow
<1>s. PICK s2 : s2 = [snd EXCEPT !.at = "next"]
  OBVIOUS
<1>v. PICK v : v = Marked("trailers", CRLF)
  OBVIOUS
<1>3. /\ snd.at = "trailers" /\ rx' = rx /\ body' = body /\ snd' = s2
      /\ sent' = sent /\ wire' = wire \o v
  BY <1>s, <1>v DEF SendEnd, Sending, Put
<1>4. <<>> \in Seq(HeadByte) /\ sent' = sent \o <<>>
  BY <1>1, <1>3, NothingAdded
<1>5. s2 \in Server /\ s2.at # "status"
  BY <1>1, <1>s DEF Server
<1>7. ASSUME NEW t \in State, Good(t, <<>>, snd, sent) /\ AtEnd(t, snd, sent)
      PROVE  GoesOn(t, v, <<>>, snd, s2, sent)
  BY <1>1, <1>3, <1>7, <1>s, <1>v, EndGoesOn
<1> QED
  BY <1>3, <1>4, <1>5, <1>7, SendKeeps

\* Sending the first byte of the next response.
LEMMA NextKeeps ==
  ASSUME Live, rx.result = "reading", SendNext
  PROVE  ResponseInv'
<1>1. snd \in Server /\ sent \in Seq(HeadByte) /\ ServerInv(snd, sent)
  BY LiveNow
<1>2. PICK b \in Content : Put("next", <<b>>)
  BY DEF SendNext
<1>s. PICK s2 : s2 = [snd EXCEPT !.at = "end"]
  OBVIOUS
<1>v. PICK v : v = Marked("next", <<b>>)
  OBVIOUS
<1>3. /\ snd.at = "next" /\ rx' = rx /\ body' = body /\ snd' = s2
      /\ sent' = sent /\ wire' = wire \o v
  BY <1>2, <1>s, <1>v DEF SendNext, Sending, Put
<1>4. <<>> \in Seq(HeadByte) /\ sent' = sent \o <<>>
  BY <1>1, <1>3, NothingAdded
<1>5. s2 \in Server /\ s2.at # "status"
  BY <1>1, <1>s DEF Server
<1>6. b \in HeadByte
  BY ContentIsBytes
<1>7. ASSUME NEW t \in State, Good(t, <<>>, snd, sent) /\ AtEnd(t, snd, sent)
      PROVE  GoesOn(t, v, <<>>, snd, s2, sent)
  BY <1>1, <1>3, <1>6, <1>7, <1>s, <1>v, NextGoesOn
<1> QED
  BY <1>3, <1>4, <1>5, <1>7, SendKeeps

-----------------------------------------------------------------------------
(***************************************************************************)
(* Receiving.                                                              *)
(***************************************************************************)
\* After u bytes of a path what is left of it is a path.
LEMMA PathLeft ==
  ASSUME NEW t \in State, NEW w \in Seq(Item), NEW f, NEW s, NEW z, GoodPath(f, t, w, s, z),
         NEW u \in 0..Len(w)
  PROVE  \E g : GoodPath(g, f[u], After(w, u), s, z)
<1>x. PICK x : x = After(w, u)
  OBVIOUS
<1>1. /\ x \in Seq(Item) /\ Len(x) = Len(w) - u /\ Len(w) \in Nat /\ Len(x) \in Nat /\ u \in Nat
      /\ \A i \in 1..Len(x) : x[i] = w[u + i]
  <2>1. /\ After(w, u) \in Seq(Item) /\ Len(After(w, u)) = Len(w) - u
        /\ Len(w) \in Nat /\ Len(w) - u \in Nat
        /\ \A i \in 1..(Len(w) - u) : After(w, u)[i] = w[u + i]
    BY AfterFacts
  <2> QED BY <1>x, <2>1
<1> DEFINE g == [n \in 0..Len(x) |-> f[u + n]]
<1>2. g[0] = f[u]
  BY <1>1
<1>3. ASSUME NEW n \in 1..Len(x) PROVE g[n] = Take(g[n - 1], x[n].b)
  <2>1. /\ n \in 0..Len(x) /\ n - 1 \in 0..Len(x) /\ u + n \in 1..Len(w)
        /\ (u + n) - 1 = u + (n - 1)
    BY <1>1
  <2>2. g[n] = f[u + n] /\ g[n - 1] = f[u + (n - 1)]
    BY <2>1
  <2>3. f[u + n] = Take(f[(u + n) - 1], w[u + n].b)
    BY <2>1 DEF GoodPath, Path
  <2>4. x[n] = w[u + n]
    BY <1>1
  <2> HIDE DEF g
  <2> QED BY <2>1, <2>2, <2>3, <2>4
<1>4. ASSUME NEW n \in 0..Len(x) PROVE Good(g[n], After(x, n), s, z)
  <2>1. u + n \in 0..Len(w) /\ n \in 0..(Len(w) - u)
    BY <1>1
  <2>2. Good(f[u + n], After(w, u + n), s, z)
    BY <2>1 DEF GoodPath
  <2>3. After(x, n) = After(w, u + n)
    BY <1>x, <2>1, AfterAfter
  <2>4. g[n] = f[u + n]
    OBVIOUS
  <2> HIDE DEF g
  <2> QED BY <2>2, <2>3, <2>4
<1>5. AtEnd(g[Len(x)], s, z)
  <2>1. Len(x) \in 0..Len(x) /\ u + Len(x) = Len(w)
    BY <1>1
  <2>2. g[Len(x)] = f[Len(w)]
    BY <2>1
  <2> HIDE DEF g
  <2> QED BY <2>2 DEF GoodPath
<1> HIDE DEF g
<1>6. Path(g, f[u], x)
  BY <1>2, <1>3 DEF Path
<1>7. GoodPath(g, f[u], x, s, z)
  BY <1>4, <1>5, <1>6 DEF GoodPath
<1> QED BY <1>7, <1>x

\* The end of the head of an unframed response is no data.
LEMMA NothingOfTheBody ==
  ASSUME NEW t \in State, NEW w \in Seq(Item), NEW f, NEW s, NEW z,
         GoodPath(f, t, w, s, z), ServerInv(s, z), NEW u \in 1..Len(w),
         ~Stopped(f[u - 1]), t.rx.kind = "keep", s.framing = "none"
  PROVE  Got(After(w, u), z) = 0
<1>1. Len(w) \in Nat /\ u - 1 \in 0..Len(w) /\ (u - 1) + 1 = u /\ w[u] \in Item
  BY LenProperties, ElementOfSeq
<1>p. PICK p : p = f[u - 1]
  OBVIOUS
<1>x. PICK x : x = After(w, u - 1)
  OBVIOUS
<1>2. p \in State /\ p.rx.kind = "keep"
  BY <1>1, <1>p, PathTyped DEF GoodPath
<1>3. Good(p, x, s, z)
  BY <1>1, <1>p, <1>x DEF GoodPath
<1>4. p.rx.result # "bad" /\ ~Complete(p.rx)
  BY <1>2, <1>p DEF Stopped
<1>5. ~p.rx.ended
  BY <1>2, <1>3, <1>4, UnframedIsComplete
<1>6. Got(x, z) = 0 /\ (IF x = <<>> THEN InHead(s) ELSE x[1].part = "head")
  BY <1>3, <1>4, <1>5 DEF Good
<1>7. x # <<>> /\ x[1] = w[u]
  <2>1. /\ Len(After(w, u - 1)) = Len(w) - (u - 1)
        /\ \A i \in 1..(Len(w) - (u - 1)) : After(w, u - 1)[i] = w[(u - 1) + i]
    BY <1>1, AfterFacts
  <2>2. 1 \in 1..(Len(w) - (u - 1)) /\ Len(w) - (u - 1) # 0
    BY <1>1
  <2>3. Len(x) # 0 /\ x[1] = w[(u - 1) + 1]
    BY <1>x, <2>1, <2>2
  <2> QED BY <1>1, <2>3, EmptyFacts
<1>8. w[u].part # "data"
  BY <1>6, <1>7
<1>9. Count(After(w, u - 1), "data") = Count(After(w, u), "data")
  BY <1>8, CountSkip
<1> QED
  BY <1>6, <1>9, <1>x DEF Got

\* The receiver stops: it has what it came for.
LEMMA StopIsRight ==
  ASSUME NEW q \in State, NEW w \in Seq(Item), NEW s \in Server, NEW z \in Seq(HeadByte),
         Good(q, w, s, z), ServerInv(s, z), q.rx.result # "bad",
         (q.rx.kind = "keep" /\ s.framing = "none" /\ q.rx.ended) => Got(w, z) = 0
  PROVE  /\ (Complete(q.rx) /\ q.rx.kind = "keep" /\ (q.rx.chunked \/ q.rx.len # NoLen)) =>
              Ended(s) /\ OnlyNext(w)
         /\ Enough(q) => Len(q.body) = q.rx.cap \/ Ended(s)
<1>b. PICK b : b = q.body
  OBVIOUS
<1>n. PICK n : n = Got(w, z)
  OBVIOUS
<1>1. Len(b) = Least(n, q.rx.cap) /\ n \in 0..Len(z)
  BY <1>b, <1>n, HasStored
<1>2. q.rx.cap \in Nat /\ Len(z) \in Nat /\ n \in Nat
  BY <1>1, LenProperties DEF State, Receiver
<1>3. Len(b) <= q.rx.cap /\ Len(b) <= n /\ Len(b) \in Nat
  BY <1>1, <1>2 DEF Least
<1>4. ASSUME q.rx.ended
      PROVE  (q.rx.chunked <=> s.framing = "chunked") /\ q.rx.len = s.len /\ ~InHead(s)
  BY <1>4 DEF Good
<1>5. ASSUME Complete(q.rx), q.rx.kind = "keep", q.rx.chunked \/ q.rx.len # NoLen
      PROVE  Ended(s) /\ OnlyNext(w)
  <2>1. q.rx.ended
    BY <1>5 DEF Complete
  <2>2. s.framing # "none"
    BY <1>4, <1>5, <2>1 DEF ServerInv
  <2> QED BY <1>5, <2>2, EndsThere
<1>6. ASSUME Enough(q) PROVE Len(b) = q.rx.cap \/ Ended(s)
  <2>1. q.rx.ended
    BY <1>6 DEF Enough
  <2>2. CASE q.rx.cap = 0
    BY <1>2, <1>3, <2>2
  <2>3. CASE q.rx.chunked /\ q.rx.dec.done
    BY <2>3 DEF Good
  <2>4. CASE q.rx.chunked /\ Len(b) >= q.rx.cap
    BY <1>2, <1>3, <2>4
  <2>5. CASE ~q.rx.chunked /\ Len(b) >= Want(q.rx)
    <3>1. CASE q.rx.len # NoLen /\ q.rx.len < q.rx.cap
      <4>1. Want(q.rx) = s.len /\ s.len # NoLen
        BY <1>4, <2>1, <3>1 DEF Want
      <4>2. s.framing = "length"
        <5>1. s.framing # "chunked" /\ s.framing # "none"
          BY <1>4, <2>1, <2>5, <4>1 DEF ServerInv
        <5> QED BY <5>1 DEF Server
      <4>3. Len(z) + s.left = s.len /\ (s.left = 0 <=> Ended(s))
        BY <1>4, <2>1, <4>2 DEF ServerInv
      <4>4. s.left \in Nat /\ s.len \in Nat
        BY <4>1 DEF Server
      <4>5. s.left = 0
        BY <1>1, <1>2, <1>3, <2>5, <4>1, <4>3, <4>4
      <4> QED BY <4>3, <4>5
    <3>2. CASE ~(q.rx.len # NoLen /\ q.rx.len < q.rx.cap)
      <4>1. Want(q.rx) = q.rx.cap
        BY <3>2 DEF Want
      <4> QED BY <1>2, <1>3, <2>5, <4>1
    <3> QED BY <3>1, <3>2
  <2> QED BY <1>6, <1>b, <2>2, <2>3, <2>4, <2>5 DEF Enough
<1> QED
  BY <1>5, <1>6, <1>b

\* A record: the receiver goes on, has what it came for, or gives up.
LEMMA ReceiveKeeps ==
  ASSUME Live, rx.result = "reading", Receive
  PROVE  ResponseInv'
<1>1. /\ Here \in State /\ Here.rx = rx /\ Here.body = body
      /\ snd \in Server /\ sent \in Seq(HeadByte) /\ wire \in Seq(Item)
      /\ ServerInv(snd, sent)
  BY LiveNow
<1>2. PICK f : GoodPath(f, Here, wire, snd, sent)
  BY DEF Live, Here
<1>3. PICK n \in 1..Len(wire) :
        LET s == Feed([m \in 1..n |-> wire[m].b])
            done == IF rx.kind = "keep" THEN Complete(s.rx) ELSE Enough(s)
        IN  /\ rx' = IF done /\ s.rx.result # "bad" THEN [s.rx EXCEPT !.result = "done"]
                     ELSE s.rx
            /\ body' = s.body
            /\ wire' = SubSeq(wire, s.used + 1, Len(wire))
  BY DEF Receive
<1>4. Len(wire) \in Nat /\ n \in 0..Len(wire) /\ Path(f, Here, wire)
  BY <1>1, <1>2, LenProperties DEF GoodPath
<1>s. PICK s : s = Feed([m \in 1..n |-> wire[m].b])
  OBVIOUS
<1>5. PICK u \in 0..n : Fed(s, f, n, u)
  <2>1. s = FoldLeft(TakeByte, [rx |-> Here.rx, body |-> Here.body, used |-> 0],
                     [m \in 1..n |-> wire[m].b])
    BY <1>1, <1>s DEF Feed
  <2>2. \E u \in 0..n :
            Fed(FoldLeft(TakeByte, [rx |-> Here.rx, body |-> Here.body, used |-> 0],
                         [m \in 1..n |-> wire[m].b]), f, n, u)
    BY <1>1, <1>4, FeedIs
  <2> QED BY <2>1, <2>2
<1>q. PICK q : q = f[u]
  OBVIOUS
<1>w. PICK w : w = After(wire, u)
  OBVIOUS
<1>d. PICK done : done = IF rx.kind = "keep" THEN Complete(q.rx) ELSE Enough(q)
  OBVIOUS
<1>6. u \in 0..Len(wire) /\ u \in Nat
  BY <1>4, <1>5
<1>7. /\ s.rx = q.rx /\ s.body = q.body /\ s.used = u
      /\ u > 0 => ~Stopped(f[u - 1])
  BY <1>5, <1>q DEF Fed
<1>8. Enough(s) <=> Enough(q)
  BY <1>7 DEF Enough
<1>9. /\ rx' = IF done /\ q.rx.result # "bad" THEN [q.rx EXCEPT !.result = "done"] ELSE q.rx
      /\ body' = q.body /\ wire' = w /\ snd' = snd /\ sent' = sent /\ line' = line
  <2>1. (IF rx.kind = "keep" THEN Complete(s.rx) ELSE Enough(s)) <=> done
    BY <1>7, <1>8, <1>d
  <2>2. wire' = After(wire, u)
    BY <1>3, <1>s, <1>7 DEF After
  <2>3. snd' = snd /\ sent' = sent /\ line' = line
    BY DEF Receive
  <2> QED BY <1>3, <1>s, <1>7, <1>w, <2>1, <2>2, <2>3
<1>10. q \in State /\ q.rx.kind = rx.kind /\ q.rx.cap = rx.cap
  BY <1>1, <1>4, <1>6, <1>q, PathTyped
<1>11. Good(q, w, snd, sent) /\ w \in Seq(Item)
  BY <1>1, <1>2, <1>6, <1>q, <1>w, AfterFacts DEF GoodPath
<1>12. (q.rx.kind = "keep" /\ snd.framing = "none" /\ q.rx.ended) => Got(w, sent) = 0
  <2> SUFFICES ASSUME q.rx.kind = "keep", snd.framing = "none", q.rx.ended
               PROVE  Got(w, sent) = 0
    OBVIOUS
  <2>1. u # 0
    <3> SUFFICES ASSUME u = 0 PROVE FALSE
      OBVIOUS
    <3>1. q = Here
      BY <1>4, <1>q DEF Path
    <3>2. Complete(q.rx)
      <4>1. q.rx.result # "bad"
        BY <1>1, <3>1
      <4> QED BY <1>1, <1>10, <1>11, <4>1, UnframedIsComplete
    <3> QED BY <1>1, <1>10, <3>1, <3>2 DEF Live
  <2>2. u \in 1..Len(wire) /\ ~Stopped(f[u - 1])
    BY <1>4, <1>6, <1>7, <2>1
  <2>3. Here.rx.kind = "keep"
    BY <1>1, <1>10
  <2> QED BY <1>1, <1>2, <1>w, <2>2, <2>3, NothingOfTheBody
<1>k. rx.kind \in {"keep", "once"}
  BY <1>1 DEF State, Receiver
<1>13. CASE q.rx.result = "bad"
  <2>1. rx' = q.rx /\ rx'.result = "bad"
    BY <1>9, <1>13
  <2>2. snd.unfit
    BY <1>11, <1>13 DEF Good
  <2>3. StoresTheBody'
    BY <2>1 DEF StoresTheBody
  <2>4. EndsWithMessage'
    BY <2>1 DEF EndsWithMessage, Reusable
  <2>5. RejectsTheUnfit'
    BY <1>9, <2>1, <2>2 DEF RejectsTheUnfit
  <2> QED BY <2>1, <2>3, <2>4, <2>5 DEF ResponseInv
<1>14. CASE q.rx.result # "bad" /\ done
  <2>1. rx' = [q.rx EXCEPT !.result = "done"]
    BY <1>9, <1>14
  <2>2. /\ rx'.result = "done" /\ rx'.kind = q.rx.kind /\ rx'.cap = q.rx.cap
        /\ rx'.ended = q.rx.ended /\ rx'.chunked = q.rx.chunked /\ rx'.len = q.rx.len
        /\ rx'.dec = q.rx.dec /\ rx'.total = q.rx.total
    BY <1>10, <2>1 DEF State, Receiver
  <2>3. Complete(rx') <=> Complete(q.rx)
    BY <2>2 DEF Complete
  <2>4. StoresTheBody'
    <3>1. q.body = SubSeq(sent, 1, Least(Got(w, sent), q.rx.cap))
      BY <1>1, <1>10, <1>11, <1>12, <1>14, HasStored
    <3> QED BY <1>9, <2>2, <3>1 DEF StoresTheBody, Least, Got
  <2>5. /\ (Complete(q.rx) /\ q.rx.kind = "keep" /\ (q.rx.chunked \/ q.rx.len # NoLen)) =>
              Ended(snd) /\ OnlyNext(w)
        /\ Enough(q) => Len(q.body) = q.rx.cap \/ Ended(snd)
    BY <1>1, <1>10, <1>11, <1>12, <1>14, StopIsRight
  <2>6. EndsWithMessage'
    <3>1. ASSUME rx'.kind = "keep", snd.framing # "none"
          PROVE  Complete(rx') <=> Ended(snd) /\ OnlyNext(w)
      <4>1. q.rx.kind = "keep"
        BY <2>2, <3>1
      <4>2. Complete(q.rx) <=> Ended(snd) /\ OnlyNext(w)
        BY <1>10, <1>11, <1>14, <3>1, <4>1, EndsThere
      <4> QED BY <2>3, <4>2
    <3>2. ASSUME Reusable(rx') PROVE Ended(snd) /\ OnlyNext(w)
      <4>1. q.rx.kind = "keep" /\ (q.rx.chunked \/ q.rx.len # NoLen)
        BY <2>2, <3>2 DEF Reusable
      <4>2. Complete(q.rx)
        BY <1>10, <1>14, <1>d, <4>1
      <4> QED BY <2>5, <4>1, <4>2
    <3>3. ASSUME rx'.kind = "once" PROVE Len(q.body) = q.rx.cap \/ Ended(snd)
      <4>1. Enough(q)
        BY <1>10, <1>14, <1>d, <2>2, <3>3
      <4> QED BY <2>5, <4>1
    <3>4. (Ended(snd) <=> MessageSent) /\ MessageSent' = MessageSent
      BY <1>9 DEF Ended, MessageSent
    <3> QED
      BY <1>9, <2>2, <3>1, <3>2, <3>3, <3>4 DEF EndsWithMessage
  <2>7. RejectsTheUnfit'
    <3>1. ASSUME snd.unfit, w = <<>> PROVE rx'.kind = "once"
      <4>1. u = Len(wire)
        <5>1. Len(w) = Len(wire) - u
          BY <1>1, <1>6, <1>w, AfterFacts
        <5> QED BY <1>4, <1>6, <3>1, <5>1, EmptyFacts
      <4>2. AtEnd(q, snd, sent)
        BY <1>2, <1>q, <4>1 DEF GoodPath
      <4>3. Idle(q)
        BY <3>1, <4>2 DEF AtEnd
      <4> QED BY <1>14, <2>2, <4>3 DEF Idle
    <3> QED BY <1>9, <2>2, <3>1 DEF RejectsTheUnfit
  <2> QED BY <2>2, <2>4, <2>6, <2>7 DEF ResponseInv
<1>15. CASE q.rx.result # "bad" /\ ~done
  <2>1. rx' = q.rx /\ rx'.result = "reading"
    BY <1>9, <1>11, <1>15 DEF Good
  <2>2. Here' = q
    BY <1>9, <1>10, <2>1 DEF Here, State
  <2>3. Typed'
    <3>1. [rx |-> rx', body |-> body'] \in State
      BY <1>10, <2>2 DEF Here
    <3> QED BY <1>1, <1>9, <1>11, <3>1 DEF Typed
  <2>4. snd.at # "status"
    <3>1. wire # <<>>
      BY <1>3, <1>4, EmptyFacts
    <3> QED BY <3>1 DEF Live
  <2>5. rx'.kind = "keep" => ~Complete(rx')
    BY <1>10, <1>15, <1>d, <2>1
  <2>6. rx'.kind = "once" => ~Enough([rx |-> rx', body |-> body'])
    BY <1>10, <1>15, <1>d, <2>1, <2>2 DEF Here
  <2>7. \E g : GoodPath(g, [rx |-> rx', body |-> body'], wire', snd', sent')
    <3>1. \E g : GoodPath(g, f[u], After(wire, u), snd, sent)
      BY <1>1, <1>2, <1>6, PathLeft
    <3>2. [rx |-> rx', body |-> body'] = f[u]
      BY <1>q, <2>2 DEF Here
    <3> QED BY <1>9, <1>w, <3>1, <3>2
  <2>8. ServerInv(snd', sent')
    BY <1>1, <1>9
  <2>9. Live'
    BY <1>9, <2>3, <2>4, <2>5, <2>6, <2>7, <2>8 DEF Live
  <2> QED BY <2>1, <2>9 DEF ResponseInv
<1> QED
  BY <1>13, <1>14, <1>15

\* The end of the connection.
LEMMA ReceiveEndKeeps ==
  ASSUME Live, rx.result = "reading", ReceiveEnd
  PROVE  ResponseInv'
<1>1. /\ Here \in State /\ Here.rx = rx /\ Here.body = body
      /\ snd \in Server /\ sent \in Seq(HeadByte) /\ wire \in Seq(Item)
      /\ ServerInv(snd, sent) /\ Good(Here, wire, snd, sent)
  BY LiveNow
<1>2. /\ wire = <<>> /\ line # "up" /\ body' = body /\ snd' = snd /\ sent' = sent
      /\ wire' = wire /\ line' = line
  BY DEF ReceiveEnd
<1>3. ~snd.unfit
  BY <1>2, StillFits
<1>4. StoresTheBody /\ EndsWithMessage
  BY ReadingIsRight
<1>b. PICK b : b = IF Breaks(line) THEN "bad" ELSE "done"
  OBVIOUS
<1>c. PICK c : c = (rx.kind = "keep")
  OBVIOUS
<1>5. rx' = [rx EXCEPT !.result = b, !.close = c]
  BY <1>b, <1>c DEF ReceiveEnd
<1>6. /\ rx'.result = b /\ rx'.close = c /\ rx'.kind = rx.kind /\ rx'.cap = rx.cap
      /\ rx'.ended = rx.ended /\ rx'.chunked = rx.chunked /\ rx'.len = rx.len
      /\ rx'.dec = rx.dec /\ rx'.total = rx.total
  BY <1>1, <1>5 DEF State, Receiver
<1>7. Complete(rx') <=> Complete(rx)
  BY <1>6 DEF Complete
<1>8. StoresTheBody'
  BY <1>2, <1>4, <1>6 DEF StoresTheBody
<1>9. EndsWithMessage'
  <2>1. ~Reusable(rx')
    BY <1>6, <1>c DEF Reusable
  <2>2. ASSUME rx'.kind = "keep", snd.framing # "none"
        PROVE  Complete(rx') <=> MessageSent /\ OnlyNext(wire)
    BY <1>4, <1>6, <1>7, <2>2 DEF EndsWithMessage
  <2>3. MessageSent' = MessageSent
    BY <1>2 DEF MessageSent
  <2> QED BY <1>2, <2>1, <2>2, <2>3 DEF EndsWithMessage
<1>10. RejectsTheUnfit'
  <2>1. rx'.result = "bad" => line' # "up" /\ Breaks(line)'
    BY <1>2, <1>6, <1>b DEF Breaks
  <2> QED BY <1>2, <1>3, <2>1 DEF RejectsTheUnfit
<1>11. rx'.result # "reading"
  BY <1>6, <1>b
<1> QED
  BY <1>8, <1>9, <1>10, <1>11 DEF ResponseInv

-----------------------------------------------------------------------------
(***************************************************************************)
(* The theorems.                                                           *)
(***************************************************************************)
\* Every step preserves the invariant.
LEMMA StepKeeps ==
  ASSUME ~LongLengths, ResponseInv, [Next]_vars
  PROVE  ResponseInv'
<1>1. CASE UNCHANGED vars
  <2>1. Live' <=> Live
    BY <1>1 DEF vars, Live, Typed
  <2>2. /\ StoresTheBody' <=> StoresTheBody
        /\ EndsWithMessage' <=> EndsWithMessage
        /\ RejectsTheUnfit' <=> RejectsTheUnfit
    BY <1>1 DEF vars, StoresTheBody, EndsWithMessage, RejectsTheUnfit, MessageSent, Breaks
  <2> QED BY <1>1, <2>1, <2>2 DEF vars, ResponseInv
<1>2. CASE Next
  <2>1. rx.result = "reading"
    BY <1>2 DEF Next, Receive, ReceiveEnd, SendStatus, SendField, SendBlank, SendBody,
                SendSize, SendData, SendTrailer, SendEnd, SendNext, Close, Sending
  <2>2. Live
    BY <2>1 DEF ResponseInv
  <2>3. CASE Receive
    BY <2>1, <2>2, <2>3, ReceiveKeeps
  <2>4. CASE ReceiveEnd
    BY <2>1, <2>2, <2>4, ReceiveEndKeeps
  <2>5. CASE SendStatus
    BY <2>1, <2>2, <2>5, StatusKeeps
  <2>6. CASE SendField
    BY <2>1, <2>2, <2>6, FieldKeeps
  <2>7. CASE SendBlank
    BY <2>1, <2>2, <2>7, BlankKeeps
  <2>8. CASE SendBody
    BY <2>1, <2>2, <2>8, BodyKeeps
  <2>9. CASE SendSize
    BY <2>1, <2>2, <2>9, SizeKeeps
  <2>10. CASE SendData
    BY <2>1, <2>2, <2>10, DataKeeps
  <2>11. CASE SendTrailer
    BY <2>1, <2>2, <2>11, TrailerKeeps
  <2>12. CASE SendEnd
    BY <2>1, <2>2, <2>12, EndKeeps
  <2>13. CASE SendNext
    BY <2>1, <2>2, <2>13, NextKeeps
  <2>14. CASE Close
    <3>1. rx' = rx /\ body' = body /\ snd' = snd /\ sent' = sent /\ wire' = wire
      BY <2>14 DEF Close
    <3>2. Live' <=> Live
      BY <3>1 DEF Live, Typed
    <3> QED BY <2>1, <2>2, <3>1, <3>2 DEF ResponseInv
  <2> QED
    BY <1>2, <2>3, <2>4, <2>5, <2>6, <2>7, <2>8, <2>9, <2>10, <2>11, <2>12, <2>13, <2>14
       DEF Next
<1> QED
  BY <1>1, <1>2

\* The invariant holds.
LEMMA ResponseInvariant ==
  ASSUME ~LongLengths
  PROVE  Spec => []ResponseInv
<1>1. Init => ResponseInv
  BY InitIsGood
<1>2. ResponseInv /\ [Next]_vars => ResponseInv'
  BY StepKeeps
<1> QED
  BY <1>1, <1>2, PTL DEF Spec

\* However the stream is cut into records, wherever the head, the sizes, the
\* extensions and the trailers end, the body the receiver stores is the body the
\* server sent, up to the room there is (http_chunked_feed and http_resp_feed).
THEOREM TheBodyIsStored ==
  ASSUME ~LongLengths
  PROVE  Spec => []StoresTheBody
<1>1. ResponseInv => StoresTheBody
  BY InvariantGives
<1> QED
  BY <1>1, ResponseInvariant, PTL

\* A kept connection takes a framed response for complete exactly when it has used
\* its last byte, and is used again only then; the one-shot request does not stop
\* before its buffer is full or the message at its end (http_resp_complete).
THEOREM ResponsesEndWithTheirMessage ==
  ASSUME ~LongLengths
  PROVE  Spec => []EndsWithMessage
<1>1. ResponseInv => EndsWithMessage
  BY InvariantGives
<1> QED
  BY <1>1, ResponseInvariant, PTL

\* A response is rejected for a head, a line or a size there is no room for, or with
\* its connection, and for nothing else; and a size that does not fit is never taken
\* for another one (http_parse_u64_hex, http_chunked_feed).
THEOREM OnlyTheUnfitIsRejected ==
  ASSUME ~LongLengths
  PROVE  Spec => []RejectsTheUnfit
<1>1. ResponseInv => RejectsTheUnfit
  BY InvariantGives
<1> QED
  BY <1>1, ResponseInvariant, PTL
==============================================================================
