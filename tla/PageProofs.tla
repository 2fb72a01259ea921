----------------------------- MODULE PageProofs -----------------------------
(***************************************************************************)
(* How a page is shown and how it is come by.                              *)
(*                                                                         *)
(* PageView, for any documents, windows and heights of images: the layout  *)
(* loses no character, a scrolled window shows the rows of the page from   *)
(* there on, and a click opens the link drawn under it.                    *)
(*                                                                         *)
(* Navigation, for any hosts, URLs, redirects and answers: no socket is    *)
(* lost, no address is taken for another host's, a navigation is what      *)
(* PageLoad says it is, and what stands in the URL bar, taken apart again, *)
(* is the place of the page.                                               *)
(***************************************************************************)
EXTENDS Navigation, PageView, SequenceTheorems, TLAPS

Adding == INSTANCE Iteration WITH op <- AddPiece

-----------------------------------------------------------------------------
(***************************************************************************)
(* The line breaker, for any text.                                         *)
(***************************************************************************)
\* The strings a text is made of.  The provers do not know that a literal is in STRING,
\* so those of the model are named.
Character == STRING \cup {"RS", "LF", "u", "1", "2", "3", "4", "5", "6", "7", "8", "9"}
Texts == Seq(Character)

\* A set of positions has a last one.
LEMMA GreatestElement ==
  ASSUME NEW a \in Int, NEW b \in Int, NEW S, S \subseteq a..b, S # {}
  PROVE  \E x \in S : \A y \in S : y <= x
<1> DEFINE D == {d \in Nat : b - d \in S}
<1>1. PICK y \in S : TRUE
  OBVIOUS
<1>2. b - y \in D
  BY <1>1
<1>3. PICK d \in D : \A e \in D : d <= e
  BY <1>2, Adding!LeastElement
<1>4. ASSUME NEW z \in S PROVE z <= b - d
  <2>1. z \in Int /\ b - z \in Nat /\ b - (b - z) = z
    <3>1. z \in a..b
      OBVIOUS
    <3> QED BY <3>1
  <2>2. b - z \in D /\ d \in Nat
    BY <1>3, <2>1
  <2>3. d <= b - z
    BY <1>3, <2>2
  <2> QED BY <2>1, <2>2, <2>3
<1>5. b - d \in S
  BY <1>3
<1> QED BY <1>4, <1>5

\* A run of characters ends somewhere.
LEMMA AfterFacts ==
  ASSUME NEW text \in Texts, NEW p \in 1..(Len(text) + 1), NEW cs, "NUL" \notin cs
  PROVE  LET q == After(text, p, cs)
         IN  /\ q \in p..(Len(text) + 1)
             /\ CharAt(text, q) \notin cs
             /\ \A k \in p..(q - 1) : text[k] \in cs
<1> DEFINE S == {q \in p..(Len(text) + 1) : CharAt(text, q) \notin cs}
<1>1. Len(text) \in Nat /\ p \in Nat
  BY DEF Texts
<1>2. S \subseteq Nat /\ Len(text) + 1 \in S
  BY <1>1 DEF CharAt
<1>3. PICK q \in S : \A m \in S : q <= m
  BY <1>2, Adding!LeastElement
<1>4. ASSUME NEW k \in p..(q - 1), text[k] \notin cs PROVE FALSE
  <2>1. k \in Nat /\ q \in Nat /\ k < q /\ k <= Len(text) /\ k \in p..(Len(text) + 1)
    BY <1>1, <1>3
  <2>2. k \in S
    BY <1>4, <2>1 DEF CharAt
  <2> QED BY <1>3, <2>1, <2>2
<1>5. \E n \in p..(Len(text) + 1) : /\ CharAt(text, n) \notin cs
                                    /\ \A k \in p..(n - 1) : text[k] \in cs
  BY <1>3, <1>4
<1> QED BY <1>5 DEF After

\* A line ends at its newline or at the end of the text.
LEMMA HardEndFacts ==
  ASSUME NEW text \in Texts, NEW p \in 1..(Len(text) + 1)
  PROVE  LET q == HardEnd(text, p)
         IN  /\ q \in p..(Len(text) + 1)
             /\ CharAt(text, q) \in {"LF", "NUL"}
             /\ \A k \in p..(q - 1) : text[k] # "LF"
<1> DEFINE S == {q \in p..(Len(text) + 1) : CharAt(text, q) \in {"LF", "NUL"}}
<1>1. Len(text) \in Nat /\ p \in Nat
  BY DEF Texts
<1>2. S \subseteq Nat /\ Len(text) + 1 \in S
  BY <1>1 DEF CharAt
<1>3. PICK q \in S : \A m \in S : q <= m
  BY <1>2, Adding!LeastElement
<1>4. ASSUME NEW k \in p..(q - 1), text[k] = "LF" PROVE FALSE
  <2>1. k \in Nat /\ q \in Nat /\ k < q /\ k <= Len(text) /\ k \in p..(Len(text) + 1)
    BY <1>1, <1>3
  <2>2. k \in S
    BY <1>4, <2>1 DEF CharAt
  <2> QED BY <1>3, <2>1, <2>2
<1>5. \E n \in p..(Len(text) + 1) : /\ CharAt(text, n) \in {"LF", "NUL"}
                                    /\ \A k \in p..(n - 1) : text[k] # "LF"
  BY <1>3, <1>4
<1> QED BY <1>5 DEF HardEnd

\* What Trimmed takes off are spaces.
LEMMA TrimmedFacts ==
  ASSUME NEW text, NEW s \in Nat, NEW n \in Nat
  PROVE  LET m == Trimmed(text, s, n)
         IN  /\ m \in 0..n
             /\ \A k \in (s + m)..(s + n - 1) : text[k] = "SP"
<1> DEFINE S == {m \in 0..n : \A k \in m..(n - 1) : text[s + k] = "SP"}
<1>1. S \subseteq Nat /\ n \in S
  OBVIOUS
<1>2. PICK m \in S : \A j \in S : m <= j
  BY <1>1, Adding!LeastElement
<1>3. ASSUME m # 0, text[s + m - 1] = "SP" PROVE FALSE
  <2>1. m - 1 \in 0..n /\ ~(m <= m - 1)
    BY <1>2, <1>3
  <2>2. ASSUME NEW k \in (m - 1)..(n - 1) PROVE text[s + k] = "SP"
    <3>1. CASE k = m - 1
      <4>1. s + k = s + m - 1
        BY <1>2, <3>1
      <4> QED BY <1>3, <4>1
    <3>2. CASE k # m - 1
      BY <1>2, <2>1, <3>2
    <3> QED BY <3>1, <3>2
  <2>3. m - 1 \in S
    BY <2>1, <2>2
  <2> QED BY <1>2, <2>1, <2>3
<1>4. \E j \in 0..n : /\ j = 0 \/ text[s + j - 1] # "SP"
                      /\ \A k \in j..(n - 1) : text[s + k] = "SP"
  BY <1>2, <1>3
<1>5. PICK j : j = Trimmed(text, s, n)
  OBVIOUS
<1>6. j \in 0..n /\ \A k \in j..(n - 1) : text[s + k] = "SP"
  BY <1>4, <1>5 DEF Trimmed
<1>7. ASSUME NEW k \in (s + j)..(s + n - 1) PROVE text[k] = "SP"
  <2>1. k - s \in j..(n - 1) /\ s + (k - s) = k
    BY <1>6
  <2> QED BY <1>6, <2>1
<1> QED BY <1>5, <1>6, <1>7

\* The last space of a row is one of them.
LEMMA LastGap ==
  ASSUME NEW text, NEW s \in Nat, NEW n \in Nat, SpacesIn(text, s, n) # {}
  PROVE  LET g == LastOf(SpacesIn(text, s, n))
         IN  g \in s..(s + n - 1) /\ text[g] = "SP"
<1> DEFINE S == SpacesIn(text, s, n)
<1>1. S \subseteq s..(s + n - 1) /\ \A k \in S : text[k] = "SP"
  BY DEF SpacesIn
<1> HIDE DEF S
<1>2. \E x \in S : \A y \in S : y <= x
  <2>1. S # {} /\ s \in Int /\ s + n - 1 \in Int
    BY DEF S
  <2> QED BY <1>1, <2>1, GreatestElement
<1>3. LastOf(S) \in S
  BY <1>2 DEF LastOf
<1>4. LastOf(S) \in s..(s + n - 1) /\ text[LastOf(S)] = "SP"
  BY <1>1, <1>3
<1> QED BY <1>4 DEF S

\* A row r found at p: what it leaves out before and after is blank, and only its last
\* character can be a newline.
RowFrom(text, p, r) ==
    /\ r.from \in p..(Len(text) + 1) /\ r.n \in Nat
    /\ r.next \in (p + 1)..(Len(text) + 1) /\ r.from + r.n <= r.next
    /\ \A k \in p..(r.from - 1) : text[k] = "SP"
    /\ \A k \in (r.from + r.n)..(r.next - 1) : text[k] \in {"SP", "LF"}
    /\ \A k \in p..(r.next - 2) : text[k] # "LF"

\* The part of the line that has room.
LEMMA FitFacts ==
  ASSUME NEW text \in Texts, NEW s \in 1..(Len(text) + 1),
         NEW cols \in Nat \ {0}, NEW cap \in Nat, cap >= 2
  PROVE  LET n == Least(HardEnd(text, s) - s, Room(cols, cap))
         IN  /\ n \in 0..cols /\ s + n <= HardEnd(text, s)
             /\ HardEnd(text, s) > s => n >= 1
<1>1. PICK h : h = HardEnd(text, s)
  OBVIOUS
<1>2. h \in s..(Len(text) + 1) /\ Len(text) \in Nat
  BY <1>1, HardEndFacts DEF Texts
<1>3. Room(cols, cap) \in 1..cols
  BY DEF Room, Least
<1>4. PICK m \in 1..cols : m = Room(cols, cap)
  BY <1>3
<1>5. Least(h - s, m) \in 0..cols /\ s + Least(h - s, m) <= h /\ (h > s => Least(h - s, m) >= 1)
  BY <1>2 DEF Least
<1> QED BY <1>1, <1>4, <1>5

\* A row r that starts at s.
RowAt(text, s, r) ==
    /\ r.more = TRUE /\ r.from = s /\ r.n \in Nat
    /\ r.next \in s..(Len(text) + 1) /\ s + r.n <= r.next
    /\ CharAt(text, s) \notin {"LF", "NUL"} => r.next > s
    /\ \A k \in (s + r.n)..(r.next - 1) : text[k] \in {"SP", "LF"}
    /\ \A k \in s..(r.next - 2) : text[k] # "LF"

\* A row of text.
LEMMA WrappedFacts ==
  ASSUME NEW text \in Texts, NEW s \in 1..(Len(text) + 1),
         NEW cols \in Nat \ {0}, NEW cap \in Nat, cap >= 2
  PROVE  RowAt(text, s, WrappedRow(text, s, cols, cap))
<1>1. PICK L, h, n : /\ L = Len(text) /\ h = HardEnd(text, s)
                     /\ n = Least(HardEnd(text, s) - s, Room(cols, cap))
  OBVIOUS
<1>2. L \in Nat /\ s \in 1..(L + 1)
  BY <1>1 DEF Texts
<1>3. /\ h \in s..(L + 1) /\ CharAt(text, h) \in {"LF", "NUL"}
      /\ \A k \in s..(h - 1) : text[k] # "LF"
  BY <1>1, HardEndFacts
<1>4. n \in 0..cols /\ s + n <= h /\ (h > s => n >= 1) /\ n \in Nat
  BY <1>1, FitFacts
<1>5. CharAt(text, s) \notin {"LF", "NUL"} => h > s
  <2>1. h = s => CharAt(text, s) \in {"LF", "NUL"}
    BY <1>3
  <2> QED BY <1>3, <2>1
<1> DEFINE Good(r) == /\ r.more = TRUE /\ r.from = s /\ r.n \in Nat
                      /\ r.next \in s..(L + 1) /\ s + r.n <= r.next
                      /\ CharAt(text, s) \notin {"LF", "NUL"} => r.next > s
                      /\ \A k \in (s + r.n)..(r.next - 1) : text[k] \in {"SP", "LF"}
                      /\ \A k \in s..(r.next - 2) : text[k] # "LF"
           stop == s + n
           r1 == Row(s, Trimmed(text, s, n), PastNewline(text, stop))
           r2 == Row(s, Trimmed(text, s, n), SkipSpaces(text, stop))
           gap == LastOf(SpacesIn(text, s, n))
           r3 == Row(s, n, stop)
           r4 == Row(s, gap - s, NextWord(text, gap))
<1>6. stop \in s..(L + 1) /\ stop <= h
  BY <1>2, <1>3, <1>4
<1>7. PICK t : t = Trimmed(text, s, n)
  OBVIOUS
<1>8. t \in 0..n /\ \A k \in (s + t)..(s + n - 1) : text[k] = "SP"
  BY <1>2, <1>4, <1>7, TrimmedFacts
<1>9. Good(r1)
  <2>1. PICK q : q = PastNewline(text, stop)
    OBVIOUS
  <2>2. /\ q \in {stop, stop + 1} /\ q <= L + 1
        /\ q = stop + 1 => text[stop] = "LF"
        /\ stop = s /\ stop = h => CharAt(text, s) \in {"LF", "NUL"}
    <3>1. CASE CharAt(text, stop) = "LF"
      <4>1. stop \in 1..Len(text) /\ text[stop] = "LF"
        <5>1. stop \in 1..(Len(text) + 1)
          BY <1>1, <1>2, <1>6
        <5> QED BY <3>1, <5>1 DEF CharAt
      <4> QED BY <1>1, <1>3, <1>6, <2>1, <3>1, <4>1 DEF PastNewline
    <3>2. CASE CharAt(text, stop) # "LF"
      BY <1>3, <1>6, <2>1, <3>2 DEF PastNewline
    <3> QED BY <3>1, <3>2
  <2>3. r1 = [from |-> s, n |-> t, next |-> q, more |-> TRUE]
    BY <1>7, <2>1 DEF Row
  <2>4. /\ t \in Nat /\ q \in s..(L + 1) /\ s + t <= q
        /\ CharAt(text, s) \notin {"LF", "NUL"} => q > s
    BY <1>2, <1>3, <1>4, <1>5, <1>6, <1>8, <2>2
  <2>5. ASSUME NEW k \in (s + t)..(q - 1) PROVE text[k] \in {"SP", "LF"}
    <3>1. CASE k = stop
      BY <1>2, <1>4, <1>6, <2>2, <2>5, <3>1
    <3>2. CASE k # stop
      <4>1. k \in (s + t)..(s + n - 1)
        BY <1>2, <1>4, <1>6, <1>8, <2>2, <3>2
      <4> QED BY <1>8, <4>1
    <3> QED BY <3>1, <3>2
  <2>6. ASSUME NEW k \in s..(q - 2) PROVE text[k] # "LF"
    <3>1. k \in s..(h - 1)
      BY <1>2, <1>3, <1>4, <1>6, <2>2
    <3> QED BY <1>3, <3>1
  <2> HIDE DEF r1, stop
  <2> QED BY <2>3, <2>4, <2>5, <2>6
<1>10. ASSUME n = cols, stop # h, text[stop] = "SP" PROVE Good(r2)
  <2>1. PICK q : q = SkipSpaces(text, stop)
    OBVIOUS
  <2>2. q \in stop..(L + 1) /\ \A k \in stop..(q - 1) : text[k] = "SP"
    <3>1. stop \in 1..(Len(text) + 1) /\ "NUL" \notin {"SP"}
      BY <1>1, <1>2, <1>6
    <3>2. q = After(text, stop, {"SP"})
      BY <2>1 DEF SkipSpaces
    <3> QED BY <1>1, <3>1, <3>2, AfterFacts
  <2>3. r2 = [from |-> s, n |-> t, next |-> q, more |-> TRUE]
    BY <1>7, <2>1 DEF Row
  <2>4. t \in Nat /\ q \in s..(L + 1) /\ s + t <= q /\ q > s
    BY <1>2, <1>3, <1>4, <1>6, <1>8, <1>10, <2>2
  <2>5. ASSUME NEW k \in (s + t)..(q - 1) PROVE text[k] \in {"SP", "LF"}
    <3>1. CASE k >= stop
      BY <1>2, <1>4, <1>6, <2>2, <2>5, <3>1
    <3>2. CASE k < stop
      <4>1. k \in (s + t)..(s + n - 1)
        BY <1>2, <1>4, <1>6, <1>8, <2>2, <3>2
      <4> QED BY <1>8, <4>1
    <3>3. k \in Int /\ stop \in Int
      BY <1>2, <1>4
    <3> QED BY <3>1, <3>2, <3>3
  <2>6. ASSUME NEW k \in s..(q - 2) PROVE text[k] # "LF"
    <3>1. k \in s..(h - 1) \/ k \in stop..(q - 1)
      BY <1>2, <1>3, <1>4, <1>6, <2>2
    <3> QED BY <1>3, <2>2, <3>1
  <2> HIDE DEF r2, stop
  <2> QED BY <2>3, <2>4, <2>5, <2>6
<1>11. ASSUME n = cols, stop # h PROVE Good(r3)
  <2>1. r3 = [from |-> s, n |-> n, next |-> stop, more |-> TRUE]
    BY DEF Row
  <2>2. n \in Nat /\ stop \in s..(L + 1) /\ s + n <= stop /\ stop > s
    BY <1>2, <1>3, <1>4, <1>6, <1>11
  <2>3. ASSUME NEW k \in s..(stop - 2) PROVE text[k] # "LF"
    <3>1. k \in s..(h - 1)
      BY <1>2, <1>3, <1>4, <1>6
    <3> QED BY <1>3, <3>1
  <2>4. \A k \in (s + n)..(stop - 1) : text[k] \in {"SP", "LF"}
    BY <1>2, <1>4
  <2> HIDE DEF r3, stop
  <2> QED BY <2>1, <2>2, <2>3, <2>4
<1>12. ASSUME n = cols, stop # h, SpacesIn(text, s, n) # {} PROVE Good(r4)
  <2>1. PICK g : g = gap
    OBVIOUS
  <2>2. g \in s..(s + n - 1) /\ text[g] = "SP"
    <3>1. s \in Nat /\ n \in Nat
      BY <1>2, <1>4
    <3> QED BY <1>12, <2>1, <3>1, LastGap
  <2>3. PICK q : q = SkipSpaces(text, g + 1)
    OBVIOUS
  <2>4. q \in (g + 1)..(L + 1) /\ \A k \in (g + 1)..(q - 1) : text[k] = "SP"
    <3>1. g + 1 \in 1..(Len(text) + 1) /\ "NUL" \notin {"SP"}
      BY <1>1, <1>2, <1>4, <1>6, <2>2
    <3>2. q = After(text, g + 1, {"SP"})
      BY <2>3 DEF SkipSpaces
    <3> QED BY <1>1, <3>1, <3>2, AfterFacts
  <2>5. r4 = [from |-> s, n |-> g - s, next |-> q, more |-> TRUE]
    BY <2>1, <2>3 DEF Row, NextWord
  <2>6. g - s \in Nat /\ s + (g - s) = g /\ q \in s..(L + 1) /\ s + (g - s) <= q /\ q > s
    BY <1>2, <1>4, <2>2, <2>4
  <2>7. ASSUME NEW k \in g..(q - 1) PROVE text[k] \in {"SP", "LF"}
    <3>1. k = g \/ k \in (g + 1)..(q - 1)
      BY <1>2, <2>2, <2>4
    <3> QED BY <2>2, <2>4, <3>1
  <2>8. ASSUME NEW k \in s..(q - 2) PROVE text[k] # "LF"
    <3>1. k \in s..(h - 1) \/ k \in (g + 1)..(q - 1)
      BY <1>2, <1>3, <1>4, <1>6, <2>2, <2>4
    <3> QED BY <1>3, <2>4, <3>1
  <2> HIDE DEF r4
  <2> QED BY <2>5, <2>6, <2>7, <2>8
<1>13. PICK w : w = WrappedRow(text, s, cols, cap)
  OBVIOUS
<1>14. w = CASE n < cols \/ stop = h -> r1
             [] n = cols /\ stop # h /\ text[stop] = "SP" -> r2
             [] n = cols /\ stop # h /\ text[stop] # "SP" ->
                  IF SpacesIn(text, s, n) = {} THEN r3 ELSE r4
  BY <1>1, <1>13, Zenon DEF WrappedRow
<1>15. Good(w)
  <2> HIDE DEF Good, r1, r2, r3, r4, stop
  <2>1. CASE n < cols \/ stop = h
    BY <1>9, <1>14, <2>1
  <2>2. CASE n = cols /\ stop # h /\ text[stop] = "SP"
    <3>1. ~(n < cols)
      BY <1>4, <2>2
    <3> QED BY <1>10, <1>14, <2>2, <3>1
  <2>3. CASE n = cols /\ stop # h /\ text[stop] # "SP"
    <3>1. ~(n < cols)
      BY <1>4, <2>3
    <3>2. w = IF SpacesIn(text, s, n) = {} THEN r3 ELSE r4
      BY <1>14, <2>3, <3>1
    <3> QED BY <1>11, <1>12, <2>3, <3>2
  <2>4. n < cols \/ n = cols
    BY <1>4
  <2> QED BY <2>1, <2>2, <2>3, <2>4
<1>16. RowAt(text, s, w)
  BY <1>1, <1>15 DEF RowAt
<1> QED BY <1>13, <1>16

\* The next row, from anywhere in a text: there is one unless the text ends here.
LEMMA NextRowFacts ==
  ASSUME NEW text \in Texts, NEW p \in 1..(Len(text) + 1),
         NEW cols \in Nat \ {0}, NEW cap \in Nat, cap >= 2
  PROVE  LET r == NextRow(text, p, cols, cap)
         IN  /\ r.more = (CharAt(text, p) # "NUL")
             /\ CharAt(text, p) # "NUL" => RowFrom(text, p, r)
<1>1. PICK r, L : r = NextRow(text, p, cols, cap) /\ L = Len(text)
  OBVIOUS
<1>2. L \in Nat /\ p \in 1..(L + 1)
  BY <1>1 DEF Texts
<1> DEFINE Good == /\ r.more = (CharAt(text, p) # "NUL")
                   /\ CharAt(text, p) # "NUL" => RowFrom(text, p, r)
<1> SUFFICES Good
  BY <1>1
<1>3. CASE CharAt(text, p) = "NUL"
  <2>1. r = NoRow(p)
    BY <1>1, <1>3 DEF NextRow
  <2>2. r.more = FALSE
    BY <2>1 DEF NoRow
  <2> QED BY <1>3, <2>2
<1>4. CASE CharAt(text, p) = "LF"
  <2>1. r = Row(p, 0, p + 1)
    BY <1>1, <1>4, "LF" # "NUL" DEF NextRow
  <2>2. r.more = TRUE /\ r.from = p /\ r.n = 0 /\ r.next = p + 1
    BY <2>1 DEF Row
  <2>3. p \in 1..L /\ text[p] = "LF"
    BY <1>1, <1>2, <1>4 DEF CharAt
  <2>4. RowFrom(text, p, r)
    BY <1>1, <1>2, <2>2, <2>3 DEF RowFrom
  <2> QED BY <1>4, <2>2, <2>4
<1>5. CASE CharAt(text, p) \notin {"NUL", "LF"}
  <2>1. PICK s : s = SkipSpaces(text, p)
    OBVIOUS
  <2>2. /\ s \in p..(L + 1) /\ s \in 1..(Len(text) + 1)
        /\ \A k \in p..(s - 1) : text[k] = "SP"
    <3>1. "NUL" \notin {"SP"} /\ s = After(text, p, {"SP"})
      BY <2>1 DEF SkipSpaces
    <3>2. s \in p..(L + 1) /\ \A k \in p..(s - 1) : text[k] \in {"SP"}
      BY <1>1, <3>1, AfterFacts
    <3> QED BY <1>1, <1>2, <3>2
  <2>3. r = IF CharAt(text, s) = "RS" THEN MarkerRow(text, s, cap)
            ELSE WrappedRow(text, s, cols, cap)
    BY <1>1, <1>5, <2>1, Zenon DEF NextRow
  <2> DEFINE Some == /\ r.more = TRUE /\ r.from = s /\ r.n \in Nat
                     /\ r.next \in s..(L + 1) /\ s + r.n <= r.next
                     /\ CharAt(text, s) \notin {"LF", "NUL"} => r.next > s
                     /\ \A k \in (s + r.n)..(r.next - 1) : text[k] \in {"SP", "LF"}
                     /\ \A k \in s..(r.next - 2) : text[k] # "LF"
  <2>4. ASSUME CharAt(text, s) = "RS" PROVE Some
    <3>1. PICK h, n, q : /\ h = HardEnd(text, s)
                         /\ n = Least(HardEnd(text, s) - s, cap - 1)
                         /\ q = PastNewline(text, s + n)
      BY <2>3, <2>4 DEF MarkerRow
    <3>2. r = [from |-> s, n |-> n, next |-> q, more |-> TRUE]
      BY <2>3, <2>4, <3>1 DEF MarkerRow, Row
    <3>3. /\ h \in s..(L + 1) /\ CharAt(text, h) \in {"LF", "NUL"}
          /\ \A k \in s..(h - 1) : text[k] # "LF"
      BY <1>1, <2>2, <3>1, HardEndFacts
    <3>4. h # s
      BY <2>4, <3>3
    <3>5. n \in Nat /\ n >= 1 /\ s + n <= h
      BY <1>2, <2>2, <3>1, <3>3, <3>4 DEF Least
    <3>6. /\ q \in {s + n, s + n + 1} /\ q <= L + 1
          /\ q = s + n + 1 => text[s + n] = "LF"
      <4>1. s + n \in 1..(Len(text) + 1)
        BY <1>1, <1>2, <2>2, <3>3, <3>5
      <4>2. CASE CharAt(text, s + n) = "LF"
        <5>1. s + n \in 1..Len(text) /\ text[s + n] = "LF"
          BY <4>1, <4>2 DEF CharAt
        <5> QED BY <1>1, <1>2, <3>1, <4>2, <5>1 DEF PastNewline
      <4>3. CASE CharAt(text, s + n) # "LF"
        BY <1>1, <1>2, <3>1, <4>1, <4>3 DEF PastNewline
      <4> QED BY <4>2, <4>3
    <3>7. q \in s..(L + 1) /\ s + n <= q /\ q > s
      BY <1>2, <2>2, <3>5, <3>6
    <3>8. \A k \in (s + n)..(q - 1) : text[k] \in {"SP", "LF"}
      BY <1>2, <2>2, <3>5, <3>6
    <3>9. ASSUME NEW k \in s..(q - 2) PROVE text[k] # "LF"
      <4>1. k \in s..(h - 1)
        BY <1>2, <2>2, <3>3, <3>5, <3>6
      <4> QED BY <3>3, <4>1
    <3> QED BY <3>2, <3>5, <3>7, <3>8, <3>9
  <2>5. ASSUME CharAt(text, s) # "RS" PROVE Some
    <3>1. r = WrappedRow(text, s, cols, cap)
      BY <2>3, <2>5
    <3>2. RowAt(text, s, r)
      BY <2>2, <3>1, WrappedFacts
    <3> QED BY <1>1, <3>2 DEF RowAt
  <2>6. Some
    BY <2>4, <2>5
  <2>7. r.next > p
    <3>1. CASE s = p
      BY <1>2, <1>5, <2>2, <2>6, <3>1
    <3>2. CASE s # p
      BY <1>2, <2>2, <2>6, <3>2
    <3> QED BY <3>1, <3>2
  <2>8. ASSUME NEW k \in p..(r.next - 2) PROVE text[k] # "LF"
    <3>1. k \in p..(s - 1) \/ k \in s..(r.next - 2)
      BY <1>2, <2>2, <2>6
    <3>2. "SP" # "LF"
      OBVIOUS
    <3> QED BY <2>2, <2>6, <3>1, <3>2
  <2>9. /\ r.from \in p..(Len(text) + 1) /\ r.n \in Nat
        /\ r.next \in (p + 1)..(Len(text) + 1) /\ r.from + r.n <= r.next
    BY <1>1, <1>2, <2>2, <2>6, <2>7
  <2>10. RowFrom(text, p, r)
    BY <2>2, <2>6, <2>8, <2>9 DEF RowFrom
  <2> QED BY <1>5, <2>6, <2>10
<1> QED BY <1>3, <1>4, <1>5

-----------------------------------------------------------------------------
(***************************************************************************)
(* The text of a page: every character belongs to one piece.               *)
(***************************************************************************)

\* What a document is made of, by Written.
Proper == {piece \in PageItem : /\ piece.char # "NUL"
                                /\ piece.char = "RS" => /\ piece.rows >= 2
                                                        /\ piece.url + 2 < DrawCap}

\* t is the text of a piece.
Shape(piece, t) ==
    /\ t \in Texts /\ Len(t) \in Nat \ {0}
    /\ piece.char # "RS" => Len(t) = 1 /\ t[1] = piece.char
    /\ piece.char = "RS" =>
        /\ Len(t) = 2 + piece.url + piece.rows
        /\ t[1] = "RS" /\ t[2] = Digits[piece.rows]
        /\ \A k \in 3..(2 + piece.url) : t[k] = "u"
        /\ \A k \in (3 + piece.url)..Len(t) : t[k] = "LF"

\* A digit tells how many rows an image has, and is nothing else.
LEMMA DigitFacts ==
    /\ Digits \in [1..9 -> Character] /\ DOMAIN Digits = 1..9
    /\ \A h \in 1..9 : Digits[h] \notin {"LF", "NUL", "SP", "RS"}
    /\ \A g, h \in 1..9 : Digits[g] = Digits[h] => g = h
<1> DEFINE D == <<"1", "2", "3", "4", "5", "6", "7", "8", "9">>
<1>1. D \in [1..9 -> Character] /\ DOMAIN D = 1..9
  <2> DEFINE S == {"1", "2", "3", "4", "5", "6", "7", "8", "9"}
  <2>1. DOMAIN D = 1..9 /\ D \in [1..9 -> S]
    OBVIOUS
  <2>2. S \subseteq Character
    BY DEF Character
  <2> QED BY <2>1, <2>2
<1>2. /\ D[1] = "1" /\ D[2] = "2" /\ D[3] = "3" /\ D[4] = "4" /\ D[5] = "5"
      /\ D[6] = "6" /\ D[7] = "7" /\ D[8] = "8" /\ D[9] = "9"
  OBVIOUS
<1> HIDE DEF D
<1>3. \A h \in 1..9 : D[h] \notin {"LF", "NUL", "SP", "RS"}
  BY <1>2
<1>4. \A g, h \in 1..9 : D[g] = D[h] => g = h
  BY <1>2
<1>5. Digits = D
  BY DEF Digits, D
<1> QED BY <1>1, <1>3, <1>4, <1>5

\* A sequence of n times the same character.
LEMMA ManyFacts ==
  ASSUME NEW n \in Nat, NEW S, NEW c \in S
  PROVE  /\ [k \in 1..n |-> c] \in Seq(S) /\ Len([k \in 1..n |-> c]) = n
         /\ \A k \in 1..n : [i \in 1..n |-> c][k] = c
  OBVIOUS

\* A concatenation, character by character.
LEMMA CatFacts ==
  ASSUME NEW S, NEW v \in Seq(S), NEW w \in Seq(S)
  PROVE  /\ v \o w \in Seq(S) /\ Len(v \o w) = Len(v) + Len(w)
         /\ Len(v) \in Nat /\ Len(w) \in Nat
         /\ \A i \in 1..Len(v) : (v \o w)[i] = v[i]
         /\ \A i \in 1..Len(w) : (v \o w)[Len(v) + i] = w[i]
<1>1. Len(v) \in Nat /\ Len(w) \in Nat
  BY LenProperties
<1>2. v \o w \in Seq(S) /\ Len(v \o w) = Len(v) + Len(w)
  BY ConcatProperties
<1>3. \A i \in 1..Len(v) + Len(w) :
        (v \o w)[i] = IF i <= Len(v) THEN v[i] ELSE w[i - Len(v)]
  BY ConcatProperties
<1>4. ASSUME NEW i \in 1..Len(v) PROVE (v \o w)[i] = v[i]
  BY <1>1, <1>3
<1>5. ASSUME NEW i \in 1..Len(w) PROVE (v \o w)[Len(v) + i] = w[i]
  <2>1. /\ Len(v) + i \in 1..Len(v) + Len(w)
        /\ ~(Len(v) + i <= Len(v)) /\ (Len(v) + i) - Len(v) = i
    BY <1>1
  <2> QED BY <1>3, <2>1
<1> QED
  BY <1>1, <1>2, <1>4, <1>5

\* What PieceText writes has the shape of the piece.
LEMMA PieceTextFacts ==
  ASSUME NEW piece \in Proper
  PROVE  Shape(piece, PieceText(piece))
<1>1. /\ piece.char \in Character /\ piece.rows \in 0..9 /\ piece.url \in Nat
      /\ piece.char = "RS" => piece.rows \in 2..9
  BY DEF Proper, PageItem, Character
<1>2. CASE piece.char # "RS"
  <2>1. PieceText(piece) = <<piece.char>>
    BY <1>2 DEF PieceText
  <2>2. <<piece.char>> \in Texts /\ Len(<<piece.char>>) = 1 /\ <<piece.char>>[1] = piece.char
    BY <1>1 DEF Texts
  <2> QED BY <1>2, <2>1, <2>2 DEF Shape
<1>3. CASE piece.char = "RS"
  <2>0. PICK u, h, d : u = piece.url /\ h = piece.rows /\ d = Digits[piece.rows]
    OBVIOUS
  <2> DEFINE a == <<"RS", d>>
             b == [k \in 1..u |-> "u"]
             c == [k \in 1..h |-> "LF"]
  <2>1. u \in Nat /\ h \in 2..9 /\ d \in Character
        /\ "RS" \in Character /\ "u" \in Character /\ "LF" \in Character
    BY <1>1, <1>3, <2>0, DigitFacts DEF Character
  <2>2. a \in Texts /\ Len(a) = 2 /\ a[1] = "RS" /\ a[2] = d
    BY <2>1 DEF Texts
  <2>3. b \in Texts /\ Len(b) = u /\ \A k \in 1..u : b[k] = "u"
    BY <2>1, ManyFacts DEF Texts
  <2>4. c \in Texts /\ Len(c) = h /\ \A k \in 1..h : c[k] = "LF"
    BY <2>1, ManyFacts DEF Texts
  <2>5. PieceText(piece) = (a \o b) \o c
    BY <1>3, <2>0 DEF PieceText
  <2> HIDE DEF a, b, c
  <2>6. PICK ab : ab = a \o b
    OBVIOUS
  <2>7. /\ ab \in Texts /\ Len(ab) = 2 + u
        /\ \A i \in 1..2 : ab[i] = a[i]
        /\ \A i \in 1..u : ab[2 + i] = b[i]
    <3>1. a \in Seq(Character) /\ b \in Seq(Character)
      BY <2>2, <2>3 DEF Texts
    <3>2. /\ ab \in Seq(Character) /\ Len(ab) = Len(a) + Len(b)
          /\ \A i \in 1..Len(a) : ab[i] = a[i]
          /\ \A i \in 1..Len(b) : ab[Len(a) + i] = b[i]
      BY <2>6, <3>1, CatFacts
    <3> QED BY <2>2, <2>3, <3>2 DEF Texts
  <2>8. PICK t : t = ab \o c
    OBVIOUS
  <2>9. /\ t \in Texts /\ Len(t) = (2 + u) + h
        /\ \A i \in 1..(2 + u) : t[i] = ab[i]
        /\ \A i \in 1..h : t[(2 + u) + i] = c[i]
    <3>1. ab \in Seq(Character) /\ c \in Seq(Character)
      BY <2>4, <2>7 DEF Texts
    <3>2. /\ t \in Seq(Character) /\ Len(t) = Len(ab) + Len(c)
          /\ \A i \in 1..Len(ab) : t[i] = ab[i]
          /\ \A i \in 1..Len(c) : t[Len(ab) + i] = c[i]
      BY <2>8, <3>1, CatFacts
    <3> QED BY <2>4, <2>7, <3>2 DEF Texts
  <2>10. t[1] = "RS" /\ t[2] = d
    <3>1. 1 \in 1..(2 + u) /\ 2 \in 1..(2 + u) /\ 1 \in 1..2 /\ 2 \in 1..2
      BY <2>1
    <3> QED BY <2>2, <2>7, <2>9, <3>1
  <2>11. ASSUME NEW k \in 3..(2 + u) PROVE t[k] = "u"
    <3>1. k \in 1..(2 + u) /\ k - 2 \in 1..u /\ 2 + (k - 2) = k
      BY <2>1
    <3>2. t[k] = ab[k] /\ ab[2 + (k - 2)] = b[k - 2]
      BY <2>7, <2>9, <3>1
    <3> QED BY <2>3, <3>1, <3>2
  <2>12. ASSUME NEW k \in (3 + u)..Len(t) PROVE t[k] = "LF"
    <3>1. k - (2 + u) \in 1..h /\ (2 + u) + (k - (2 + u)) = k
      BY <2>1, <2>9
    <3>2. t[(2 + u) + (k - (2 + u))] = c[k - (2 + u)]
      BY <2>9, <3>1
    <3> QED BY <2>4, <3>1, <3>2
  <2>13. t \in Texts /\ Len(t) \in Nat \ {0} /\ Len(t) = 2 + u + h
    BY <2>1, <2>9 DEF Texts
  <2>14. Shape(piece, t)
    BY <1>3, <2>0, <2>10, <2>11, <2>12, <2>13 DEF Shape
  <2> QED BY <2>5, <2>6, <2>8, <2>14
<1> QED BY <1>2, <1>3

\* Where a character of a text comes from.
Origin == [piece : Proper, start : Nat \ {0}]

\* Position p of a page is one of the text t of o: all of it is there, and an image
\* begins a line.
Within(pg, p, o, t) ==
    /\ o.start \in 1..p /\ p < o.start + Len(t) /\ o.start + Len(t) <= Len(pg.text) + 1
    /\ pg.text[p] = t[p - o.start + 1]
    /\ \A q \in o.start..(o.start + Len(t) - 1) : pg.of[q] = o
    /\ o.piece.char = "RS" /\ o.start > 1 => pg.text[o.start - 1] = "LF"

\* Every position of a page is one of a piece.
Built(pg) ==
    /\ pg.text \in Texts /\ pg.of \in Seq(Origin) /\ Len(pg.of) = Len(pg.text)
    /\ \A p \in 1..Len(pg.text) : Within(pg, p, pg.of[p], PieceText(pg.of[p].piece))

\* y is x with the text of a piece added at its end.
Grown(x, y, piece) ==
    LET t == PieceText(piece)
    IN  /\ Len(y.text) = Len(x.text) + Len(t)
        /\ \A p \in 1..Len(x.text) : y.text[p] = x.text[p] /\ y.of[p] = x.of[p]
        /\ \A k \in 1..Len(t) : /\ y.text[Len(x.text) + k] = t[k]
                                /\ y.of[Len(x.text) + k] = [piece |-> piece,
                                                            start |-> Len(x.text) + 1]

\* AddPiece puts the text of the piece at the end, and says of every position whose it is.
LEMMA AddGrows ==
  ASSUME NEW x, Built(x), NEW piece \in Proper
  PROVE  LET y == AddPiece(x, piece)
         IN  /\ Grown(x, y, piece)
             /\ y.text \in Texts /\ y.of \in Seq(Origin) /\ Len(y.of) = Len(y.text)
<1>1. PICK t, L, o : /\ t = PieceText(piece) /\ L = Len(x.text)
                     /\ o = [piece |-> piece, start |-> Len(x.text) + 1]
  OBVIOUS
<1> DEFINE w == [k \in 1..Len(t) |-> o]
<1>2. /\ t \in Seq(Character) /\ Len(t) \in Nat \ {0} /\ DOMAIN t = 1..Len(t)
      /\ x.text \in Seq(Character) /\ L \in Nat /\ x.of \in Seq(Origin) /\ Len(x.of) = L
  BY <1>1, PieceTextFacts DEF Shape, Texts, Built
<1>3. o \in Origin
  BY <1>1, <1>2 DEF Origin
<1>4. w \in Seq(Origin) /\ Len(w) = Len(t) /\ \A k \in 1..Len(t) : w[k] = o
  BY <1>2, <1>3, ManyFacts
<1> HIDE DEF w
<1>5. PICK a, b, y : a = x.text \o t /\ b = x.of \o w /\ y = AddPiece(x, piece)
  OBVIOUS
<1>6. y.text = a /\ y.of = b
  <2>1. y = [pieces |-> Append(x.pieces, piece),
             text   |-> x.text \o t,
             links  |-> IF piece.href = "" THEN x.links
                        ELSE Append(x.links, [start |-> L + 1, end |-> L + 1 + Len(t),
                                              href |-> piece.href]),
             of     |-> x.of \o [k \in DOMAIN t |-> [piece |-> piece, start |-> L + 1]]]
    BY <1>1, <1>5 DEF AddPiece
  <2>2. /\ y.text = x.text \o t
        /\ y.of = x.of \o [k \in DOMAIN t |-> [piece |-> piece, start |-> L + 1]]
    BY <2>1
  <2>3. w = [k \in DOMAIN t |-> [piece |-> piece, start |-> L + 1]]
    BY <1>1, <1>2 DEF w
  <2> QED BY <1>5, <2>2, <2>3
<1>7. /\ a \in Seq(Character) /\ Len(a) = L + Len(t)
      /\ \A i \in 1..L : a[i] = x.text[i]
      /\ \A i \in 1..Len(t) : a[L + i] = t[i]
  BY <1>1, <1>2, <1>5, CatFacts
<1>8. /\ b \in Seq(Origin) /\ Len(b) = L + Len(t)
      /\ \A i \in 1..L : b[i] = x.of[i]
      /\ \A i \in 1..Len(t) : b[L + i] = o
  <2>0. PICK f : f = x.of
    OBVIOUS
  <2>1. /\ b \in Seq(Origin) /\ Len(b) = Len(f) + Len(w)
        /\ \A i \in 1..Len(f) : b[i] = f[i]
        /\ \A i \in 1..Len(w) : b[Len(f) + i] = w[i]
    <3>1. f \in Seq(Origin) /\ w \in Seq(Origin) /\ b = f \o w
      BY <1>2, <1>4, <1>5, <2>0
    <3> QED BY <3>1, CatFacts
  <2> QED BY <1>2, <1>4, <2>0, <2>1
<1>9. Grown(x, y, piece)
  BY <1>1, <1>6, <1>7, <1>8 DEF Grown
<1>10. y.text \in Texts /\ y.of \in Seq(Origin) /\ Len(y.of) = Len(y.text)
  BY <1>6, <1>7, <1>8 DEF Texts
<1> QED BY <1>5, <1>9, <1>10

\* A piece that is added belongs there, and what there was still does.
LEMMA AddBuilt ==
  ASSUME NEW x, Built(x), NEW piece \in Proper,
         piece.char = "RS" /\ Len(x.text) > 0 => x.text[Len(x.text)] = "LF"
  PROVE  Built(AddPiece(x, piece))
<1>1. PICK t, L, y : t = PieceText(piece) /\ L = Len(x.text) /\ y = AddPiece(x, piece)
  OBVIOUS
<1>2. t \in Texts /\ Len(t) \in Nat \ {0} /\ L \in Nat
  BY <1>1, PieceTextFacts DEF Shape, Built, Texts
<1>3. /\ y.text \in Texts /\ y.of \in Seq(Origin) /\ Len(y.of) = Len(y.text)
      /\ Len(y.text) = L + Len(t)
      /\ \A p \in 1..L : y.text[p] = x.text[p] /\ y.of[p] = x.of[p]
      /\ \A k \in 1..Len(t) : /\ y.text[L + k] = t[k]
                              /\ y.of[L + k] = [piece |-> piece, start |-> L + 1]
  BY <1>1, AddGrows DEF Grown
<1>4. ASSUME NEW p \in 1..Len(y.text)
      PROVE  Within(y, p, y.of[p], PieceText(y.of[p].piece))
  <2>1. CASE p \in 1..L
    <3>1. PICK o, u : o = x.of[p] /\ u = PieceText(x.of[p].piece)
      OBVIOUS
    <3>2. Within(x, p, o, u)
      BY <1>1, <2>1, <3>1 DEF Built
    <3>3. o \in Origin /\ o.start \in Nat \ {0} /\ u \in Texts /\ Len(u) \in Nat
      <4>1. x.of \in Seq(Origin) /\ Len(x.of) = L
        BY <1>1 DEF Built
      <4>2. o \in Origin
        BY <2>1, <3>1, <4>1, ElementOfSeq
      <4> QED BY <3>1, <4>2, PieceTextFacts DEF Origin, Shape
    <3>4. /\ o.start \in 1..p /\ p < o.start + Len(u) /\ o.start + Len(u) <= L + 1
          /\ x.text[p] = u[p - o.start + 1]
          /\ \A q \in o.start..(o.start + Len(u) - 1) : x.of[q] = o
          /\ o.piece.char = "RS" /\ o.start > 1 => x.text[o.start - 1] = "LF"
      BY <1>1, <3>2 DEF Within
    <3>5. o.start + Len(u) <= Len(y.text) + 1
      BY <1>2, <1>3, <3>3, <3>4
    <3>6. ASSUME NEW q \in o.start..(o.start + Len(u) - 1) PROVE y.of[q] = o
      <4>1. q \in 1..L
        BY <1>2, <3>3, <3>4
      <4> QED BY <1>3, <3>4, <4>1
    <3>7. ASSUME o.piece.char = "RS", o.start > 1 PROVE y.text[o.start - 1] = "LF"
      <4>1. o.start - 1 \in 1..L
        BY <1>2, <2>1, <3>3, <3>4, <3>7, SMTT(30)
      <4> QED BY <1>3, <3>4, <3>7, <4>1
    <3>8. Within(y, p, o, u)
      BY <1>3, <2>1, <3>4, <3>5, <3>6, <3>7 DEF Within
    <3> QED BY <1>3, <2>1, <3>1, <3>8
  <2>2. CASE p \notin 1..L
    <3>1. PICK k, o : k = p - L /\ o = [piece |-> piece, start |-> L + 1]
      OBVIOUS
    <3>2. k \in 1..Len(t) /\ p = L + k
      BY <1>2, <1>3, <2>2, <3>1
    <3>3. y.of[p] = o /\ y.text[p] = t[k] /\ o.piece = piece /\ o.start = L + 1
      BY <1>3, <3>1, <3>2
    <3>4. /\ o.start \in 1..p /\ p < o.start + Len(t) /\ o.start + Len(t) <= Len(y.text) + 1
          /\ p - o.start + 1 = k
      BY <1>2, <1>3, <3>2, <3>3
    <3>5. ASSUME NEW q \in o.start..(o.start + Len(t) - 1) PROVE y.of[q] = o
      <4>1. q - L \in 1..Len(t) /\ L + (q - L) = q
        BY <1>2, <3>3
      <4>2. y.of[L + (q - L)] = o
        BY <1>3, <3>1, <4>1
      <4> QED BY <4>1, <4>2
    <3>6. ASSUME o.piece.char = "RS", o.start > 1 PROVE y.text[o.start - 1] = "LF"
      <4>1. L > 0 /\ o.start - 1 = L /\ L \in 1..L
        BY <1>2, <3>3, <3>6
      <4> QED BY <1>1, <1>3, <3>3, <3>6, <4>1
    <3>7. Within(y, p, o, t)
      BY <3>3, <3>4, <3>5, <3>6 DEF Within
    <3> QED BY <1>1, <3>3, <3>7
  <2> QED BY <2>1, <2>2
<1>5. Built(y)
  BY <1>3, <1>4 DEF Built
<1> QED BY <1>1, <1>5

\* What html_links.c keeps of a link.
Link == [start : Nat \ {0}, end : Nat, href : STRING]

\* A link is all of the text of a piece, and of that piece only.
Spans(pg, l) ==
    /\ l.start < l.end /\ l.end <= Len(pg.text) + 1
    /\ \A q \in l.start..(l.end - 1) : pg.of[q].piece.href = l.href

\* The links of a page are in the order of the text, and every character that has one
\* is in it.
Linked(pg) ==
    /\ pg.links \in Seq(Link)
    /\ \A i \in 1..Len(pg.links) : Spans(pg, pg.links[i])
    /\ \A i, j \in 1..Len(pg.links) : i < j => pg.links[i].end <= pg.links[j].start
    /\ \A p \in 1..Len(pg.text) : pg.of[p].piece.href # "" =>
          \E i \in 1..Len(pg.links) : pg.links[i].start <= p /\ p < pg.links[i].end

\* A link that is added is the last of the page.
LEMMA AddLinked ==
  ASSUME NEW x, Built(x), Linked(x), NEW piece \in Proper
  PROVE  Linked(AddPiece(x, piece))
<1>1. PICK t, L, y, ks, l :
         /\ t = PieceText(piece) /\ L = Len(x.text) /\ y = AddPiece(x, piece) /\ ks = x.links
         /\ l = [start |-> L + 1, end |-> L + 1 + Len(t), href |-> piece.href]
  OBVIOUS
<1>2. t \in Texts /\ Len(t) \in Nat \ {0} /\ L \in Nat
  BY <1>1, PieceTextFacts DEF Shape, Built, Texts
<1>3. /\ Len(y.text) = L + Len(t)
      /\ \A p \in 1..L : y.text[p] = x.text[p] /\ y.of[p] = x.of[p]
      /\ \A k \in 1..Len(t) : y.of[L + k] = [piece |-> piece, start |-> L + 1]
  BY <1>1, AddGrows DEF Grown
<1>4. ASSUME NEW q \in (L + 1)..(L + Len(t)) PROVE y.of[q].piece = piece
  <2>1. q - L \in 1..Len(t) /\ L + (q - L) = q
    BY <1>2
  <2>2. y.of[L + (q - L)] = [piece |-> piece, start |-> L + 1]
    BY <1>3, <2>1
  <2> QED BY <2>1, <2>2
<1>5. /\ ks \in Seq(Link) /\ Len(ks) \in Nat
      /\ \A i \in 1..Len(ks) : ks[i] \in Link /\ Spans(x, ks[i])
      /\ \A i, j \in 1..Len(ks) : i < j => ks[i].end <= ks[j].start
      /\ \A p \in 1..L : x.of[p].piece.href # "" =>
            \E i \in 1..Len(ks) : ks[i].start <= p /\ p < ks[i].end
  <2>1. ks \in Seq(Link)
    BY <1>1 DEF Linked
  <2>2. Len(ks) \in Nat /\ \A i \in 1..Len(ks) : ks[i] \in Link
    BY <2>1, LenProperties, ElementOfSeq
  <2> QED BY <1>1, <2>1, <2>2 DEF Linked
<1>6. ASSUME NEW i \in 1..Len(ks)
      PROVE  Spans(y, ks[i]) /\ ks[i].start \in Nat /\ ks[i].end \in Nat /\ ks[i].end <= L + 1
  <2>1. PICK k : k = ks[i]
    OBVIOUS
  <2>2. /\ k.start \in Nat \ {0} /\ k.end \in Nat /\ k.start < k.end /\ k.end <= L + 1
        /\ \A q \in k.start..(k.end - 1) : x.of[q].piece.href = k.href
    BY <1>1, <1>5, <2>1 DEF Link, Spans
  <2>3. k.end <= Len(y.text) + 1
    BY <1>2, <1>3, <2>2
  <2>4. ASSUME NEW q \in k.start..(k.end - 1) PROVE y.of[q].piece.href = k.href
    <3>1. q \in 1..L
      BY <1>2, <2>2
    <3> QED BY <1>3, <2>2, <3>1
  <2> QED BY <2>1, <2>2, <2>3, <2>4 DEF Spans
<1>7. CASE piece.href = ""
  <2>1. y.links = ks
    BY <1>1, <1>7 DEF AddPiece
  <2>2. ASSUME NEW p \in 1..Len(y.text), y.of[p].piece.href # "" PROVE p \in 1..L
    <3>1. p \in (L + 1)..(L + Len(t)) \/ p \in 1..L
      BY <1>2, <1>3
    <3> QED BY <1>4, <1>7, <2>2, <3>1
  <2>3. ASSUME NEW p \in 1..Len(y.text), y.of[p].piece.href # ""
        PROVE  \E i \in 1..Len(ks) : ks[i].start <= p /\ p < ks[i].end
    <3>1. p \in 1..L
      BY <2>2, <2>3
    <3>2. y.of[p] = x.of[p]
      BY <1>3, <3>1
    <3> QED BY <1>5, <2>3, <3>1, <3>2
  <2>4. Linked(y)
    BY <1>5, <1>6, <2>1, <2>3 DEF Linked
  <2> QED BY <1>1, <2>4
<1>8. CASE piece.href # ""
  <2>0. PICK zs : zs = Append(ks, l)
    OBVIOUS
  <2>1. y.links = zs
    <3>1. l = [start |-> L + 1, end |-> (L + 1) + Len(t), href |-> piece.href]
      BY <1>1
    <3>2. y.links = Append(ks, [start |-> L + 1, end |-> (L + 1) + Len(t), href |-> piece.href])
      BY <1>1, <1>8 DEF AddPiece
    <3> QED BY <2>0, <3>1, <3>2
  <2>2. l \in Link /\ l.start = L + 1 /\ l.end = L + 1 + Len(t) /\ l.href = piece.href
    <3>1. piece.href \in STRING
      BY DEF Proper, PageItem
    <3> QED BY <1>1, <1>2, <3>1 DEF Link
  <2>3. /\ zs \in Seq(Link) /\ Len(zs) = Len(ks) + 1
        /\ \A i \in 1..Len(ks) : zs[i] = ks[i]
        /\ zs[Len(ks) + 1] = l
    <3>1. ks \in Seq(Link) /\ l \in Link
      BY <1>5, <2>2
    <3>2. /\ Append(ks, l) \in Seq(Link) /\ Len(Append(ks, l)) = Len(ks) + 1
          /\ \A i \in 1..Len(ks) : Append(ks, l)[i] = ks[i]
          /\ Append(ks, l)[Len(ks) + 1] = l
      BY <3>1, AppendProperties
    <3> QED BY <2>0, <3>2
  <2>n. Len(ks) \in Nat /\ Len(zs) = Len(ks) + 1
    BY <1>5, <2>3
  <2>4. Spans(y, l)
    <3>1. l.start < l.end /\ l.end <= Len(y.text) + 1
      BY <1>2, <1>3, <2>2
    <3>2. ASSUME NEW q \in l.start..(l.end - 1) PROVE y.of[q].piece.href = l.href
      <4>1. q \in (L + 1)..(L + Len(t))
        BY <1>2, <2>2
      <4> QED BY <1>4, <2>2, <4>1
    <3> QED BY <3>1, <3>2 DEF Spans
  <2>5. ASSUME NEW i \in 1..Len(zs) PROVE Spans(y, zs[i])
    <3>1. i \in 1..Len(ks) \/ i = Len(ks) + 1
      BY <2>n
    <3> QED BY <1>6, <2>3, <2>4, <3>1
  <2>6. ASSUME NEW i \in 1..Len(zs), NEW j \in 1..Len(zs), i < j
        PROVE  zs[i].end <= zs[j].start
    <3>1. i \in 1..Len(ks) /\ (j \in 1..Len(ks) \/ j = Len(ks) + 1)
      BY <2>n, <2>6
    <3>2. CASE j \in 1..Len(ks)
      BY <1>5, <2>3, <2>6, <3>1, <3>2
    <3>3. CASE j = Len(ks) + 1
      BY <1>6, <2>2, <2>3, <3>1, <3>3
    <3> QED BY <3>1, <3>2, <3>3
  <2>7. ASSUME NEW p \in 1..Len(y.text), y.of[p].piece.href # ""
        PROVE  \E i \in 1..Len(zs) : zs[i].start <= p /\ p < zs[i].end
    <3>1. CASE p \in 1..L
      <4>1. y.of[p] = x.of[p]
        BY <1>3, <3>1
      <4>2. PICK i \in 1..Len(ks) : ks[i].start <= p /\ p < ks[i].end
        BY <1>5, <2>7, <3>1, <4>1
      <4>3. i \in 1..Len(zs) /\ zs[i] = ks[i]
        BY <2>n, <2>3
      <4> QED BY <4>2, <4>3
    <3>2. CASE p \notin 1..L
      <4>1. l.start <= p /\ p < l.end
        BY <1>2, <1>3, <2>2, <3>2
      <4>2. Len(ks) + 1 \in 1..Len(zs)
        BY <2>n
      <4> QED BY <2>3, <4>1, <4>2
    <3> QED BY <3>1, <3>2
  <2>8. Linked(y)
    BY <2>1, <2>3, <2>5, <2>6, <2>7 DEF Linked
  <2> QED BY <1>1, <2>8
<1> QED BY <1>7, <1>8

-----------------------------------------------------------------------------
\* What AddPiece builds.
Made == [pieces : Seq(PageItem), text : Texts, links : Seq(Link), of : Seq(Origin)]

\* pg is the page that the first k pieces of ps make.
MadeOf(k, pg, ps) ==
    /\ Built(pg) /\ Linked(pg)
    /\ pg.pieces \in Seq(PageItem) /\ Len(pg.pieces) = k
    /\ \A i \in 1..k : pg.pieces[i] = ps[i]
    /\ \A p \in 1..Len(pg.text) : \E i \in 1..k : pg.of[p].piece = ps[i]
    /\ k = 0 => Len(pg.text) = 0
    /\ k > 0 /\ ps[k].char \in {"LF", "RS"} => Len(pg.text) > 0 /\ pg.text[Len(pg.text)] = "LF"

\* The next piece is put on the page.
LEMMA MadeFurther ==
  ASSUME NEW ps \in Seq(PageItem), Written(ps), NEW k \in 1..Len(ps),
         NEW x, MadeOf(k - 1, x, ps)
  PROVE  MadeOf(k, AddPiece(x, ps[k]), ps)
<1>1. PICK piece, y, t, L : /\ piece = ps[k] /\ y = AddPiece(x, piece)
                            /\ t = PieceText(piece) /\ L = Len(x.text)
  OBVIOUS
<1>2. piece \in Proper /\ (piece.char = "RS" /\ k > 1 => ps[k - 1].char \in {"LF", "RS"})
  <2>1. piece \in PageItem /\ k \in DOMAIN ps
    BY <1>1, ElementOfSeq
  <2> QED BY <1>1, <2>1 DEF Written, Proper
<1>3. Shape(piece, t)
  BY <1>1, <1>2, PieceTextFacts
<1>4. t \in Texts /\ Len(t) \in Nat \ {0} /\ L \in Nat
  BY <1>1, <1>3 DEF Shape, MadeOf, Built, Texts
<1>5. piece.char = "RS" /\ Len(x.text) > 0 => x.text[Len(x.text)] = "LF"
  <2>1. CASE k = 1
    BY <1>1, <1>4, <2>1 DEF MadeOf
  <2>2. CASE k # 1
    <3>1. k - 1 > 0 /\ k > 1
      BY <2>2
    <3> QED BY <1>2, <3>1 DEF MadeOf
  <2> QED BY <2>1, <2>2
<1>6. Built(x) /\ Linked(x)
  BY DEF MadeOf
<1>7. Built(y) /\ Linked(y)
  BY <1>1, <1>2, <1>5, <1>6, AddBuilt, AddLinked
<1>8. /\ y.pieces \in Seq(PageItem) /\ Len(y.pieces) = k
      /\ \A i \in 1..k : y.pieces[i] = ps[i]
  <2>1. PICK v : v = x.pieces
    OBVIOUS
  <2>2. v \in Seq(PageItem) /\ Len(v) = k - 1 /\ \A i \in 1..(k - 1) : v[i] = ps[i]
    BY <2>1 DEF MadeOf
  <2>3. piece \in PageItem
    BY <1>2 DEF Proper
  <2>4. y.pieces = Append(v, piece)
    BY <1>1, <2>1 DEF AddPiece
  <2>5. /\ Append(v, piece) \in Seq(PageItem) /\ Len(Append(v, piece)) = (k - 1) + 1
        /\ \A i \in 1..(k - 1) : Append(v, piece)[i] = v[i]
        /\ Append(v, piece)[(k - 1) + 1] = piece
    BY <2>2, <2>3, AppendProperties
  <2>6. ASSUME NEW i \in 1..k PROVE Append(v, piece)[i] = ps[i]
    <3>1. i \in 1..(k - 1) \/ i = (k - 1) + 1
      OBVIOUS
    <3>2. (k - 1) + 1 = k
      OBVIOUS
    <3> QED BY <1>1, <2>2, <2>5, <3>1, <3>2
  <2> QED BY <2>4, <2>5, <2>6
<1>9. /\ Len(y.text) = L + Len(t) /\ Len(y.text) > 0
      /\ \A i \in 1..Len(t) : y.text[L + i] = t[i] /\ y.of[L + i].piece = piece
      /\ \A i \in 1..L : y.of[i] = x.of[i]
  <2>1. Grown(x, y, piece)
    BY <1>1, <1>2, <1>6, AddGrows
  <2>2. /\ Len(y.text) = L + Len(t)
        /\ \A i \in 1..Len(t) : y.text[L + i] = t[i] /\ y.of[L + i].piece = piece
        /\ \A i \in 1..L : y.of[i] = x.of[i]
    <3>1. /\ Len(y.text) = L + Len(t)
          /\ \A i \in 1..L : y.of[i] = x.of[i]
      BY <1>1, <2>1 DEF Grown
    <3>2. ASSUME NEW i \in 1..Len(t)
          PROVE  y.text[L + i] = t[i] /\ y.of[L + i] = [piece |-> piece, start |-> L + 1]
      BY <1>1, <2>1 DEF Grown
    <3>3. \A i \in 1..Len(t) : y.of[L + i].piece = piece
      BY <3>2
    <3> QED BY <3>1, <3>2, <3>3
  <2> QED BY <1>4, <2>2
<1>10. ASSUME piece.char \in {"LF", "RS"} PROVE y.text[Len(y.text)] = "LF"
  <2>1. Len(t) \in 1..Len(t) /\ y.text[L + Len(t)] = t[Len(t)]
    BY <1>4, <1>9
  <2>2. t[Len(t)] = "LF"
    <3>1. CASE piece.char = "LF"
      BY <1>3, <3>1 DEF Shape
    <3>2. CASE piece.char = "RS"
      <4>0. PICK u, h : u = piece.url /\ h = piece.rows
        OBVIOUS
      <4>1. u \in Nat /\ h \in 2..9
        BY <1>2, <3>2, <4>0, SMTT(30) DEF Proper, PageItem
      <4>2. Len(t) = 2 + u + h /\ \A i \in (3 + u)..Len(t) : t[i] = "LF"
        BY <1>3, <3>2, <4>0 DEF Shape
      <4>3. Len(t) \in (3 + u)..Len(t)
        BY <4>1, <4>2
      <4> QED BY <4>2, <4>3
    <3> QED BY <1>10, <3>1, <3>2
  <2> QED BY <1>9, <2>1, <2>2
<1>11. ASSUME NEW p \in 1..Len(y.text) PROVE \E i \in 1..k : y.of[p].piece = ps[i]
  <2>1. CASE p \in 1..L
    <3>1. PICK i \in 1..(k - 1) : x.of[p].piece = ps[i]
      BY <1>1, <2>1 DEF MadeOf
    <3>2. i \in 1..k
      OBVIOUS
    <3> QED BY <1>9, <2>1, <3>1, <3>2
  <2>2. CASE p \notin 1..L
    <3>1. p - L \in 1..Len(t) /\ L + (p - L) = p
      BY <1>4, <1>9, <2>2
    <3>2. y.of[L + (p - L)].piece = piece
      BY <1>9, <3>1
    <3>3. k \in 1..k
      OBVIOUS
    <3> QED BY <1>1, <3>1, <3>2, <3>3
  <2> QED BY <2>1, <2>2
<1>12. MadeOf(k, y, ps)
  <2>1. k > 0 /\ ps[k] = piece
    BY <1>1
  <2> QED BY <1>7, <1>8, <1>9, <1>10, <1>11, <2>1 DEF MadeOf
<1> QED BY <1>1, <1>12

\* What PageOf makes of a document.
LEMMA PageFacts ==
  ASSUME NEW ps \in Seq(PageItem), Written(ps)
  PROVE  /\ Built(PageOf(ps)) /\ Linked(PageOf(ps)) /\ PageOf(ps).pieces = ps
         /\ \A p \in 1..Len(PageOf(ps).text) :
               \E i \in 1..Len(ps) : PageOf(ps).of[p].piece = ps[i]
<1>1. PICK base : base = [pieces |-> <<>>, text |-> <<>>, links |-> <<>>, of |-> <<>>]
  OBVIOUS
<1>2. PageOf(ps) = Adding!Fold(base, ps)
  BY <1>1 DEF PageOf, Adding!Fold, FoldLeft, MapThenFoldSet, Max, Adding!Largest
<1>3. MadeOf(0, base, ps)
  <2>1. base.pieces = <<>> /\ base.text = <<>> /\ base.links = <<>> /\ base.of = <<>>
    BY <1>1
  <2>2. <<>> \in Texts /\ <<>> \in Seq(Origin) /\ <<>> \in Seq(Link) /\ <<>> \in Seq(PageItem)
        /\ Len(<<>>) = 0
    BY EmptySeq DEF Texts
  <2>3. Built(base)
    BY <2>1, <2>2 DEF Built
  <2>4. Linked(base)
    BY <2>1, <2>2 DEF Linked
  <2> QED BY <2>1, <2>2, <2>3, <2>4 DEF MadeOf
<1> DEFINE G == {u \in (0..Len(ps)) \X Made : MadeOf(u[1], u[2], ps)}
<1>4. Len(ps) \in Nat
  OBVIOUS
<1>5. <<0, base>> \in G
  <2>1. base \in Made
    <3>1. <<>> \in Texts /\ <<>> \in Seq(Origin) /\ <<>> \in Seq(Link) /\ <<>> \in Seq(PageItem)
      BY EmptySeq DEF Texts
    <3> QED BY <1>1, <3>1 DEF Made
  <2> QED BY <1>3, <1>4, <2>1
<1>6. ASSUME NEW k \in 1..Len(ps), NEW x, <<k - 1, x>> \in G
      PROVE  <<k, AddPiece(x, ps[k])>> \in G
  <2>1. MadeOf(k - 1, x, ps)
    BY <1>6
  <2>2. PICK y : y = AddPiece(x, ps[k])
    OBVIOUS
  <2>3. MadeOf(k, y, ps)
    BY <2>1, <2>2, MadeFurther
  <2>4. y \in Made
    <3>1. /\ y.pieces \in Seq(PageItem) /\ y.text \in Texts /\ y.links \in Seq(Link)
          /\ y.of \in Seq(Origin)
      BY <2>3 DEF MadeOf, Built, Linked
    <3>2. y = [pieces |-> y.pieces, text |-> y.text, links |-> y.links, of |-> y.of]
      BY <2>2 DEF AddPiece
    <3> QED BY <3>1, <3>2 DEF Made
  <2>5. k \in 0..Len(ps)
    BY <1>4
  <2> QED BY <2>2, <2>3, <2>4, <2>5
<1>7. <<Len(ps), Adding!Fold(base, ps)>> \in G
  <2> HIDE DEF G
  <2> QED BY <1>5, <1>6, Adding!FoldKeepsAlong
<1>8. PICK pg : pg = PageOf(ps)
  OBVIOUS
<1>9. MadeOf(Len(ps), pg, ps)
  BY <1>2, <1>7, <1>8
<1>10. pg.pieces = ps
  <2>1. pg.pieces \in Seq(PageItem) /\ Len(pg.pieces) = Len(ps)
        /\ \A i \in 1..Len(ps) : pg.pieces[i] = ps[i]
    BY <1>9 DEF MadeOf
  <2> QED BY <2>1, SeqEqual
<1> QED BY <1>8, <1>9, <1>10 DEF MadeOf

-----------------------------------------------------------------------------
(***************************************************************************)
(* The rows of a page: an image takes as many as it has, and no row of     *)
(* text reaches into it.                                                   *)
(***************************************************************************)

\* What a position of a page is part of.
LEMMA Here ==
  ASSUME NEW d, Built(d), NEW p \in 1..Len(d.text)
  PROVE  \E o \in Origin, t \in Texts :
            /\ o = d.of[p] /\ t = PieceText(o.piece)
            /\ Shape(o.piece, t) /\ Within(d, p, o, t)
            /\ \A q \in o.start..(o.start + Len(t) - 1) : d.text[q] = t[q - o.start + 1]
<1>1. PICK o, t, L : o = d.of[p] /\ t = PieceText(d.of[p].piece) /\ L = Len(d.text)
  OBVIOUS
<1>2. o \in Origin /\ L \in Nat
  <2>1. d.of \in Seq(Origin) /\ Len(d.of) = Len(d.text) /\ L \in Nat
    BY <1>1 DEF Built, Texts
  <2> QED BY <1>1, <2>1, ElementOfSeq
<1>3. Shape(o.piece, t) /\ t \in Texts /\ Len(t) \in Nat \ {0}
  BY <1>1, <1>2, PieceTextFacts DEF Origin, Shape
<1>4. Within(d, p, o, t)
  BY <1>1 DEF Built
<1>5. ASSUME NEW q \in o.start..(o.start + Len(t) - 1)
      PROVE  d.text[q] = t[q - o.start + 1]
  <2>1. d.of[q] = o
    BY <1>4 DEF Within
  <2>2. q \in 1..Len(d.text)
    <3>1. o.start \in 1..p /\ o.start + Len(t) <= L + 1 /\ o.start \in Nat \ {0}
      BY <1>1, <1>2, <1>4 DEF Within, Origin
    <3> QED BY <1>1, <1>2, <1>3, <3>1
  <2>3. Within(d, q, o, t)
    BY <1>1, <2>1, <2>2 DEF Built
  <2> QED BY <2>3 DEF Within
<1> QED BY <1>1, <1>2, <1>3, <1>4, <1>5

\* o is the origin of an image that starts at s, with an address of u characters and
\* h rows.
ImageAt(d, o, s, u, h) ==
    /\ s \in Nat \ {0} /\ u \in Nat /\ h \in 2..9 /\ u + 2 < DrawCap
    /\ o.start = s /\ o.piece.url = u /\ o.piece.rows = h /\ o.piece.char = "RS"
    /\ s + 2 + u + h <= Len(d.text) + 1
    /\ d.text[s] = "RS" /\ d.text[s + 1] = Digits[h]
    /\ \A q \in (s + 2)..(s + 1 + u) : d.text[q] = "u"
    /\ \A q \in (s + 2 + u)..(s + 1 + u + h) : d.text[q] = "LF"
    /\ \A q \in s..(s + 1 + u + h) : d.of[q] = o
    /\ s > 1 => d.text[s - 1] = "LF"

\* A position of an image is between its marker and its last empty line.
LEMMA ImageHere ==
  ASSUME NEW d, Built(d), NEW p \in 1..Len(d.text), d.of[p].piece.char = "RS"
  PROVE  \E s, u, h : ImageAt(d, d.of[p], s, u, h) /\ p \in s..(s + 1 + u + h)
<1>1. PICK o \in Origin, t \in Texts :
            /\ o = d.of[p] /\ t = PieceText(o.piece)
            /\ Shape(o.piece, t) /\ Within(d, p, o, t)
            /\ \A q \in o.start..(o.start + Len(t) - 1) : d.text[q] = t[q - o.start + 1]
  BY Here
<1>2. PICK s, u, h, L : s = o.start /\ u = o.piece.url /\ h = o.piece.rows /\ L = Len(d.text)
  OBVIOUS
<1>3. s \in Nat \ {0} /\ u \in Nat /\ h \in 2..9 /\ u + 2 < DrawCap /\ o.piece.char = "RS"
  BY <1>1, <1>2, SMTT(30) DEF Origin, Proper, PageItem
<1>4. /\ Len(t) = 2 + u + h /\ t[1] = "RS" /\ t[2] = Digits[h]
      /\ \A k \in 3..(2 + u) : t[k] = "u"
      /\ \A k \in (3 + u)..Len(t) : t[k] = "LF"
  BY <1>1, <1>2, <1>3 DEF Shape
<1>5. /\ s \in 1..p /\ p < s + Len(t) /\ s + Len(t) <= L + 1
      /\ \A q \in s..(s + Len(t) - 1) : d.of[q] = o
      /\ s > 1 => d.text[s - 1] = "LF"
  BY <1>1, <1>2, <1>3 DEF Within
<1>6. \A q \in s..(s + Len(t) - 1) : d.text[q] = t[q - s + 1]
  BY <1>1, <1>2
<1>7. p \in s..(s + 1 + u + h) /\ s + 2 + u + h <= L + 1
  <2>1. PICK n : n = Len(t)
    OBVIOUS
  <2>2. n = 2 + u + h /\ s \in 1..p /\ p < s + n /\ s + n <= L + 1
    BY <1>4, <1>5, <2>1
  <2> QED BY <1>3, <2>2
<1>8. d.text[s] = "RS" /\ d.text[s + 1] = Digits[h]
  <2>1. s \in s..(s + Len(t) - 1) /\ s - s + 1 = 1
    BY <1>3, <1>4
  <2>2. s + 1 \in s..(s + Len(t) - 1) /\ (s + 1) - s + 1 = 2
    BY <1>3, <1>4
  <2> QED BY <1>4, <1>6, <2>1, <2>2
<1>9. ASSUME NEW q \in (s + 2)..(s + 1 + u) PROVE d.text[q] = "u"
  <2>1. q \in s..(s + Len(t) - 1) /\ q - s + 1 \in 3..(2 + u)
    BY <1>3, <1>4
  <2> QED BY <1>4, <1>6, <2>1
<1>10. ASSUME NEW q \in (s + 2 + u)..(s + 1 + u + h) PROVE d.text[q] = "LF"
  <2>1. q \in s..(s + Len(t) - 1) /\ q - s + 1 \in (3 + u)..Len(t)
    BY <1>3, <1>4
  <2> QED BY <1>4, <1>6, <2>1
<1>11. ASSUME NEW q \in s..(s + 1 + u + h) PROVE d.of[q] = o
  <2>1. q \in s..(s + Len(t) - 1)
    BY <1>3, <1>4
  <2> QED BY <1>5, <2>1
<1>12. ImageAt(d, o, s, u, h)
  BY <1>2, <1>3, <1>5, <1>7, <1>8, <1>9, <1>10, <1>11 DEF ImageAt
<1> QED BY <1>1, <1>7, <1>12

\* A character that is not part of an image is a piece of its own, and a page has no NUL.
LEMMA PlainHere ==
  ASSUME NEW d, Built(d), NEW p \in 1..Len(d.text)
  PROVE  /\ d.of[p].piece.char # "RS" => d.text[p] # "RS"
         /\ d.text[p] # "NUL"
<1>1. PICK o \in Origin, t \in Texts :
            /\ o = d.of[p] /\ t = PieceText(o.piece)
            /\ Shape(o.piece, t) /\ Within(d, p, o, t)
            /\ \A q \in o.start..(o.start + Len(t) - 1) : d.text[q] = t[q - o.start + 1]
  BY Here
<1>2. CASE o.piece.char # "RS"
  <2>1. Len(t) = 1 /\ t[1] = o.piece.char /\ o.piece.char # "NUL" /\ o.start \in Nat
    BY <1>1, <1>2 DEF Shape, Origin, Proper
  <2>2. p - o.start + 1 = 1
    BY <1>1, <2>1 DEF Within
  <2>3. d.text[p] = t[1]
    BY <1>1, <2>2 DEF Within
  <2> QED BY <1>1, <1>2, <2>1, <2>3
<1>3. CASE o.piece.char = "RS"
  <2>1. PICK s, u, h : ImageAt(d, o, s, u, h) /\ p \in s..(s + 1 + u + h)
    BY <1>1, <1>3, ImageHere
  <2>2. /\ s \in Nat /\ u \in Nat /\ h \in 2..9
        /\ d.text[s] = "RS" /\ d.text[s + 1] = Digits[h]
        /\ \A q \in (s + 2)..(s + 1 + u) : d.text[q] = "u"
        /\ \A q \in (s + 2 + u)..(s + 1 + u + h) : d.text[q] = "LF"
    BY <2>1 DEF ImageAt
  <2>3. p = s \/ p = s + 1 \/ p \in (s + 2)..(s + 1 + u) \/ p \in (s + 2 + u)..(s + 1 + u + h)
    BY <2>1, <2>2
  <2>4. d.text[p] # "NUL"
    <3>1. Digits[h] # "NUL"
      BY <2>2, DigitFacts
    <3> QED BY <2>2, <2>3, <3>1
  <2> QED BY <1>1, <1>3, <2>4
<1> QED BY <1>2, <1>3

\* The row that starts at p belongs to the image that the box b is for, or to none.
BoxAt(d, b, p) ==
    IF b = NoBox
    THEN p <= Len(d.text) /\ d.of[p].piece.char = "RS" => d.of[p].start = p
    ELSE \E s, u, h : /\ p <= Len(d.text) /\ ImageAt(d, d.of[p], s, u, h)
                      /\ p \in (s + 3 + u)..(s + 1 + u + h)
                      /\ b = [of |-> s, at |-> p - (s + 2 + u), rows |-> h]

\* The marker row of an image, whatever the buffer that it fits in.
LEMMA MarkerRowFacts ==
  ASSUME NEW d, Built(d), NEW o, NEW s, NEW u, NEW h, ImageAt(d, o, s, u, h),
         NEW cap \in Nat, u + 2 < cap
  PROVE  NextRow(d.text, s, Cols, cap) = Row(s, u + 2, s + u + 3)
<1>1. PICK text, L : text = d.text /\ L = Len(d.text)
  OBVIOUS
<1>2. /\ s \in Nat \ {0} /\ u \in Nat /\ h \in 2..9 /\ s + 2 + u + h <= L + 1
      /\ text[s] = "RS" /\ text[s + 1] = Digits[h]
      /\ \A q \in (s + 2)..(s + 1 + u) : text[q] = "u"
      /\ \A q \in (s + 2 + u)..(s + 1 + u + h) : text[q] = "LF"
  BY <1>1 DEF ImageAt
<1>3. text \in Texts /\ L \in Nat /\ s \in 1..L /\ Len(text) = L
  <2>1. text \in Texts /\ Len(text) = L
    BY <1>1 DEF Built
  <2>2. L \in Nat
    BY <2>1 DEF Texts
  <2> QED BY <1>2, <2>1, <2>2
<1>4. CharAt(text, s) = "RS"
  BY <1>2, <1>3 DEF CharAt
<1>5. SkipSpaces(text, s) = s
  <2>1. PICK q : q = SkipSpaces(text, s)
    OBVIOUS
  <2>2. q \in s..(L + 1) /\ \A k \in s..(q - 1) : text[k] \in {"SP"}
    <3>1. "NUL" \notin {"SP"} /\ q = After(text, s, {"SP"}) /\ s \in 1..(Len(text) + 1)
      BY <1>3, <2>1 DEF SkipSpaces
    <3> QED BY <1>3, <3>1, AfterFacts
  <2>3. q = s
    <3>1. q > s => s \in s..(q - 1)
      BY <1>3, <2>2
    <3>2. q \in Int /\ q >= s
      BY <1>3, <2>2
    <3> QED BY <1>2, <1>3, <2>2, <3>1, <3>2
  <2> QED BY <2>1, <2>3
<1>6. HardEnd(text, s) = s + 2 + u
  <2>1. PICK q : q = HardEnd(text, s)
    OBVIOUS
  <2>2. /\ q \in s..(L + 1) /\ CharAt(text, q) \in {"LF", "NUL"}
        /\ \A k \in s..(q - 1) : text[k] # "LF"
    <3>1. s \in 1..(Len(text) + 1)
      BY <1>3
    <3> QED BY <1>3, <2>1, <3>1, HardEndFacts
  <2>3. ~(q > s + 2 + u)
    <3>1. ASSUME q > s + 2 + u PROVE FALSE
      <4>1. s + 2 + u \in s..(q - 1) /\ s + 2 + u \in (s + 2 + u)..(s + 1 + u + h)
        BY <1>2, <1>3, <2>2, <3>1
      <4> QED BY <1>2, <2>2, <4>1
    <3> QED BY <3>1
  <2>4. ~(q < s + 2 + u)
    <3>1. ASSUME q < s + 2 + u PROVE FALSE
      <4>1. q = s \/ q = s + 1 \/ q \in (s + 2)..(s + 1 + u)
        BY <1>2, <1>3, <2>2, <3>1
      <4>2. q \in 1..L /\ CharAt(text, q) = text[q]
        <5>1. q \in 1..L
          BY <1>2, <1>3, <2>2, <3>1
        <5> QED BY <1>3, <5>1 DEF CharAt
      <4>3. Digits[h] \notin {"LF", "NUL"}
        BY <1>2, DigitFacts
      <4> QED BY <1>2, <2>2, <4>1, <4>2, <4>3
    <3> QED BY <3>1
  <2>5. q = s + 2 + u
    BY <1>2, <1>3, <2>2, <2>3, <2>4
  <2> QED BY <2>1, <2>5
<1>7. Least(HardEnd(text, s) - s, cap - 1) = u + 2
  <2>1. HardEnd(text, s) - s = u + 2
    BY <1>2, <1>6
  <2>2. Least(u + 2, cap - 1) = u + 2
    BY <1>2 DEF Least
  <2> QED BY <2>1, <2>2
<1>8. PastNewline(text, s + (u + 2)) = s + u + 3
  <2>1. PICK q : q = s + (u + 2)
    OBVIOUS
  <2>2. q \in 1..L /\ q \in (s + 2 + u)..(s + 1 + u + h) /\ q + 1 = s + u + 3
    BY <1>2, <1>3, <2>1
  <2>3. CharAt(text, q) = "LF"
    BY <1>2, <1>3, <2>2 DEF CharAt
  <2> QED BY <2>1, <2>2, <2>3 DEF PastNewline
<1>9. MarkerRow(text, s, cap) = Row(s, u + 2, s + u + 3)
  BY <1>7, <1>8, Zenon DEF MarkerRow
<1>10. NextRow(text, s, Cols, cap) = MarkerRow(text, s, cap)
  <2>1. CharAt(text, s) # "NUL" /\ CharAt(text, s) # "LF"
    BY <1>4
  <2> QED BY <1>4, <1>5, <2>1 DEF NextRow
<1> QED BY <1>1, <1>9, <1>10

\* One of the empty lines that an image reserves.
LEMMA EmptyRowFacts ==
  ASSUME NEW d, Built(d), NEW o, NEW s, NEW u, NEW h, ImageAt(d, o, s, u, h),
         NEW p \in (s + 3 + u)..(s + 1 + u + h), NEW cap
  PROVE  NextRow(d.text, p, Cols, cap) = Row(p, 0, p + 1)
<1>1. PICK text, L : text = d.text /\ L = Len(d.text)
  OBVIOUS
<1>2. /\ s \in Nat \ {0} /\ u \in Nat /\ h \in 2..9 /\ s + 2 + u + h <= L + 1
      /\ \A q \in (s + 2 + u)..(s + 1 + u + h) : text[q] = "LF"
  BY <1>1 DEF ImageAt
<1>3. L \in Nat /\ Len(text) = L
  BY <1>1 DEF Built, Texts
<1>4. p \in 1..L /\ p \in (s + 2 + u)..(s + 1 + u + h)
  BY <1>2, <1>3
<1>5. CharAt(text, p) = "LF"
  BY <1>2, <1>3, <1>4 DEF CharAt
<1>6. CharAt(text, p) # "NUL"
  BY <1>5
<1> QED BY <1>1, <1>5, <1>6 DEF NextRow

\* Between a character that is not an image's and an image there is a newline.
LEMMA LineBefore ==
  ASSUME NEW d, Built(d), NEW p \in 1..Len(d.text), d.of[p].piece.char # "RS",
         NEW q \in p..Len(d.text), d.of[q].piece.char = "RS"
  PROVE  \E s \in (p + 1)..q : s = d.of[q].start /\ d.text[s - 1] = "LF"
<1>1. Len(d.text) \in Nat /\ q \in 1..Len(d.text)
  BY DEF Built, Texts
<1>2. PICK o : o = d.of[q]
  OBVIOUS
<1>3. PICK s, u, h : ImageAt(d, o, s, u, h) /\ q \in s..(s + 1 + u + h)
  BY <1>1, <1>2, ImageHere
<1>4. /\ s \in Nat \ {0} /\ u \in Nat /\ h \in 2..9 /\ o.start = s
      /\ \A k \in s..(s + 1 + u + h) : d.of[k] = o
      /\ s > 1 => d.text[s - 1] = "LF"
  BY <1>3 DEF ImageAt
<1>5. ~(s <= p)
  <2>1. ASSUME s <= p PROVE FALSE
    <3>1. p \in s..(s + 1 + u + h)
      BY <1>1, <1>3, <1>4, <2>1, SMTT(30)
    <3> QED BY <1>2, <1>4, <3>1
  <2> QED BY <2>1
<1>6. s \in (p + 1)..q /\ s > 1
  BY <1>1, <1>3, <1>4, <1>5
<1> QED BY <1>2, <1>4, <1>6

\* The first character after an image is not part of it.
LEMMA AfterImage ==
  ASSUME NEW d, Built(d), NEW o, NEW s, NEW u, NEW h, ImageAt(d, o, s, u, h),
         NEW q, q = s + 2 + u + h, q <= Len(d.text), d.of[q].piece.char = "RS"
  PROVE  d.of[q].start = q
<1>1. /\ s \in Nat \ {0} /\ u \in Nat /\ h \in 2..9 /\ o.start = s /\ o.piece.url = u
      /\ o.piece.rows = h
      /\ \A k \in s..(s + 1 + u + h) : d.of[k] = o
  BY DEF ImageAt
<1>2. q \in 1..Len(d.text)
  <2>1. Len(d.text) \in Nat
    BY DEF Built, Texts
  <2> QED BY <1>1, <2>1
<1>3. PICK t, v, w : ImageAt(d, d.of[q], t, v, w) /\ q \in t..(t + 1 + v + w)
  BY <1>2, ImageHere
<1>4. /\ t \in Nat \ {0} /\ v \in Nat /\ w \in 2..9 /\ d.of[q].start = t
      /\ d.of[q].piece.url = v /\ d.of[q].piece.rows = w
      /\ \A k \in t..(t + 1 + v + w) : d.of[k] = d.of[q]
  BY <1>3 DEF ImageAt
<1>5. ~(t < q)
  <2>1. ASSUME t < q PROVE FALSE
    <3>1. q - 1 \in t..(t + 1 + v + w) /\ q - 1 \in s..(s + 1 + u + h)
      <4>1. /\ s \in Nat /\ u \in Nat /\ h \in 2..9 /\ q = s + 2 + u + h
            /\ t \in Nat /\ v \in Nat /\ w \in 2..9 /\ q \in t..(t + 1 + v + w) /\ t < q
        BY <1>1, <1>3, <1>4, <2>1
      <4> QED BY <4>1
    <3>2. d.of[q] = o
      BY <1>1, <1>4, <3>1
    <3>3. t = s /\ v = u /\ w = h
      BY <1>1, <1>4, <3>2
    <3> QED BY <1>1, <1>3, <3>3
  <2> QED BY <2>1
<1> QED BY <1>2, <1>3, <1>4, <1>5

\* What a row shows and the box after it, for a row that starts in a box.
RowStep(b, p, r) ==
    /\ Drawn(b, r) = RowOf(doc, r)
    /\ BoxAt(doc, Reserve(b, r), r.next)

\* A row that starts in the box of an image is the next empty line of it.
LEMMA BoxRow ==
  ASSUME Built(doc), NEW p \in 1..(Len(doc.text) + 1), NEW b, b # NoBox, BoxAt(doc, b, p)
  PROVE  RowStep(b, p, NextRow(doc.text, p, Cols, DrawCap))
<1>1. PICK L, o, r : /\ L = Len(doc.text) /\ o = doc.of[p]
                     /\ r = NextRow(doc.text, p, Cols, DrawCap)
  OBVIOUS
<1>2. PICK s, u, h : /\ p <= L /\ ImageAt(doc, o, s, u, h)
                     /\ p \in (s + 3 + u)..(s + 1 + u + h)
                     /\ b = [of |-> s, at |-> p - (s + 2 + u), rows |-> h]
  BY <1>1 DEF BoxAt
<1>3. /\ s \in Nat \ {0} /\ u \in Nat /\ h \in 2..9 /\ L \in Nat
      /\ o.start = s /\ o.piece.url = u /\ o.piece.rows = h /\ o.piece.char = "RS"
      /\ s + 2 + u + h <= L + 1
      /\ \A q \in s..(s + 1 + u + h) : doc.of[q] = o
  <2>1. L \in Nat
    BY <1>1 DEF Built, Texts
  <2> QED BY <1>1, <1>2, <2>1 DEF ImageAt
<1>4. r = Row(p, 0, p + 1)
  BY <1>1, <1>2, EmptyRowFacts
<1>5. r.from = p /\ r.n = 0 /\ r.next = p + 1
  BY <1>4 DEF Row
<1>6. PICK a : a = p - (s + 2 + u)
  OBVIOUS
<1>7. b = [of |-> s, at |-> a, rows |-> h] /\ b.of = s /\ b.at = a /\ b.rows = h /\ a \in Nat
  BY <1>2, <1>3, <1>6
<1>8. Drawn(b, r) = RowOf(doc, r)
  <2>1. Drawn(b, r) = [image |-> TRUE, from |-> s, n |-> a]
    BY <1>7 DEF Drawn
  <2>2. RowOf(doc, r) = [image |-> TRUE, from |-> s,
                         n |-> IF p = s THEN 0 ELSE p - (s + 2 + u)]
    <3>1. ~(r.from > Len(doc.text)) /\ o = doc.of[r.from] /\ ~(o.piece.char # "RS")
      BY <1>1, <1>2, <1>3, <1>5
    <3> QED BY <1>3, <1>5, <3>1 DEF RowOf
  <2>3. p # s
    BY <1>2, <1>3
  <2> QED BY <1>6, <2>1, <2>2, <2>3
<1>9. BoxAt(doc, Reserve(b, r), p + 1)
  <2>1. CASE a + 1 >= h
    <3>1. Reserve(b, r) = NoBox
      BY <1>7, <2>1 DEF Reserve
    <3>2. p + 1 = s + 2 + u + h
      <4>1. /\ s \in Nat /\ u \in Nat /\ h \in 2..9 /\ p \in (s + 3 + u)..(s + 1 + u + h)
            /\ a = p - (s + 2 + u) /\ a + 1 >= h
        BY <1>2, <1>3, <1>6, <2>1
      <4> QED BY <4>1
    <3>3. p + 1 <= Len(doc.text) /\ doc.of[p + 1].piece.char = "RS" =>
            doc.of[p + 1].start = p + 1
      BY <1>2, <3>2, AfterImage
    <3> QED BY <3>1, <3>3 DEF BoxAt
  <2>2. CASE ~(a + 1 >= h)
    <3>1. Reserve(b, r) = [b EXCEPT !.at = b.at + 1]
      BY <1>7, <2>2 DEF Reserve
    <3>2. PICK c : c = a + 1
      OBVIOUS
    <3>3. Reserve(b, r) = [of |-> s, at |-> c, rows |-> h]
      BY <1>7, <3>1, <3>2
    <3>4. p + 1 \in (s + 3 + u)..(s + 1 + u + h) /\ p + 1 <= L /\ c = (p + 1) - (s + 2 + u)
          /\ p + 1 \in s..(s + 1 + u + h)
      <4>1. /\ s \in Nat /\ u \in Nat /\ h \in 2..9 /\ p \in (s + 3 + u)..(s + 1 + u + h)
            /\ a = p - (s + 2 + u) /\ ~(a + 1 >= h) /\ c = a + 1
            /\ L \in Nat /\ s + 2 + u + h <= L + 1
        BY <1>2, <1>3, <1>6, <2>2, <3>2
      <4> QED BY <4>1
    <3>5. doc.of[p + 1] = o
      BY <1>3, <3>4
    <3>6. [of |-> s, at |-> c, rows |-> h] # NoBox
      BY <1>3 DEF NoBox
    <3>7. /\ p + 1 <= Len(doc.text) /\ ImageAt(doc, doc.of[p + 1], s, u, h)
          /\ p + 1 \in (s + 3 + u)..(s + 1 + u + h)
          /\ [of |-> s, at |-> c, rows |-> h]
               = [of |-> s, at |-> (p + 1) - (s + 2 + u), rows |-> h]
      BY <1>1, <1>2, <3>4, <3>5
    <3> QED BY <3>3, <3>6, <3>7 DEF BoxAt
  <2> QED BY <2>1, <2>2
<1>10. RowStep(b, p, r)
  BY <1>5, <1>8, <1>9 DEF RowStep
<1> QED BY <1>1, <1>10

\* A row that starts with a marker opens the box of the image.
LEMMA ImageRow ==
  ASSUME Built(doc), NEW p \in 1..Len(doc.text), doc.of[p].piece.char = "RS",
         BoxAt(doc, NoBox, p)
  PROVE  RowStep(NoBox, p, NextRow(doc.text, p, Cols, DrawCap))
<1>1. PICK L, o, r : /\ L = Len(doc.text) /\ o = doc.of[p]
                     /\ r = NextRow(doc.text, p, Cols, DrawCap)
  OBVIOUS
<1>2. PICK s, u, h : ImageAt(doc, o, s, u, h) /\ p \in s..(s + 1 + u + h)
  BY <1>1, ImageHere
<1>3. /\ s \in Nat \ {0} /\ u \in Nat /\ h \in 2..9 /\ L \in Nat /\ u + 2 < DrawCap
      /\ o.start = s /\ o.piece.url = u /\ o.piece.rows = h /\ o.piece.char = "RS"
      /\ s + 2 + u + h <= L + 1
      /\ doc.text[s] = "RS" /\ doc.text[s + 1] = Digits[h]
      /\ \A q \in s..(s + 1 + u + h) : doc.of[q] = o
  <2>1. L \in Nat
    BY <1>1 DEF Built, Texts
  <2> QED BY <1>1, <1>2, <2>1 DEF ImageAt
<1>4. p = s
  <2>1. p <= Len(doc.text)
    BY <1>1, <1>3
  <2> QED BY <1>1, <1>3, <2>1 DEF BoxAt
<1>5. r = Row(s, u + 2, s + u + 3)
  <2>1. DrawCap \in Nat /\ u + 2 < DrawCap /\ ImageAt(doc, o, s, u, h)
    BY <1>2, <1>3, ViewAssumption
  <2>2. NextRow(doc.text, s, Cols, DrawCap) = Row(s, u + 2, s + u + 3)
    BY <2>1, MarkerRowFacts
  <2> QED BY <1>1, <1>4, <2>2
<1>6. r.more = TRUE /\ r.from = s /\ r.n = u + 2 /\ r.next = s + u + 3
  BY <1>5 DEF Row
<1>7. IsMarker(r)
  BY <1>3, <1>6 DEF IsMarker, Text
<1>8. MarkerHeight(r) = h
  <2>1. Text[r.from + 1] = Digits[h]
    BY <1>3, <1>6 DEF Text
  <2>2. (CHOOSE k \in DOMAIN Digits : Digits[k] = Digits[h]) = h
    BY <1>3, DigitFacts
  <2>3. PICK g : g = CHOOSE k \in DOMAIN Digits : Digits[k] = Text[r.from + 1]
    OBVIOUS
  <2>4. g = h
    BY <2>1, <2>2, <2>3
  <2>5. MarkerHeight(r) = IF g < 2 THEN 2 ELSE g
    BY <2>3 DEF MarkerHeight
  <2> QED BY <1>3, <2>4, <2>5, SMTT(30)
<1>9. Drawn(NoBox, r) = RowOf(doc, r)
  <2>1. Drawn(NoBox, r) = [image |-> TRUE, from |-> s, n |-> 0]
    BY <1>6, <1>7 DEF Drawn
  <2>2. ~(r.from > Len(doc.text)) /\ o = doc.of[r.from] /\ ~(o.piece.char # "RS")
    BY <1>1, <1>3, <1>4, <1>6
  <2>3. RowOf(doc, r) = [image |-> TRUE, from |-> s, n |-> 0]
    BY <1>3, <1>6, <2>2 DEF RowOf
  <2> QED BY <2>1, <2>3
<1>10. Reserve(NoBox, r) = [of |-> s, at |-> 1, rows |-> h]
  BY <1>6, <1>7, <1>8 DEF Reserve
<1>11. PICK q : q = s + u + 3
  OBVIOUS
<1>12. BoxAt(doc, [of |-> s, at |-> 1, rows |-> h], q)
  <2>1. /\ q \in (s + 3 + u)..(s + 1 + u + h) /\ q <= L /\ q - (s + 2 + u) = 1
        /\ q \in s..(s + 1 + u + h)
    <3>1. s \in Nat /\ u \in Nat /\ h \in 2..9 /\ L \in Nat /\ s + 2 + u + h <= L + 1
      BY <1>3
    <3>2. q \in (s + 3 + u)..(s + 1 + u + h)
      BY <1>11, <3>1
    <3>3. q <= L /\ q - (s + 2 + u) = 1
      BY <1>11, <3>1
    <3>4. q \in s..(s + 1 + u + h)
      BY <3>1, <3>2
    <3> QED BY <3>2, <3>3, <3>4
  <2>2. doc.of[q] = o
    BY <1>3, <2>1
  <2>3. [of |-> s, at |-> 1, rows |-> h] # NoBox
    BY <1>3 DEF NoBox
  <2>4. /\ q <= Len(doc.text) /\ ImageAt(doc, doc.of[q], s, u, h)
        /\ q \in (s + 3 + u)..(s + 1 + u + h)
        /\ [of |-> s, at |-> 1, rows |-> h] = [of |-> s, at |-> q - (s + 2 + u), rows |-> h]
    BY <1>1, <1>2, <2>1, <2>2
  <2> QED BY <2>3, <2>4 DEF BoxAt
<1>13. RowStep(NoBox, p, r)
  BY <1>6, <1>9, <1>10, <1>11, <1>12 DEF RowStep
<1> QED BY <1>1, <1>13

\* A row of text does not begin in an image, and does not end in the middle of one.
LEMMA TextRow ==
  ASSUME Built(doc), NEW p \in 1..Len(doc.text), doc.of[p].piece.char # "RS",
         NEW cap \in Nat, cap >= 2
  PROVE  LET r == NextRow(doc.text, p, Cols, cap)
         IN  /\ RowFrom(doc.text, p, r)
             /\ r.from <= Len(doc.text) => doc.of[r.from].piece.char # "RS"
             /\ ~IsMarker(r)
             /\ BoxAt(doc, NoBox, r.next)
<1>1. PICK L, text, r : /\ L = Len(doc.text) /\ text = doc.text
                        /\ r = NextRow(doc.text, p, Cols, cap)
  OBVIOUS
<1>2. text \in Texts /\ L \in Nat /\ Len(text) = L /\ p \in 1..L /\ p \in 1..(Len(text) + 1)
  <2>1. text \in Texts /\ Len(text) = L
    BY <1>1 DEF Built
  <2>2. L \in Nat
    BY <2>1 DEF Texts
  <2> QED BY <1>1, <2>1, <2>2
<1>3. CharAt(text, p) # "NUL"
  <2>1. text[p] # "NUL"
    BY <1>1, PlainHere
  <2> QED BY <1>2, <2>1 DEF CharAt
<1>4. RowFrom(text, p, r)
  <2>1. Cols \in Nat \ {0}
    BY ViewAssumption
  <2> QED BY <1>1, <1>2, <1>3, <2>1, NextRowFacts
<1>5. /\ r.from \in p..(L + 1) /\ r.n \in Nat
      /\ r.next \in (p + 1)..(L + 1) /\ r.from + r.n <= r.next
      /\ \A k \in p..(r.from - 1) : text[k] = "SP"
      /\ \A k \in p..(r.next - 2) : text[k] # "LF"
  BY <1>2, <1>4 DEF RowFrom
<1>6. ASSUME r.from <= L, doc.of[r.from].piece.char = "RS" PROVE FALSE
  <2>1. r.from \in p..Len(doc.text)
    BY <1>1, <1>2, <1>5, <1>6
  <2>2. PICK s \in (p + 1)..r.from : doc.text[s - 1] = "LF"
    BY <1>6, <2>1, LineBefore
  <2>3. s - 1 \in p..(r.from - 1)
    BY <1>2, <1>5
  <2> QED BY <1>1, <1>5, <2>2, <2>3
<1>7. ~IsMarker(r)
  <2>1. ASSUME r.n > 0, text[r.from] = "RS" PROVE FALSE
    <3>1. r.from \in 1..L /\ r.from <= L
      BY <1>2, <1>5, <2>1
    <3>2. r.from \in 1..Len(doc.text) /\ doc.text[r.from] = "RS"
      BY <1>1, <2>1, <3>1
    <3> QED BY <1>6, <3>1, <3>2, PlainHere
  <2> QED BY <1>1, <2>1 DEF IsMarker, Text
<1>8. ASSUME r.next <= L, doc.of[r.next].piece.char = "RS" PROVE doc.of[r.next].start = r.next
  <2>1. r.next \in p..Len(doc.text)
    BY <1>1, <1>2, <1>5, <1>8
  <2>2. PICK s \in (p + 1)..r.next : s = doc.of[r.next].start /\ doc.text[s - 1] = "LF"
    BY <1>8, <2>1, LineBefore
  <2>3. ~(s < r.next)
    <3>1. s < r.next => s - 1 \in p..(r.next - 2)
      BY <1>2, <1>5
    <3> QED BY <1>1, <1>5, <2>2, <3>1
  <2>4. s = r.next
    BY <1>2, <1>5, <2>3
  <2> QED BY <2>2, <2>4
<1>9. BoxAt(doc, NoBox, r.next)
  BY <1>1, <1>8 DEF BoxAt
<1> QED BY <1>1, <1>4, <1>6, <1>7, <1>9

\* A row of text is drawn as text and leaves no box.
LEMMA PlainRow ==
  ASSUME Built(doc), NEW p \in 1..Len(doc.text), doc.of[p].piece.char # "RS"
  PROVE  RowStep(NoBox, p, NextRow(doc.text, p, Cols, DrawCap))
<1>1. PICK r : r = NextRow(doc.text, p, Cols, DrawCap)
  OBVIOUS
<1>2. DrawCap \in Nat /\ DrawCap >= 2
  BY ViewAssumption
<1>3. /\ r.from <= Len(doc.text) => doc.of[r.from].piece.char # "RS"
      /\ ~IsMarker(r) /\ BoxAt(doc, NoBox, r.next) /\ RowFrom(doc.text, p, r)
  BY <1>1, <1>2, TextRow
<1>4. Len(doc.text) \in Nat /\ r.from \in Int
  BY <1>3 DEF RowFrom, Built, Texts
<1>5. Reserve(NoBox, r) = NoBox
  BY <1>3 DEF Reserve
<1>6. Drawn(NoBox, r) = [image |-> FALSE, from |-> r.from, n |-> r.n]
  BY <1>3 DEF Drawn
<1>7. RowOf(doc, r) = [image |-> FALSE, from |-> r.from, n |-> r.n]
  <2>1. CASE r.from > Len(doc.text)
    BY <2>1 DEF RowOf
  <2>2. CASE ~(r.from > Len(doc.text))
    <3>1. doc.of[r.from].piece.char # "RS"
      BY <1>3, <1>4, <2>2
    <3> QED BY <2>2, <3>1 DEF RowOf
  <2> QED BY <2>1, <2>2
<1>8. RowStep(NoBox, p, r)
  BY <1>3, <1>5, <1>6, <1>7 DEF RowStep
<1> QED BY <1>1, <1>8

\* Every row is drawn as what it is, and the box knows where the next one starts.
LEMMA RowDrawn ==
  ASSUME Built(doc), NEW p \in 1..Len(doc.text), NEW b, BoxAt(doc, b, p)
  PROVE  RowStep(b, p, NextRow(doc.text, p, Cols, DrawCap))
<1>1. CASE b # NoBox
  <2>1. p \in 1..(Len(doc.text) + 1)
    BY DEF Built, Texts
  <2> QED BY <1>1, <2>1, BoxRow
<1>2. CASE b = NoBox /\ doc.of[p].piece.char = "RS"
  BY <1>2, ImageRow
<1>3. CASE b = NoBox /\ doc.of[p].piece.char # "RS"
  BY <1>3, PlainRow
<1> QED BY <1>1, <1>2, <1>3

-----------------------------------------------------------------------------
(***************************************************************************)
(* The rows of a page, from any of its positions.                          *)
(***************************************************************************)
\* What is drawn of a row.
Shown == [image : BOOLEAN, from : Int, n : Int]

\* The rows from q on, where f tells those from later positions on.
Further(f, d, q) ==
    LET r == NextRow(d.text, q, Cols, DrawCap)
    IN  IF r.more THEN <<RowOf(d, r)>> \o f[r.next] ELSE <<>>

\* f is RowsFrom for the last m + 1 positions.
LastRows(f, d, m) ==
    f = [q \in (Len(d.text) + 1 - m)..(Len(d.text) + 1) |-> Further(f, d, q)]

\* f is the function that RowsFrom chooses.
AllRows(f, d) ==
    f = [q \in 1..(Len(d.text) + 1) |->
            LET r == NextRow(d.text, q, Cols, DrawCap)
            IN  IF r.more THEN <<RowOf(d, r)>> \o f[r.next] ELSE <<>>]

\* The next row of a page begins further on, unless the page ends here.
LEMMA RowOfPage ==
  ASSUME NEW d, Built(d), NEW p \in 1..(Len(d.text) + 1)
  PROVE  LET r == NextRow(d.text, p, Cols, DrawCap)
         IN  /\ p <= Len(d.text) => r.more = TRUE
             /\ ~(p <= Len(d.text)) => r.more = FALSE
             /\ p <= Len(d.text) => RowFrom(d.text, p, r)
             /\ p <= Len(d.text) => r.next \in (p + 1)..(Len(d.text) + 1)
             /\ p <= Len(d.text) => RowOf(d, r) \in Shown
<1>1. PICK text, L, r : /\ text = d.text /\ L = Len(d.text)
                        /\ r = NextRow(d.text, p, Cols, DrawCap)
  OBVIOUS
<1>2. text \in Texts /\ L \in Nat /\ Len(text) = L /\ p \in 1..(L + 1)
  <2>1. text \in Texts /\ Len(text) = L
    BY <1>1 DEF Built
  <2>2. L \in Nat
    BY <2>1 DEF Texts
  <2> QED BY <1>1, <2>1, <2>2
<1>3. CharAt(text, p) # "NUL" <=> p <= L
  <2>1. CASE p <= L
    <3>1. p \in 1..Len(d.text) /\ CharAt(text, p) = text[p]
      BY <1>1, <1>2, <2>1 DEF CharAt
    <3> QED BY <1>1, <2>1, <3>1, PlainHere
  <2>2. CASE ~(p <= L)
    BY <1>2, <2>2 DEF CharAt
  <2> QED BY <2>1, <2>2
<1>4. r.more = (CharAt(text, p) # "NUL") /\ (CharAt(text, p) # "NUL" => RowFrom(text, p, r))
  <2>1. Cols \in Nat \ {0} /\ DrawCap \in Nat /\ DrawCap >= 2 /\ p \in 1..(Len(text) + 1)
    BY <1>2, ViewAssumption
  <2> QED BY <1>1, <1>2, <2>1, NextRowFacts
<1>5. ASSUME p <= L PROVE r.next \in (p + 1)..(L + 1) /\ RowOf(d, r) \in Shown
  <2>1. /\ r.from \in p..(L + 1) /\ r.n \in Nat /\ r.next \in (p + 1)..(L + 1)
    BY <1>2, <1>3, <1>4, <1>5 DEF RowFrom
  <2>2. CASE r.from > L \/ d.of[r.from].piece.char # "RS"
    <3>1. RowOf(d, r) = [image |-> FALSE, from |-> r.from, n |-> r.n]
      BY <1>1, <2>2, Zenon DEF RowOf
    <3> QED BY <1>2, <2>1, <3>1 DEF Shown
  <2>3. CASE ~(r.from > L) /\ d.of[r.from].piece.char = "RS"
    <3>1. PICK o : o = d.of[r.from]
      OBVIOUS
    <3>2. o \in Origin
      <4>1. d.of \in Seq(Origin) /\ r.from \in 1..Len(d.of)
        BY <1>1, <1>2, <2>1, <2>3 DEF Built
      <4> QED BY <3>1, <4>1, ElementOfSeq
    <3>3. PICK n : n = IF r.from = o.start THEN 0 ELSE r.from - (o.start + 2 + o.piece.url)
      OBVIOUS
    <3>4. n \in Int /\ o.start \in Int
      <4>1. o.start \in Nat /\ o.piece.url \in Nat
        BY <3>2 DEF Origin, Proper, PageItem
      <4> QED BY <1>2, <2>1, <3>3, <4>1
    <3>5. RowOf(d, r) = [image |-> TRUE, from |-> o.start, n |-> n]
      BY <1>1, <2>3, <3>1, <3>3, Zenon DEF RowOf
    <3>6. RowOf(d, r) \in Shown
      BY <3>4, <3>5 DEF Shown
    <3> QED BY <2>1, <3>6
  <2> QED BY <2>1, <2>2, <2>3
<1>6. (p <= L => r.more = TRUE) /\ (~(p <= L) => r.more = FALSE)
  <2>1. CASE p <= L
    BY <1>3, <1>4, <2>1
  <2>2. CASE ~(p <= L)
    BY <1>3, <1>4, <2>2
  <2> QED BY <2>1, <2>2
<1> QED BY <1>1, <1>3, <1>4, <1>5, <1>6

\* The function that RowsFrom defines exists, from the end of the text backwards.
LEMMA LastRowsExist ==
  ASSUME NEW d, Built(d), NEW m \in Nat, m <= Len(d.text)
  PROVE  \E f : LastRows(f, d, m)
<1>1. PICK L : L = Len(d.text)
  OBVIOUS
<1>2. L \in Nat
  BY <1>1 DEF Built, Texts
<1> DEFINE S == {k \in Nat : k <= L => \E f : LastRows(f, d, k)}
<1>3. 0 \in S
  <2> DEFINE g == [q \in (L + 1 - 0)..(L + 1) |-> <<>>]
             e == [q \in (L + 1 - 0)..(L + 1) |-> Further(g, d, q)]
  <2>1. ASSUME NEW q \in (L + 1 - 0)..(L + 1) PROVE Further(g, d, q) = <<>>
    <3>1. q \in 1..(Len(d.text) + 1) /\ ~(q <= Len(d.text))
      BY <1>1, <1>2
    <3>2. NextRow(d.text, q, Cols, DrawCap).more = FALSE
      BY <3>1, RowOfPage
    <3> HIDE DEF g
    <3> QED BY <3>2 DEF Further
  <2>2. g = e
    BY <2>1
  <2>3. LastRows(g, d, 0)
    BY <1>1, <2>2 DEF LastRows
  <2> QED BY <2>3
<1>4. ASSUME NEW k \in Nat, k \in S, k + 1 <= L PROVE k + 1 \in S
  <2>1. PICK f : LastRows(f, d, k)
    BY <1>2, <1>4
  <2>2. PICK j : j = L - k
    OBVIOUS
  <2>3. j \in 1..L /\ L + 1 - k = j + 1 /\ L + 1 - (k + 1) = j
    BY <1>2, <1>4, <2>2
  <2>4. f = [q \in (j + 1)..(L + 1) |-> Further(f, d, q)]
    BY <1>1, <2>1, <2>3 DEF LastRows
  <2>5. PICK x : x = Further(f, d, j)
    OBVIOUS
  <2> DEFINE g == [q \in j..(L + 1) |-> IF q = j THEN x ELSE f[q]]
             e == [q \in j..(L + 1) |-> Further(g, d, q)]
  <2>6. ASSUME NEW q \in j..(L + 1) PROVE g[q] = Further(g, d, q)
    <3>1. Further(g, d, q) = Further(f, d, q)
      <4>1. PICK r : r = NextRow(d.text, q, Cols, DrawCap)
        OBVIOUS
      <4>2. q \in 1..(Len(d.text) + 1)
        BY <1>1, <1>2, <2>3
      <4>3. CASE q <= L
        <5>1. r.next \in (q + 1)..(L + 1)
          BY <1>1, <4>1, <4>2, <4>3, RowOfPage
        <5>2. r.next \in j..(L + 1) /\ r.next # j
          BY <1>2, <2>3, <4>3, <5>1
        <5>3. g[r.next] = f[r.next]
          BY <5>2
        <5> HIDE DEF g
        <5> QED BY <4>1, <5>3 DEF Further
      <4>4. CASE ~(q <= L)
        <5>1. r.more = FALSE
          BY <1>1, <4>1, <4>2, <4>4, RowOfPage
        <5> HIDE DEF g
        <5> QED BY <4>1, <5>1 DEF Further
      <4> QED BY <4>3, <4>4
    <3>2. CASE q = j
      BY <2>5, <3>1, <3>2
    <3>3. CASE q # j
      <4>1. q \in (j + 1)..(L + 1)
        BY <1>2, <2>3, <3>3
      <4>2. f[q] = Further(f, d, q)
        BY <2>4, <4>1
      <4> QED BY <3>1, <3>3, <4>2
    <3> QED BY <3>2, <3>3
  <2>7. g = e
    <3>1. \A q \in j..(L + 1) : g[q] = e[q]
      BY <2>6
    <3>2. g = [q \in j..(L + 1) |-> g[q]] /\ e = [q \in j..(L + 1) |-> e[q]]
      OBVIOUS
    <3> HIDE DEF g, e
    <3> QED BY <3>1, <3>2
  <2>8. LastRows(g, d, k + 1)
    BY <1>1, <2>3, <2>7 DEF LastRows
  <2> QED BY <2>8
<1>5. \A k \in Nat : k \in S => k + 1 \in S
  <2>1. \A k \in Nat : k \in S /\ ~(k + 1 <= L) => k + 1 \in S
    OBVIOUS
  <2> HIDE DEF S
  <2> QED BY <1>4, <2>1
<1>6. m \in S
  <2> HIDE DEF S
  <2> QED BY <1>3, <1>5, Adding!NatSetInduction
<1> QED BY <1>1, <1>6

\* RowsFrom is what it says.
LEMMA RowsUnfold ==
  ASSUME NEW d, Built(d), NEW p \in 1..(Len(d.text) + 1)
  PROVE  LET r == NextRow(d.text, p, Cols, DrawCap)
         IN  RowsFrom(d, p) = IF p <= Len(d.text)
                              THEN <<RowOf(d, r)>> \o RowsFrom(d, r.next) ELSE <<>>
<1>1. PICK L : L = Len(d.text)
  OBVIOUS
<1>2. L \in Nat
  BY <1>1 DEF Built, Texts
<1> DEFINE c == CHOOSE f : AllRows(f, d)
<1>3. AllRows(c, d)
  <2>1. PICK f : LastRows(f, d, L)
    BY <1>1, <1>2, LastRowsExist
  <2>2. Len(d.text) + 1 - L = 1
    BY <1>1, <1>2
  <2>3. f = [q \in 1..(Len(d.text) + 1) |-> Further(f, d, q)]
    BY <2>1, <2>2 DEF LastRows
  <2>4. AllRows(f, d)
    BY <2>3 DEF AllRows, Further
  <2> QED BY <2>4
<1>4. \A q : RowsFrom(d, q) = c[q]
  BY DEF RowsFrom, AllRows
<1> HIDE DEF c
<1>5. PICK r : r = NextRow(d.text, p, Cols, DrawCap)
  OBVIOUS
<1>6. c[p] = IF r.more THEN <<RowOf(d, r)>> \o c[r.next] ELSE <<>>
  BY <1>3, <1>5 DEF AllRows
<1>7. (p <= Len(d.text) => r.more = TRUE) /\ (~(p <= Len(d.text)) => r.more = FALSE)
  BY <1>5, RowOfPage
<1> QED BY <1>4, <1>5, <1>6, <1>7

\* The rows of a page are a sequence of rows.
LEMMA RowsTyped ==
  ASSUME NEW d, Built(d), NEW p \in 1..(Len(d.text) + 1)
  PROVE  RowsFrom(d, p) \in Seq(Shown)
<1>1. PICK L : L = Len(d.text)
  OBVIOUS
<1>2. L \in Nat
  BY <1>1 DEF Built, Texts
<1> DEFINE S == {m \in Nat : \A q \in 1..(L + 1) :
                                q >= L + 1 - m => RowsFrom(d, q) \in Seq(Shown)}
<1>3. ASSUME NEW q \in 1..(L + 1),
             \A k \in 1..(L + 1) : k > q => RowsFrom(d, k) \in Seq(Shown)
      PROVE  RowsFrom(d, q) \in Seq(Shown)
  <2>1. PICK r : r = NextRow(d.text, q, Cols, DrawCap)
    OBVIOUS
  <2>2. RowsFrom(d, q) = IF q <= L THEN <<RowOf(d, r)>> \o RowsFrom(d, r.next) ELSE <<>>
    BY <1>1, <2>1, RowsUnfold
  <2>3. CASE q <= L
    <3>1. r.next \in (q + 1)..(L + 1) /\ RowOf(d, r) \in Shown
      BY <1>1, <2>1, <2>3, RowOfPage
    <3>2. RowsFrom(d, r.next) \in Seq(Shown)
      <4>1. r.next \in 1..(L + 1) /\ r.next > q
        BY <1>2, <3>1
      <4> QED BY <1>3, <4>1
    <3>3. <<RowOf(d, r)>> \in Seq(Shown)
      BY <3>1
    <3>4. <<RowOf(d, r)>> \o RowsFrom(d, r.next) \in Seq(Shown)
      BY <3>2, <3>3, ConcatProperties
    <3> QED BY <2>2, <2>3, <3>4
  <2>4. CASE ~(q <= L)
    BY <2>2, <2>4, EmptySeq
  <2> QED BY <2>3, <2>4
<1>4. 0 \in S
  <2>1. ASSUME NEW q \in 1..(L + 1), q >= L + 1 - 0 PROVE RowsFrom(d, q) \in Seq(Shown)
    <3>1. \A k \in 1..(L + 1) : ~(k > q)
      BY <1>2, <2>1
    <3> QED BY <1>3, <3>1
  <2> QED BY <2>1
<1>5. ASSUME NEW m \in Nat, m \in S PROVE m + 1 \in S
  <2>1. ASSUME NEW q \in 1..(L + 1), q >= L + 1 - (m + 1) PROVE RowsFrom(d, q) \in Seq(Shown)
    <3>1. ASSUME NEW k \in 1..(L + 1), k > q PROVE RowsFrom(d, k) \in Seq(Shown)
      <4>1. k >= L + 1 - m
        BY <1>2, <2>1, <3>1
      <4> QED BY <1>5, <4>1
    <3> QED BY <1>3, <3>1
  <2> QED BY <2>1
<1>6. L \in S
  <2>1. \A m \in Nat : m \in S
    <3> HIDE DEF S
    <3>1. \A m \in Nat : m \in S => m + 1 \in S
      BY <1>5
    <3> HIDE DEF S
    <3> QED BY <1>4, <3>1, Adding!NatSetInduction
  <2> HIDE DEF S
  <2> QED BY <1>2, <2>1
<1>7. p \in 1..(L + 1) /\ p >= L + 1 - L
  BY <1>1, <1>2
<1> QED BY <1>6, <1>7

\* The page is rows that are above the screen, those of scr, and those from p on.
PagePart(d, above, scr, p) ==
    \E pre \in Seq(Shown) :
        /\ Len(pre) = above
        /\ RowsFrom(d, 1) = (pre \o scr) \o RowsFrom(d, p)

\* scr is what a window shows that is scrolled by above rows.
Slice(d, above, scr) ==
    scr = SubSeq(RowsFrom(d, 1), above + 1, Least(Len(RowsFrom(d, 1)), above + MaxRows))

\* Before the first row nothing is above the screen and nothing on it.
LEMMA NothingPassed ==
  ASSUME NEW d, Built(d)
  PROVE  PagePart(d, 0, <<>>, 1)
<1>1. 1 \in 1..(Len(d.text) + 1)
  BY DEF Built, Texts
<1>2. PICK R : R = RowsFrom(d, 1)
  OBVIOUS
<1>3. R \in Seq(Shown) /\ <<>> \in Seq(Shown) /\ Len(<<>>) = 0
  BY <1>1, <1>2, RowsTyped, EmptySeq
<1>4. <<>> \o <<>> = <<>> /\ <<>> \o R = R
  BY <1>3, ConcatEmptySeq
<1>5. R = (<<>> \o <<>>) \o R
  BY <1>4
<1> QED BY <1>2, <1>3, <1>5 DEF PagePart

\* Rows may be put together in any order.
LEMMA InAnyOrder ==
  ASSUME NEW a \in Seq(Shown), NEW b \in Seq(Shown), NEW c \in Seq(Shown)
  PROVE  (a \o b) \o c = a \o (b \o c)
BY ConcatAssociative

\* A row that is drawn goes from those to come to those on the screen.
LEMMA PartDrawn ==
  ASSUME NEW d, Built(d), NEW p \in 1..Len(d.text), NEW above, NEW scr \in Seq(Shown),
         PagePart(d, above, scr, p)
  PROVE  LET r == NextRow(d.text, p, Cols, DrawCap)
         IN  /\ Append(scr, RowOf(d, r)) \in Seq(Shown)
             /\ PagePart(d, above, Append(scr, RowOf(d, r)), r.next)
<1>1. p \in 1..(Len(d.text) + 1) /\ p <= Len(d.text) /\ Len(d.text) \in Nat
  BY DEF Built, Texts
<1>2. PICK r, x, q : /\ r = NextRow(d.text, p, Cols, DrawCap) /\ x = RowOf(d, r)
                     /\ q = r.next
  OBVIOUS
<1>3. x \in Shown /\ q \in 1..(Len(d.text) + 1)
  <2>1. x \in Shown /\ q \in (p + 1)..(Len(d.text) + 1)
    BY <1>1, <1>2, RowOfPage
  <2> QED BY <1>1, <2>1
<1>4. PICK R : R = RowsFrom(d, q)
  OBVIOUS
<1>5. R \in Seq(Shown) /\ <<x>> \in Seq(Shown)
  BY <1>3, <1>4, RowsTyped
<1>6. RowsFrom(d, p) = <<x>> \o R
  BY <1>1, <1>2, <1>4, RowsUnfold
<1>7. PICK pre \in Seq(Shown) :
         Len(pre) = above /\ RowsFrom(d, 1) = (pre \o scr) \o (<<x>> \o R)
  BY <1>6 DEF PagePart
<1>8. pre \o scr \in Seq(Shown)
  BY ConcatProperties
<1>9. (pre \o scr) \o (<<x>> \o R) = ((pre \o scr) \o <<x>>) \o R
  <2>1. PICK w, v : w = pre \o scr /\ v = <<x>>
    OBVIOUS
  <2>2. (w \o v) \o R = w \o (v \o R)
    BY <1>5, <1>8, <2>1, InAnyOrder
  <2> QED BY <2>1, <2>2
<1>10. (pre \o scr) \o <<x>> = pre \o (scr \o <<x>>)
  <2>1. PICK v : v = <<x>>
    OBVIOUS
  <2>2. (pre \o scr) \o v = pre \o (scr \o v)
    BY <1>5, <2>1, InAnyOrder
  <2> QED BY <2>1, <2>2
<1>11. Append(scr, x) = scr \o <<x>> /\ Append(scr, x) \in Seq(Shown)
  BY <1>3, AppendIsConcat, AppendProperties
<1>12. RowsFrom(d, 1) = (pre \o Append(scr, x)) \o RowsFrom(d, q)
  BY <1>4, <1>7, <1>9, <1>10, <1>11
<1>13. PagePart(d, above, Append(scr, x), q)
  BY <1>7, <1>12 DEF PagePart
<1> QED BY <1>2, <1>11, <1>13

\* A row that is scrolled away goes above the screen.
LEMMA PartPassed ==
  ASSUME NEW d, Built(d), NEW p \in 1..Len(d.text), NEW above \in Nat,
         PagePart(d, above, <<>>, p)
  PROVE  PagePart(d, above + 1, <<>>, NextRow(d.text, p, Cols, DrawCap).next)
<1>1. p \in 1..(Len(d.text) + 1) /\ p <= Len(d.text) /\ Len(d.text) \in Nat
  BY DEF Built, Texts
<1>2. PICK r, x, q : /\ r = NextRow(d.text, p, Cols, DrawCap) /\ x = RowOf(d, r)
                     /\ q = r.next
  OBVIOUS
<1>3. x \in Shown /\ q \in 1..(Len(d.text) + 1)
  <2>1. x \in Shown /\ q \in (p + 1)..(Len(d.text) + 1)
    BY <1>1, <1>2, RowOfPage
  <2> QED BY <1>1, <2>1
<1>4. PICK R : R = RowsFrom(d, q)
  OBVIOUS
<1>5. R \in Seq(Shown) /\ <<x>> \in Seq(Shown)
  BY <1>3, <1>4, RowsTyped
<1>6. RowsFrom(d, p) = <<x>> \o R
  BY <1>1, <1>2, <1>4, RowsUnfold
<1>7. PICK pre \in Seq(Shown) :
         Len(pre) = above /\ RowsFrom(d, 1) = (pre \o <<>>) \o (<<x>> \o R)
  BY <1>6 DEF PagePart
<1>8. pre \o <<>> = pre
  BY ConcatEmptySeq
<1>9. pre \o (<<x>> \o R) = (pre \o <<x>>) \o R
  <2>1. PICK v : v = <<x>>
    OBVIOUS
  <2>2. (pre \o v) \o R = pre \o (v \o R)
    BY <1>5, <2>1, InAnyOrder
  <2> QED BY <2>1, <2>2
<1>10. PICK longer : longer = Append(pre, x)
  OBVIOUS
<1>11. longer = pre \o <<x>> /\ longer \in Seq(Shown) /\ Len(longer) = above + 1
  BY <1>3, <1>7, <1>10, AppendIsConcat, AppendProperties
<1>12. longer \o <<>> = longer
  BY <1>11, ConcatEmptySeq
<1>13. RowsFrom(d, 1) = (longer \o <<>>) \o RowsFrom(d, q)
  BY <1>4, <1>7, <1>8, <1>9, <1>11, <1>12
<1>14. PagePart(d, above + 1, <<>>, q)
  BY <1>11, <1>13 DEF PagePart
<1> QED BY <1>2, <1>14

\* How many rows the page has, and the rows of the screen among them.
LEMMA RowPartFacts ==
  ASSUME NEW d, Built(d), NEW p \in 1..(Len(d.text) + 1), NEW above \in Nat,
         NEW scr \in Seq(Shown), PagePart(d, above, scr, p)
  PROVE  /\ Len(RowsFrom(d, 1)) = above + Len(scr) + Len(RowsFrom(d, p))
         /\ \A i \in 1..Len(scr) : RowsFrom(d, 1)[above + i] = scr[i]
         /\ Len(scr) \in Nat /\ Len(RowsFrom(d, p)) \in Nat /\ RowsFrom(d, 1) \in Seq(Shown)
         /\ Len(RowsFrom(d, p)) > 0 =>
                RowsFrom(d, 1)[above + Len(scr) + 1] = RowsFrom(d, p)[1]
<1>1. PICK R, T : R = RowsFrom(d, p) /\ T = RowsFrom(d, 1)
  OBVIOUS
<1>2. 1 \in 1..(Len(d.text) + 1)
  BY DEF Built, Texts
<1>3. R \in Seq(Shown) /\ T \in Seq(Shown)
  BY <1>1, <1>2, RowsTyped
<1>4. PICK pre \in Seq(Shown) : Len(pre) = above /\ T = (pre \o scr) \o R
  BY <1>1 DEF PagePart
<1>5. PICK w : w = pre \o scr
  OBVIOUS
<1>6. /\ w \in Seq(Shown) /\ Len(w) = Len(pre) + Len(scr) /\ Len(scr) \in Nat
      /\ \A i \in 1..Len(scr) : w[Len(pre) + i] = scr[i]
  BY <1>5, CatFacts
<1>7. /\ Len(T) = Len(w) + Len(R) /\ Len(R) \in Nat
      /\ \A i \in 1..Len(w) : T[i] = w[i]
      /\ \A i \in 1..Len(R) : T[Len(w) + i] = R[i]
  <2>1. T = w \o R
    BY <1>4, <1>5
  <2>2. /\ Len(w \o R) = Len(w) + Len(R) /\ Len(R) \in Nat
        /\ \A i \in 1..Len(w) : (w \o R)[i] = w[i]
        /\ \A i \in 1..Len(R) : (w \o R)[Len(w) + i] = R[i]
    <3>1. w \in Seq(Shown) /\ R \in Seq(Shown)
      BY <1>3, <1>6
    <3> QED BY <3>1, CatFacts
  <2> QED BY <2>1, <2>2
<1>8. ASSUME NEW i \in 1..Len(scr) PROVE T[above + i] = scr[i]
  <2>1. above + i \in 1..Len(w)
    BY <1>4, <1>6
  <2>2. w[above + i] = scr[i]
    BY <1>4, <1>6
  <2> QED BY <1>7, <2>1, <2>2
<1>9. ASSUME Len(R) > 0 PROVE T[above + Len(scr) + 1] = R[1]
  <2>1. 1 \in 1..Len(R)
    BY <1>7, <1>9
  <2>2. T[Len(w) + 1] = R[1]
    BY <1>7, <2>1
  <2> QED BY <1>4, <1>6, <2>2
<1>10. Len(T) = above + Len(scr) + Len(R)
  BY <1>4, <1>6, <1>7
<1> QED BY <1>1, <1>3, <1>6, <1>7, <1>8, <1>9, <1>10

\* The row after those of the screen.
LEMMA FirstBelow ==
  ASSUME NEW d, Built(d), NEW p \in 1..(Len(d.text) + 1), NEW above \in Nat,
         NEW scr \in Seq(Shown), PagePart(d, above, scr, p), Len(RowsFrom(d, p)) > 0
  PROVE  RowsFrom(d, 1)[above + Len(scr) + 1] = RowsFrom(d, p)[1]
<1>1. PICK R, T : R = RowsFrom(d, p) /\ T = RowsFrom(d, 1)
  OBVIOUS
<1>2. PICK pre \in Seq(Shown) : Len(pre) = above /\ T = (pre \o scr) \o R
  BY <1>1 DEF PagePart
<1>3. R \in Seq(Shown)
  BY <1>1, RowsTyped
<1>4. PICK w : w = pre \o scr
  OBVIOUS
<1>5. w \in Seq(Shown) /\ Len(w) = above + Len(scr)
  BY <1>2, <1>4, CatFacts
<1>6. 1 \in 1..Len(R)
  BY <1>1, <1>3
<1>7. (w \o R)[Len(w) + 1] = R[1]
  BY <1>3, <1>5, <1>6, CatFacts
<1> QED BY <1>1, <1>2, <1>4, <1>5, <1>7

\* When the window is full, or the page has ended, the screen is the slice.
LEMMA PartSlice ==
  ASSUME NEW d, Built(d), NEW p \in 1..(Len(d.text) + 1), NEW above \in Nat,
         NEW scr \in Seq(Shown), PagePart(d, above, scr, p),
         Len(scr) = MaxRows \/ (Len(scr) <= MaxRows /\ ~(p <= Len(d.text)))
  PROVE  Slice(d, above, scr)
<1>1. PICK T, k, n : T = RowsFrom(d, 1) /\ k = Len(RowsFrom(d, p)) /\ n = Len(scr)
  OBVIOUS
<1>2. /\ Len(T) = above + n + k /\ T \in Seq(Shown) /\ n \in Nat /\ k \in Nat
      /\ \A i \in 1..n : T[above + i] = scr[i]
  BY <1>1, RowPartFacts
<1>3. ~(p <= Len(d.text)) => k = 0
  BY <1>1, RowsUnfold, EmptySeq
<1>4. MaxRows \in Nat /\ (n = MaxRows \/ (n <= MaxRows /\ k = 0))
  BY <1>1, <1>3, ViewAssumption
<1>5. Least(Len(T), above + MaxRows) = above + n
  <2>1. CASE n = MaxRows
    BY <1>2, <1>4, <2>1 DEF Least
  <2>2. CASE n <= MaxRows /\ k = 0
    BY <1>2, <1>4, <2>2 DEF Least
  <2> QED BY <1>4, <2>1, <2>2
<1>6. PICK w : w = SubSeq(T, above + 1, above + n)
  OBVIOUS
<1>7. w \in Seq(Shown) /\ Len(w) = n /\ \A i \in 1..n : w[i] = T[above + i]
  <2>1. ASSUME NEW i \in (above + 1)..(above + n) PROVE T[i] \in Shown
    <3>1. i \in 1..Len(T)
      BY <1>2
    <3> QED BY <1>2, <3>1, ElementOfSeq
  <2>2. above + 1 \in Int /\ above + n \in Int
    BY <1>2
  <2>3. /\ w \in Seq(Shown)
        /\ Len(w) = IF above + 1 <= above + n THEN (above + n) - (above + 1) + 1 ELSE 0
        /\ \A i \in 1..((above + n) - (above + 1) + 1) : w[i] = T[(above + 1) + i - 1]
    BY <1>6, <2>1, <2>2, SubSeqProperties
  <2>4. Len(w) = n /\ (above + n) - (above + 1) + 1 = n
    BY <1>2, <2>3
  <2>5. ASSUME NEW i \in 1..n PROVE w[i] = T[above + i]
    <3>1. (above + 1) + i - 1 = above + i
      OBVIOUS
    <3> QED BY <2>3, <2>4, <3>1
  <2> QED BY <2>3, <2>4, <2>5
<1>8. w = scr
  BY <1>1, <1>2, <1>7, SeqEqual
<1> QED BY <1>1, <1>5, <1>6, <1>8 DEF Slice

\* A window scrolled past the end of the page is empty.
LEMMA PastSlice ==
  ASSUME NEW d, NEW above \in Nat, RowsFrom(d, 1) \in Seq(Shown),
         Len(RowsFrom(d, 1)) <= above
  PROVE  Slice(d, above, <<>>)
<1>1. PICK T, n : T = RowsFrom(d, 1) /\ n = Len(T)
  OBVIOUS
<1>2. n \in Nat /\ n <= above /\ MaxRows \in Nat
  BY <1>1, ViewAssumption
<1>3. Least(n, above + MaxRows) = n
  BY <1>2 DEF Least
<1>4. SubSeq(T, above + 1, n) = <<>>
  BY <1>2, SubSeqEmpty
<1> QED BY <1>1, <1>3, <1>4 DEF Slice

\* Between the piece of the text that x shows and position q there is nothing but
\* spaces and newlines.
OnlyBlanks(d, x, q) ==
    /\ x.from + x.n <= q
    /\ \A p \in (x.from + x.n)..(q - 1) : d.text[p] \in {"SP", "LF"}

\* No character is missing between two rows of text that are next to each other.
Joined(d, scr) ==
    \A k \in 1..(Len(scr) - 1) :
        scr[k].image = FALSE /\ scr[k + 1].image = FALSE =>
            OnlyBlanks(d, scr[k], scr[k + 1].from)

\* Nor is one missing between the last row and q.
Reaches(d, scr, q) ==
    Len(scr) > 0 /\ scr[Len(scr)].image = FALSE => OnlyBlanks(d, scr[Len(scr)], q)

\* The row r that starts at p, on the screen.
LEMMA RowJoins ==
  ASSUME NEW d, NEW p \in Nat, NEW scr \in Seq(Shown), Joined(d, scr), Reaches(d, scr, p),
         NEW r, RowFrom(d.text, p, r), NEW x \in Shown,
         x.image = FALSE => x.from = r.from /\ x.n = r.n
  PROVE  Joined(d, Append(scr, x)) /\ Reaches(d, Append(scr, x), r.next)
<1>1. PICK n, w : n = Len(scr) /\ w = Append(scr, x)
  OBVIOUS
<1>2. /\ n \in Nat /\ w \in Seq(Shown) /\ Len(w) = n + 1 /\ w[n + 1] = x
      /\ \A i \in 1..n : w[i] = scr[i] /\ w[i] \in Shown
  <2>1. /\ n \in Nat /\ w \in Seq(Shown) /\ Len(w) = n + 1 /\ w[n + 1] = x
        /\ \A i \in 1..n : w[i] = scr[i]
    BY <1>1, AppendProperties
  <2>2. \A i \in 1..n : scr[i] \in Shown
    BY <1>1, ElementOfSeq
  <2> QED BY <2>1, <2>2
<1>3. /\ r.from \in Int /\ r.from >= p /\ r.n \in Nat /\ r.next \in Int
      /\ r.from + r.n <= r.next
      /\ \A k \in p..(r.from - 1) : d.text[k] = "SP"
      /\ \A k \in (r.from + r.n)..(r.next - 1) : d.text[k] \in {"SP", "LF"}
  BY DEF RowFrom
<1>4. ASSUME NEW k \in 1..(Len(w) - 1), w[k].image = FALSE, w[k + 1].image = FALSE
      PROVE  OnlyBlanks(d, w[k], w[k + 1].from)
  <2>1. k \in 1..n
    BY <1>2
  <2>2. CASE k # n
    <3>1. k + 1 \in 1..n /\ k \in 1..(n - 1)
      BY <1>2, <2>1, <2>2
    <3>2. w[k] = scr[k] /\ w[k + 1] = scr[k + 1]
      BY <1>2, <2>1, <3>1
    <3> QED BY <1>1, <1>4, <3>1, <3>2 DEF Joined
  <2>3. CASE k = n
    <3>1. PICK y : y = w[k]
      OBVIOUS
    <3>2. y = scr[n] /\ w[k + 1] = x /\ y \in Shown /\ y.image = FALSE /\ n > 0
      BY <1>2, <1>4, <2>1, <2>3, <3>1
    <3>3. OnlyBlanks(d, y, p)
      BY <1>1, <3>2 DEF Reaches
    <3>4. x.from = r.from
      BY <1>4, <3>2
    <3>5. PICK e : e = y.from + y.n
      OBVIOUS
    <3>6. e \in Int /\ e <= p /\ \A i \in e..(p - 1) : d.text[i] \in {"SP", "LF"}
      BY <3>2, <3>3, <3>5 DEF Shown, OnlyBlanks
    <3>7. e <= r.from
      BY <1>3, <3>6
    <3>8. ASSUME NEW i \in e..(r.from - 1) PROVE d.text[i] \in {"SP", "LF"}
      <4>1. i \in e..(p - 1) \/ i \in p..(r.from - 1)
        BY <1>3, <3>6
      <4> QED BY <1>3, <3>6, <4>1
    <3>9. OnlyBlanks(d, y, r.from)
      BY <3>5, <3>7, <3>8 DEF OnlyBlanks
    <3> QED BY <3>1, <3>2, <3>4, <3>9
  <2> QED BY <2>2, <2>3
<1>5. ASSUME x.image = FALSE PROVE OnlyBlanks(d, x, r.next)
  BY <1>3, <1>5 DEF OnlyBlanks
<1>6. Joined(d, w)
  BY <1>4 DEF Joined
<1>7. Reaches(d, w, r.next)
  BY <1>2, <1>5 DEF Reaches
<1> QED BY <1>1, <1>6, <1>7

\* What NothingLost says of the screen.
LEMMA JoinedIs ==
  ASSUME screen \in Seq(Shown), Joined(doc, screen)
  PROVE  NothingLost
<1>1. ASSUME NEW k \in 1..(Len(screen) - 1), ~screen[k].image, ~screen[k + 1].image
      PROVE  /\ screen[k].from + screen[k].n <= screen[k + 1].from
             /\ \A p \in (screen[k].from + screen[k].n)..(screen[k + 1].from - 1) : ~Word(p)
  <2>1. k \in 1..Len(screen) /\ k + 1 \in 1..Len(screen)
    OBVIOUS
  <2>2. screen[k].image \in BOOLEAN /\ screen[k + 1].image \in BOOLEAN
    <3>1. screen[k] \in Shown /\ screen[k + 1] \in Shown
      BY <2>1, ElementOfSeq
    <3> QED BY <3>1 DEF Shown
  <2>3. screen[k].image = FALSE /\ screen[k + 1].image = FALSE
    BY <1>1, <2>2
  <2>4. OnlyBlanks(doc, screen[k], screen[k + 1].from)
    BY <2>3 DEF Joined
  <2> QED BY <2>4 DEF OnlyBlanks, Word, Text
<1> QED BY <1>1 DEF NothingLost

-----------------------------------------------------------------------------
(***************************************************************************)
(* The invariant of the walks.  What has been skipped and what is on the   *)
(* screen are the first rows of the page, and the box knows which image    *)
(* the next row is in: that is why the middle of an image is drawn right.  *)
(***************************************************************************)
\* A page as html_text.c writes it.
Document(d) == d.pieces \in Seq(PageItem) /\ Written(d.pieces) /\ d = PageOf(d.pieces)

DocInv == Document(doc)

\* Where the walks are, and that nothing is lost so far.
WalkInv ==
    /\ walk \in {"skip", "draw", "idle", "click"}
    /\ scroll \in Nat /\ row \in Nat /\ pos \in 1..(Len(doc.text) + 1)
    /\ screen \in Seq(Shown) /\ Joined(doc, screen)

\* What has been skipped are the first rows of the page.
SkipInv ==
    walk = "skip" => /\ screen = <<>> /\ row <= scroll
                     /\ PagePart(doc, row, <<>>, pos) /\ BoxAt(doc, box, pos)

\* Either the screen begins where it should, or the page ends above it.
DrawInv ==
    walk = "draw" => /\ row = Len(screen) /\ row <= MaxRows
                     /\ BoxAt(doc, box, pos) /\ Reaches(doc, screen, pos)
                     /\ \/ PagePart(doc, scroll, screen, pos)
                        \/ /\ screen = <<>> /\ ~(pos <= Len(doc.text))
                           /\ Len(RowsFrom(doc, 1)) <= scroll

\* A painted window shows its slice.
RestInv == walk \in {"idle", "click"} => Slice(doc, scroll, screen)

\* Every walk begins at the top.
IdleInv == walk = "idle" => pos = 1

ViewInv == DocInv /\ WalkInv /\ SkipInv /\ DrawInv /\ RestInv /\ IdleInv

\* The page is one that PageOf makes.
LEMMA DocBuilt ==
  ASSUME NEW d, Document(d)
  PROVE  /\ Built(d) /\ Linked(d) /\ Len(d.text) \in Nat
         /\ \A p \in 1..Len(d.text) : \E i \in 1..Len(d.pieces) : d.of[p].piece = d.pieces[i]
<1>1. PICK ps : ps = d.pieces
  OBVIOUS
<1>2. ps \in Seq(PageItem) /\ Written(ps) /\ d = PageOf(ps)
  BY <1>1 DEF Document
<1>3. /\ Built(d) /\ Linked(d)
      /\ \A p \in 1..Len(d.text) : \E i \in 1..Len(ps) : d.of[p].piece = ps[i]
  BY <1>2, PageFacts
<1> QED BY <1>1, <1>3 DEF Built, Texts

\* A page begins in no image.
LEMMA FirstBox ==
  ASSUME NEW d, Built(d)
  PROVE  BoxAt(d, NoBox, 1)
<1>1. ASSUME 1 <= Len(d.text), d.of[1].piece.char = "RS" PROVE d.of[1].start = 1
  <2>1. 1 \in 1..Len(d.text)
    BY <1>1 DEF Built, Texts
  <2>2. PICK s, u, h : ImageAt(d, d.of[1], s, u, h) /\ 1 \in s..(s + 1 + u + h)
    BY <1>1, <2>1, ImageHere
  <2>3. s \in Nat \ {0} /\ u \in Nat /\ h \in 2..9 /\ d.of[1].start = s
    BY <2>2 DEF ImageAt
  <2> QED BY <2>2, <2>3
<1> QED BY <1>1 DEF BoxAt

\* What a row of text shows is where the layout found it.
LEMMA RowOfText ==
  ASSUME NEW d, NEW r, RowOf(d, r).image = FALSE
  PROVE  RowOf(d, r).from = r.from /\ RowOf(d, r).n = r.n
<1>1. CASE r.from > Len(d.text) \/ d.of[r.from].piece.char # "RS"
  <2>1. RowOf(d, r) = [image |-> FALSE, from |-> r.from, n |-> r.n]
    BY <1>1, Zenon DEF RowOf
  <2> QED BY <2>1
<1>2. CASE ~(r.from > Len(d.text)) /\ d.of[r.from].piece.char = "RS"
  <2>1. \E a, b : RowOf(d, r) = [image |-> TRUE, from |-> a, n |-> b]
    BY <1>2, Zenon DEF RowOf
  <2> QED BY <2>1
<1> QED BY <1>1, <1>2

\* The row that a walk of the renderer takes next.
LEMMA NextDrawn ==
  ASSUME DocInv, pos \in 1..(Len(doc.text) + 1), BoxAt(doc, box, pos),
         NextRow(Text, pos, Cols, DrawCap).more
  PROVE  LET r == NextRow(Text, pos, Cols, DrawCap)
         IN  /\ r = NextRow(doc.text, pos, Cols, DrawCap)
             /\ pos \in 1..Len(doc.text)
             /\ r.next \in 1..(Len(doc.text) + 1) /\ RowFrom(doc.text, pos, r)
             /\ Drawn(box, r) = RowOf(doc, r) /\ RowOf(doc, r) \in Shown
             /\ BoxAt(doc, Reserve(box, r), r.next)
<1>1. PICK r : r = NextRow(Text, pos, Cols, DrawCap)
  OBVIOUS
<1>2. r = NextRow(doc.text, pos, Cols, DrawCap) /\ r.more
  BY <1>1 DEF Text
<1>3. Built(doc) /\ Len(doc.text) \in Nat
  BY DocBuilt DEF DocInv
<1>4. pos <= Len(doc.text)
  <2>1. ~(pos <= Len(doc.text)) => r.more = FALSE
    BY <1>2, <1>3, RowOfPage
  <2> QED BY <1>2, <2>1
<1>5. /\ RowFrom(doc.text, pos, r) /\ r.next \in (pos + 1)..(Len(doc.text) + 1)
      /\ RowOf(doc, r) \in Shown
  BY <1>2, <1>3, <1>4, RowOfPage
<1>6. pos \in 1..Len(doc.text) /\ r.next \in 1..(Len(doc.text) + 1)
  BY <1>3, <1>4, <1>5
<1>7. RowStep(box, pos, r)
  BY <1>2, <1>3, <1>6, RowDrawn
<1> QED BY <1>1, <1>2, <1>5, <1>6, <1>7 DEF RowStep

\* The invariant holds when the page is opened.
LEMMA ViewInvInit == ViewInit => ViewInv
<1> SUFFICES ASSUME ViewInit PROVE ViewInv
  OBVIOUS
<1>1. PICK ps \in Pages : doc = PageOf(ps)
  BY DEF ViewInit
<1>2. DocInv
  <2>1. ps \in Seq(PageItem) /\ Written(ps)
    BY PagesAssumption
  <2>2. doc.pieces = ps
    BY <1>1, <2>1, PageFacts
  <2> QED BY <1>1, <2>1, <2>2 DEF DocInv, Document
<1>3. Built(doc) /\ Len(doc.text) \in Nat
  BY <1>2, DocBuilt DEF DocInv
<1>4. walk = "skip" /\ scroll = 0 /\ row = 0 /\ pos = 1 /\ screen = <<>> /\ box = NoBox
  BY DEF ViewInit
<1>5. WalkInv
  <2>1. screen \in Seq(Shown) /\ Len(screen) = 0
    BY <1>4, EmptySeq
  <2>2. Joined(doc, screen)
    BY <2>1 DEF Joined
  <2> QED BY <1>3, <1>4, <2>1, <2>2 DEF WalkInv
<1>6. SkipInv
  BY <1>3, <1>4, NothingPassed, FirstBox DEF SkipInv
<1> QED BY <1>2, <1>4, <1>5, <1>6 DEF ViewInv, DrawInv, RestInv, IdleInv

\* Painting anew.
LEMMA RestartInv ==
  ASSUME DocInv', scroll' \in Nat, Restart
  PROVE  ViewInv'
<1>1. Built(doc') /\ Len(doc'.text) \in Nat
  BY DocBuilt DEF DocInv
<1>4. walk' = "skip" /\ row' = 0 /\ pos' = 1 /\ screen' = <<>> /\ box' = NoBox
  BY DEF Restart
<1>5. WalkInv'
  <2>1. screen' \in Seq(Shown) /\ Len(screen') = 0
    BY <1>4, EmptySeq
  <2>2. Joined(doc', screen')
    BY <2>1 DEF Joined
  <2> QED BY <1>1, <1>4, <2>1, <2>2 DEF WalkInv
<1>6. SkipInv'
  BY <1>1, <1>4, NothingPassed, FirstBox DEF SkipInv
<1> QED BY <1>4, <1>5, <1>6 DEF ViewInv, DrawInv, RestInv, IdleInv

\* The page is laid out again with the images' heights.
LEMMA HeightsInv ==
  ASSUME DocInv, ImagesArrive
  PROVE  /\ DocInv' /\ Len(doc'.pieces) = Len(doc.pieces)
         /\ \A k \in 1..Len(doc.pieces) : /\ doc'.pieces[k].char = doc.pieces[k].char
                                          /\ doc'.pieces[k].url = doc.pieces[k].url
<1>1. PICK ps : ps = doc.pieces
  OBVIOUS
<1>2. ps \in Seq(PageItem) /\ Written(ps)
  BY <1>1 DEF DocInv, Document
<1>3. PICK h \in Heights :
        doc' = PageOf([k \in DOMAIN doc.pieces |->
                         IF doc.pieces[k].char # "RS" THEN doc.pieces[k]
                         ELSE [doc.pieces[k] EXCEPT !.rows = h]])
  BY DEF ImagesArrive
<1>4. h \in 2..9
  BY ViewAssumption
<1> DEFINE qs == [k \in 1..Len(ps) |-> IF ps[k].char # "RS" THEN ps[k]
                                       ELSE [ps[k] EXCEPT !.rows = h]]
<1>5. doc' = PageOf(qs)
  <2>1. DOMAIN ps = 1..Len(ps)
    BY <1>2
  <2> QED BY <1>1, <1>3, <2>1
<1>6. ASSUME NEW k \in 1..Len(ps)
      PROVE  /\ qs[k] \in PageItem /\ qs[k].char = ps[k].char /\ qs[k].url = ps[k].url
             /\ qs[k].char = "RS" => qs[k].rows = h
  <2>1. PICK x : x = ps[k]
    OBVIOUS
  <2>2. x \in PageItem
    BY <1>2, <2>1, ElementOfSeq
  <2>3. x = [char |-> x.char, rows |-> x.rows, url |-> x.url, href |-> x.href]
        /\ x.char \in STRING /\ x.url \in Nat /\ x.href \in STRING
    BY <2>2 DEF PageItem
  <2>4. [x EXCEPT !.rows = h] = [char |-> x.char, rows |-> h, url |-> x.url, href |-> x.href]
    BY <2>3
  <2>5. h \in 0..9
    BY <1>4
  <2>6. [x EXCEPT !.rows = h] \in PageItem
    BY <2>3, <2>4, <2>5 DEF PageItem
  <2>7. qs[k] = IF x.char # "RS" THEN x ELSE [x EXCEPT !.rows = h]
    BY <2>1
  <2> HIDE DEF qs
  <2>8. CASE x.char # "RS"
    BY <2>1, <2>2, <2>7, <2>8
  <2>9. CASE x.char = "RS"
    BY <2>1, <2>4, <2>6, <2>7, <2>9
  <2> QED BY <2>8, <2>9
<1>7. qs \in Seq(PageItem) /\ Len(qs) = Len(ps) /\ DOMAIN qs = 1..Len(ps)
  <2>1. Len(ps) \in Nat
    BY <1>2
  <2>2. qs \in [1..Len(ps) -> PageItem]
    BY <1>6
  <2> HIDE DEF qs
  <2> QED BY <2>1, <2>2
<1> HIDE DEF qs
<1>8. Written(qs)
  <2>1. ASSUME NEW k \in 1..Len(ps)
        PROVE  /\ qs[k].char # "NUL"
               /\ qs[k].char = "RS" => /\ qs[k].rows >= 2 /\ qs[k].url + 2 < DrawCap
                                       /\ k > 1 => qs[k - 1].char \in {"LF", "RS"}
    <3>1. DOMAIN ps = 1..Len(ps) /\ Len(ps) \in Nat
      BY <1>2
    <3>2. /\ ps[k].char # "NUL"
          /\ ps[k].char = "RS" => /\ ps[k].url + 2 < DrawCap
                                  /\ k > 1 => ps[k - 1].char \in {"LF", "RS"}
      BY <1>2, <3>1 DEF Written
    <3>3. k > 1 => qs[k - 1].char = ps[k - 1].char
      <4>1. k > 1 => k - 1 \in 1..Len(ps)
        BY <3>1
      <4> QED BY <1>6, <4>1
    <3>4. h >= 2
      BY <1>4
    <3> QED BY <1>6, <3>2, <3>3, <3>4
  <2> QED BY <1>7, <2>1 DEF Written
<1>9. doc'.pieces = qs
  BY <1>5, <1>7, <1>8, PageFacts
<1>10. DocInv'
  BY <1>5, <1>7, <1>8, <1>9 DEF DocInv, Document
<1> QED BY <1>1, <1>6, <1>7, <1>9, <1>10

\* A row scrolled away.
LEMMA SkipRowInv ==
  ASSUME ViewInv, SkipRow
  PROVE  ViewInv'
<1>0. /\ DocInv /\ WalkInv /\ walk = "skip" /\ row < scroll
      /\ screen = <<>> /\ row <= scroll /\ PagePart(doc, row, <<>>, pos) /\ BoxAt(doc, box, pos)
  BY DEF ViewInv, SkipInv, SkipRow
<1>1. PICK r : r = NextRow(Text, pos, Cols, DrawCap)
  OBVIOUS
<1>2. /\ r.more /\ pos' = r.next /\ row' = row + 1 /\ box' = Reserve(box, r)
      /\ doc' = doc /\ scroll' = scroll /\ walk' = walk /\ screen' = screen
  BY <1>1 DEF SkipRow
<1>3. Built(doc)
  BY <1>0, DocBuilt DEF DocInv
<1>4. pos \in 1..(Len(doc.text) + 1) /\ scroll \in Nat /\ row \in Nat
  BY <1>0 DEF WalkInv
<1>5. /\ r = NextRow(doc.text, pos, Cols, DrawCap)
      /\ pos \in 1..Len(doc.text)
      /\ r.next \in 1..(Len(doc.text) + 1)
      /\ BoxAt(doc, Reserve(box, r), r.next)
  BY <1>0, <1>1, <1>2, <1>4, NextDrawn
<1>6. PagePart(doc, row + 1, <<>>, r.next)
  BY <1>0, <1>3, <1>4, <1>5, PartPassed
<1>7. WalkInv'
  BY <1>0, <1>2, <1>5 DEF WalkInv
<1>8. SkipInv'
  BY <1>0, <1>2, <1>4, <1>5, <1>6 DEF SkipInv
<1>9. walk' = "skip" /\ DocInv'
  BY <1>0, <1>2 DEF DocInv
<1> QED BY <1>7, <1>8, <1>9 DEF ViewInv, DrawInv, RestInv, IdleInv

\* Skipping ends where the screen begins, or at the end of the page.
LEMMA SkippedInv ==
  ASSUME ViewInv, Skipped
  PROVE  ViewInv'
<1>0. /\ DocInv /\ WalkInv /\ walk = "skip"
      /\ screen = <<>> /\ row <= scroll /\ PagePart(doc, row, <<>>, pos) /\ BoxAt(doc, box, pos)
  BY DEF ViewInv, SkipInv, Skipped
<1>1. /\ walk' = "draw" /\ row' = 0 /\ doc' = doc /\ scroll' = scroll /\ pos' = pos
      /\ box' = box /\ screen' = screen
  BY DEF Skipped
<1>2. Built(doc)
  BY <1>0, DocBuilt DEF DocInv
<1>3. /\ pos \in 1..(Len(doc.text) + 1) /\ scroll \in Nat /\ row \in Nat
      /\ screen \in Seq(Shown) /\ Len(screen) = 0 /\ MaxRows \in Nat
  BY <1>0, EmptySeq, ViewAssumption DEF WalkInv
<1>4. PagePart(doc, scroll, screen, pos)
      \/ (~(pos <= Len(doc.text)) /\ Len(RowsFrom(doc, 1)) <= scroll)
  <2>1. CASE row = scroll
    BY <1>0, <2>1
  <2>2. CASE ~NextRow(Text, pos, Cols, DrawCap).more
    <3>1. ~(pos <= Len(doc.text))
      <4>1. pos <= Len(doc.text) => NextRow(doc.text, pos, Cols, DrawCap).more = TRUE
        BY <1>2, <1>3, RowOfPage
      <4> QED BY <2>2, <4>1 DEF Text
    <3>2. RowsFrom(doc, pos) = <<>>
      BY <1>2, <1>3, <3>1, RowsUnfold
    <3>3. Len(RowsFrom(doc, 1)) = row + Len(screen) + Len(RowsFrom(doc, pos))
      BY <1>0, <1>2, <1>3, RowPartFacts
    <3>4. Len(RowsFrom(doc, pos)) = 0
      BY <3>2, EmptySeq
    <3> QED BY <1>0, <1>3, <3>1, <3>3, <3>4
  <2> QED BY <2>1, <2>2 DEF Skipped
<1>5. WalkInv'
  BY <1>0, <1>1 DEF WalkInv
<1>6. DrawInv'
  <2>1. Reaches(doc, screen, pos)
    BY <1>3 DEF Reaches
  <2> QED BY <1>0, <1>1, <1>3, <1>4, <2>1 DEF DrawInv
<1>7. walk' = "draw" /\ DocInv'
  BY <1>0, <1>1 DEF DocInv
<1> QED BY <1>5, <1>6, <1>7 DEF ViewInv, SkipInv, RestInv, IdleInv

\* A row drawn.
LEMMA DrawRowInv ==
  ASSUME ViewInv, DrawRow
  PROVE  ViewInv'
<1>0. /\ DocInv /\ WalkInv /\ walk = "draw" /\ row < MaxRows
      /\ row = Len(screen) /\ BoxAt(doc, box, pos) /\ Reaches(doc, screen, pos)
      /\ \/ PagePart(doc, scroll, screen, pos)
         \/ ~(pos <= Len(doc.text))
  BY DEF ViewInv, DrawInv, DrawRow
<1>1. PICK r : r = NextRow(Text, pos, Cols, DrawCap)
  OBVIOUS
<1>2. /\ r.more /\ pos' = r.next /\ row' = row + 1 /\ box' = Reserve(box, r)
      /\ screen' = Append(screen, Drawn(box, r))
      /\ doc' = doc /\ scroll' = scroll /\ walk' = walk
  BY <1>1 DEF DrawRow
<1>3. Built(doc)
  BY <1>0, DocBuilt DEF DocInv
<1>4. /\ pos \in 1..(Len(doc.text) + 1) /\ scroll \in Nat /\ row \in Nat
      /\ screen \in Seq(Shown) /\ Joined(doc, screen) /\ MaxRows \in Nat
  BY <1>0, ViewAssumption DEF WalkInv
<1>5. /\ r = NextRow(doc.text, pos, Cols, DrawCap)
      /\ pos \in 1..Len(doc.text)
      /\ r.next \in 1..(Len(doc.text) + 1) /\ RowFrom(doc.text, pos, r)
      /\ Drawn(box, r) = RowOf(doc, r) /\ RowOf(doc, r) \in Shown
      /\ BoxAt(doc, Reserve(box, r), r.next)
  BY <1>0, <1>1, <1>2, <1>4, NextDrawn
<1>6. PICK x : x = RowOf(doc, r)
  OBVIOUS
<1>7. /\ x \in Shown /\ screen' = Append(screen, x)
      /\ x.image = FALSE => x.from = r.from /\ x.n = r.n
  BY <1>2, <1>5, <1>6, RowOfText
<1>8. PagePart(doc, scroll, screen, pos)
  BY <1>0, <1>4, <1>5
<1>9. screen' \in Seq(Shown) /\ PagePart(doc, scroll, screen', r.next)
  BY <1>3, <1>4, <1>5, <1>6, <1>7, <1>8, PartDrawn
<1>10. Joined(doc, screen') /\ Reaches(doc, screen', r.next)
  <2>1. pos \in Nat
    BY <1>5
  <2> QED BY <1>0, <1>4, <1>5, <1>7, <2>1, RowJoins
<1>11. Len(screen') = row + 1 /\ row + 1 <= MaxRows
  <2>1. Len(screen') = Len(screen) + 1
    BY <1>4, <1>7, AppendProperties
  <2> QED BY <1>0, <1>4, <2>1
<1>12. WalkInv'
  BY <1>0, <1>2, <1>4, <1>5, <1>9, <1>10 DEF WalkInv
<1>13. DrawInv'
  BY <1>2, <1>5, <1>9, <1>10, <1>11 DEF DrawInv
<1>14. walk' = "draw" /\ DocInv'
  BY <1>0, <1>2 DEF DocInv
<1> QED BY <1>12, <1>13, <1>14 DEF ViewInv, SkipInv, RestInv, IdleInv

\* A painted window shows its slice of the page.
LEMMA PaintedInv ==
  ASSUME ViewInv, Painted
  PROVE  ViewInv'
<1>0. /\ DocInv /\ WalkInv /\ walk = "draw" /\ row = Len(screen) /\ row <= MaxRows
      /\ \/ PagePart(doc, scroll, screen, pos)
         \/ screen = <<>> /\ Len(RowsFrom(doc, 1)) <= scroll
  BY DEF ViewInv, DrawInv, Painted
<1>1. /\ walk' = "idle" /\ pos' = 1 /\ row' = 0 /\ doc' = doc /\ scroll' = scroll
      /\ screen' = screen
  BY DEF Painted
<1>2. Built(doc) /\ Len(doc.text) \in Nat
  BY <1>0, DocBuilt DEF DocInv
<1>3. /\ pos \in 1..(Len(doc.text) + 1) /\ scroll \in Nat /\ screen \in Seq(Shown)
  BY <1>0 DEF WalkInv
<1>4. row = MaxRows \/ ~(pos <= Len(doc.text))
  <2>1. pos <= Len(doc.text) => NextRow(doc.text, pos, Cols, DrawCap).more = TRUE
    BY <1>2, <1>3, RowOfPage
  <2>2. row = MaxRows \/ ~NextRow(doc.text, pos, Cols, DrawCap).more
    BY DEF Painted, Text
  <2> QED BY <2>1, <2>2
<1>5. Slice(doc, scroll, screen)
  <2>1. CASE PagePart(doc, scroll, screen, pos)
    BY <1>0, <1>2, <1>3, <1>4, <2>1, PartSlice
  <2>2. CASE screen = <<>> /\ Len(RowsFrom(doc, 1)) <= scroll
    <3>1. 1 \in 1..(Len(doc.text) + 1)
      BY <1>2
    <3>2. RowsFrom(doc, 1) \in Seq(Shown)
      BY <1>2, <3>1, RowsTyped
    <3> QED BY <1>3, <2>2, <3>2, PastSlice
  <2> QED BY <1>0, <2>1, <2>2
<1>6. WalkInv'
  BY <1>0, <1>1, <1>2 DEF WalkInv
<1>7. RestInv' /\ IdleInv'
  BY <1>1, <1>5 DEF RestInv, IdleInv
<1>8. walk' = "idle" /\ DocInv'
  BY <1>0, <1>1 DEF DocInv
<1> QED BY <1>6, <1>7, <1>8 DEF ViewInv, SkipInv, DrawInv

\* A click walks down the page without touching the screen.
LEMMA ClickingInv ==
  ASSUME ViewInv, Click \/ PassRow \/ Resolve
  PROVE  ViewInv'
<1>0. DocInv /\ WalkInv /\ walk \in {"idle", "click"} /\ Slice(doc, scroll, screen)
  BY DEF ViewInv, RestInv, Click, PassRow, Resolve
<1>1. doc' = doc /\ scroll' = scroll /\ screen' = screen /\ walk' \in {"idle", "click"}
  BY DEF Click, PassRow, Resolve
<1>2. Built(doc) /\ Len(doc.text) \in Nat
  BY <1>0, DocBuilt DEF DocInv
<1>3. row' \in Nat /\ pos' \in 1..(Len(doc.text) + 1) /\ IdleInv'
  <2>1. CASE Click
    BY <1>0, <2>1 DEF Click, WalkInv, IdleInv
  <2>2. CASE PassRow
    <3>1. PICK r : r = NextRow(doc.text, pos, Cols, ClickCap)
      OBVIOUS
    <3>2. r.more /\ pos' = r.next /\ row' = row + 1 /\ walk' = "click"
      BY <2>2, <3>1 DEF PassRow, Text
    <3>3. /\ doc.text \in Texts /\ pos \in 1..(Len(doc.text) + 1) /\ row \in Nat
          /\ Cols \in Nat \ {0} /\ ClickCap \in Nat /\ ClickCap >= 2
      BY <1>0, <1>2, ViewAssumption DEF WalkInv, Built
    <3>4. r.more = (CharAt(doc.text, pos) # "NUL")
          /\ (CharAt(doc.text, pos) # "NUL" => RowFrom(doc.text, pos, r))
      BY <3>1, <3>3, NextRowFacts
    <3>5. RowFrom(doc.text, pos, r)
      BY <3>2, <3>4
    <3>6. r.next \in 1..(Len(doc.text) + 1)
      BY <1>2, <3>3, <3>5 DEF RowFrom
    <3> QED BY <3>2, <3>3, <3>6 DEF IdleInv
  <2>3. CASE Resolve
    <3>1. pos' = 1 /\ row' = 0
      BY <2>3 DEF Resolve
    <3> QED BY <1>2, <3>1 DEF IdleInv
  <2> QED BY <2>1, <2>2, <2>3
<1>4. WalkInv'
  BY <1>0, <1>1, <1>3 DEF WalkInv
<1>5. RestInv' /\ DocInv'
  BY <1>0, <1>1 DEF RestInv, DocInv
<1> QED BY <1>1, <1>3, <1>4, <1>5 DEF ViewInv, SkipInv, DrawInv

\* Every step keeps the invariant.
LEMMA ViewInvStep == ViewInv /\ [ViewNext]_viewVars => ViewInv'
<1> SUFFICES ASSUME ViewInv, [ViewNext]_viewVars PROVE ViewInv'
  OBVIOUS
<1>1. CASE SkipRow
  BY <1>1, SkipRowInv
<1>2. CASE Skipped
  BY <1>2, SkippedInv
<1>3. CASE DrawRow
  BY <1>3, DrawRowInv
<1>4. CASE Painted
  BY <1>4, PaintedInv
<1>5. CASE Click \/ PassRow \/ Resolve
  BY <1>5, ClickingInv
<1>6. CASE Wheel
  <2>1. DocInv' /\ scroll' \in Nat /\ Restart
    BY <1>6, ViewAssumption DEF Wheel, ViewInv, DocInv
  <2> QED BY <2>1, RestartInv
<1>7. CASE ImagesArrive
  <2>1. DocInv'
    BY <1>7, HeightsInv DEF ViewInv
  <2>2. scroll' \in Nat /\ Restart
    BY <1>7 DEF ImagesArrive, ViewInv, WalkInv
  <2> QED BY <2>1, <2>2, RestartInv
<1>8. CASE UNCHANGED viewVars
  BY <1>8 DEF viewVars, ViewInv, DocInv, WalkInv, SkipInv, DrawInv, RestInv, IdleInv
<1> QED BY <1>1, <1>2, <1>3, <1>4, <1>5, <1>6, <1>7, <1>8 DEF ViewNext, Walking

\* Whatever is scrolled and however often the page is painted, the screen is a part of
\* the page.
THEOREM ViewInvariant == ViewSpec => []ViewInv
<1>1. ViewInit => ViewInv
  BY ViewInvInit
<1>2. ViewInv /\ [ViewNext]_viewVars => ViewInv'
  BY ViewInvStep
<1> QED BY <1>1, <1>2, PTL DEF ViewSpec

\* text_layout_next_line_ex drops nothing but blanks between the rows that
\* draw_body_wrapped puts below each other, and repeats nothing.
THEOREM NothingIsLost == ViewSpec => []NothingLost
<1>1. ViewInv => NothingLost
  BY JoinedIs DEF ViewInv, WalkInv
<1> QED BY <1>1, ViewInvariant, PTL

\* draw_body_wrapped shows the rows of the page from g_scroll_rows on, with the slices
\* of an image that is cut by the upper edge of the window.
THEOREM ScrollShowsSlice == ViewSpec => []ScrollIsSlice
<1>1. ViewInv => ScrollIsSlice
  BY DEF ViewInv, RestInv, Slice, ScrollIsSlice, PageRows
<1> QED BY <1>1, ViewInvariant, PTL

-----------------------------------------------------------------------------
(***************************************************************************)
(* A click: the hit test finds the row that was drawn, and the binary      *)
(* search the link that the character is in.                               *)
(***************************************************************************)

\* Of the links ks the first m start at idx or before.
Begun(ks, idx, m) ==
    /\ m \in 0..Len(ks)
    /\ \A i \in 1..Len(ks) : ks[i].start <= idx <=> i <= m

\* One step of the search, which goes on with f.
Halves(f, ks, idx, r) ==
    LET lo == r[1]  hi == r[2]  mid == lo + (hi - lo) \div 2
    IN  IF lo >= hi THEN lo
        ELSE IF ks[mid + 1].start <= idx THEN f[<<mid + 1, hi>>]
        ELSE f[<<lo, mid>>]

\* f is the search of links_href_at_index, between any two places.
Search(f, ks, idx) ==
    f = [r \in (0..Len(ks)) \X (0..Len(ks)) |->
            LET lo == r[1]  hi == r[2]  mid == lo + (hi - lo) \div 2
            IN  IF lo >= hi THEN lo
                ELSE IF ks[mid + 1].start <= idx THEN f[<<mid + 1, hi>>]
                ELSE f[<<lo, mid>>]]

\* What the search finds between lo and hi.
Found(m, lo, hi) == IF lo >= hi \/ m < lo THEN lo ELSE IF m > hi THEN hi ELSE m

\* f finds what it should in every interval that is shorter than k.
FoundWithin(f, m, n, k) ==
    \A a \in 0..n, b \in 0..n : b - a < k => f[<<a, b>>] = Found(m, a, b)

\* The links of a page are in the order of the text.
LEMMA BegunExists ==
  ASSUME NEW d, Linked(d), NEW idx \in Nat
  PROVE  \E m : Begun(d.links, idx, m)
<1>1. PICK ks, n : ks = d.links /\ n = Len(ks)
  OBVIOUS
<1>2. /\ n \in Nat
      /\ \A i \in 1..n : ks[i].start \in Nat /\ ks[i].end \in Nat /\ ks[i].start < ks[i].end
      /\ \A i, j \in 1..n : i < j => ks[i].end <= ks[j].start
  <2>1. ks \in Seq(Link) /\ \A i \in 1..n : Spans(d, ks[i])
    BY <1>1 DEF Linked
  <2>2. n \in Nat /\ \A i \in 1..n : ks[i] \in Link
    BY <1>1, <2>1, ElementOfSeq
  <2> QED BY <1>1, <2>1, <2>2 DEF Linked, Link, Spans
<1> DEFINE S == {i \in 1..n : ks[i].start <= idx}
<1>3. CASE S = {}
  <2>1. \A i \in 1..n : ~(ks[i].start <= idx) /\ ~(i <= 0)
    BY <1>3
  <2>2. Begun(ks, idx, 0)
    BY <1>1, <1>2, <2>1 DEF Begun
  <2> QED BY <1>1, <2>2
<1>4. CASE S # {}
  <2>1. S \subseteq 1..n /\ 1 \in Int /\ n \in Int
    BY <1>2
  <2>2. PICK m \in S : \A y \in S : y <= m
    BY <1>4, <2>1, GreatestElement
  <2>3. m \in 1..n /\ ks[m].start <= idx
    OBVIOUS
  <2>4. ASSUME NEW i \in 1..n PROVE ks[i].start <= idx <=> i <= m
    <3>1. CASE i = m
      BY <2>3, <3>1
    <3>2. CASE i < m
      <4>1. ks[i].end <= ks[m].start
        BY <1>2, <2>3, <3>2
      <4>2. ks[i].start <= idx
        BY <1>2, <2>3, <4>1
      <4> QED BY <3>2, <4>2
    <3>3. CASE i > m
      <4>1. i \notin S
        BY <2>2, <2>3, <3>3
      <4> QED BY <2>3, <3>3, <4>1
    <3> QED BY <2>3, <3>1, <3>2, <3>3
  <2>5. Begun(ks, idx, m)
    BY <1>1, <1>2, <2>3, <2>4 DEF Begun
  <2> QED BY <1>1, <2>5
<1> QED BY <1>3, <1>4

\* One step of the search.
LEMMA FoundStep ==
  ASSUME NEW n \in Nat, NEW m \in 0..n, NEW lo \in 0..n, NEW hi \in 0..n, lo < hi
  PROVE  LET mid == lo + (hi - lo) \div 2
         IN  /\ mid \in lo..(hi - 1) /\ mid + 1 \in 1..n
             /\ mid + 1 <= m => Found(m, mid + 1, hi) = Found(m, lo, hi)
             /\ ~(mid + 1 <= m) => Found(m, lo, mid) = Found(m, lo, hi)
<1>1. PICK mid : mid = lo + (hi - lo) \div 2
  OBVIOUS
<1>2. mid \in lo..(hi - 1)
  <2>1. PICK k : k = hi - lo
    OBVIOUS
  <2>2. k \in Nat /\ k > 0
    BY <2>1
  <2>3. k \div 2 \in 0..(k - 1)
    BY <2>2
  <2> QED BY <1>1, <2>1, <2>2, <2>3
<1>3. ASSUME mid + 1 <= m PROVE Found(m, mid + 1, hi) = Found(m, lo, hi)
  BY <1>2, <1>3 DEF Found
<1>4. ASSUME ~(mid + 1 <= m) PROVE Found(m, lo, mid) = Found(m, lo, hi)
  BY <1>2, <1>4 DEF Found
<1>5. mid + 1 \in 1..n
  BY <1>2
<1> QED BY <1>1, <1>2, <1>3, <1>4, <1>5

\* If the search is right in shorter intervals, it is in this one.
LEMMA HalvesIs ==
  ASSUME NEW f, NEW ks, NEW idx \in Nat, NEW m, NEW n \in Nat, n = Len(ks),
         Begun(ks, idx, m), NEW lo \in 0..n, NEW hi \in 0..n,
         FoundWithin(f, m, n, hi - lo), NEW r, r = <<lo, hi>>
  PROVE  Halves(f, ks, idx, r) = Found(m, lo, hi)
<1>1. PICK mid : mid = lo + (hi - lo) \div 2
  OBVIOUS
<1>2. Halves(f, ks, idx, r) =
        IF lo >= hi THEN lo
        ELSE IF ks[mid + 1].start <= idx THEN f[<<mid + 1, hi>>]
        ELSE f[<<lo, mid>>]
  BY <1>1 DEF Halves
<1>3. m \in 0..n /\ \A i \in 1..n : ks[i].start <= idx <=> i <= m
  BY DEF Begun
<1>4. CASE lo >= hi
  BY <1>2, <1>4 DEF Found
<1>5. CASE ~(lo >= hi)
  <2>1. lo < hi
    BY <1>5
  <2>2. /\ mid \in lo..(hi - 1) /\ mid + 1 \in 1..n
        /\ mid + 1 <= m => Found(m, mid + 1, hi) = Found(m, lo, hi)
        /\ ~(mid + 1 <= m) => Found(m, lo, mid) = Found(m, lo, hi)
    BY <1>1, <1>3, <2>1, FoundStep
  <2>3. /\ mid + 1 \in 0..n /\ mid \in 0..n
        /\ hi - (mid + 1) < hi - lo /\ mid - lo < hi - lo
    BY <2>2
  <2>4. f[<<mid + 1, hi>>] = Found(m, mid + 1, hi) /\ f[<<lo, mid>>] = Found(m, lo, mid)
    BY <2>3 DEF FoundWithin
  <2>5. ks[mid + 1].start <= idx <=> mid + 1 <= m
    BY <1>3, <2>2
  <2> QED BY <1>2, <1>5, <2>2, <2>4, <2>5
<1> QED BY <1>4, <1>5

\* The function that StartedBy defines exists.
LEMMA SearchExists ==
  ASSUME NEW ks, NEW idx \in Nat, NEW m, Len(ks) \in Nat, Begun(ks, idx, m)
  PROVE  \E f : Search(f, ks, idx)
<1>1. PICK n : n = Len(ks)
  OBVIOUS
<1> DEFINE P == (0..n) \X (0..n)
           g == [r \in P |-> Found(m, r[1], r[2])]
<1>2. \A lo \in 0..n, hi \in 0..n : <<lo, hi>> \in P /\ g[<<lo, hi>>] = Found(m, lo, hi)
  OBVIOUS
<1>3. ASSUME NEW r \in P PROVE g[r] = Halves(g, ks, idx, r)
  <2>1. PICK lo \in 0..n, hi \in 0..n : r = <<lo, hi>>
    OBVIOUS
  <2>4. FoundWithin(g, m, n, hi - lo)
    BY <1>2 DEF FoundWithin
  <2>3. n \in Nat
    BY <1>1
  <2> HIDE DEF g
  <2>2. Halves(g, ks, idx, r) = Found(m, lo, hi)
    BY <1>1, <2>1, <2>3, <2>4, HalvesIs
  <2> QED BY <1>2, <2>1, <2>2
<1>4. g = [r \in P |-> Halves(g, ks, idx, r)]
  <2> DEFINE e == [r \in P |-> Halves(g, ks, idx, r)]
  <2> SUFFICES g = e
    OBVIOUS
  <2>1. \A r \in P : g[r] = e[r]
    BY <1>3
  <2> HIDE DEF P
  <2> QED BY <2>1
<1>5. Search(g, ks, idx)
  <2> HIDE DEF g
  <2> QED BY <1>1, <1>4 DEF Search, Halves
<1> QED BY <1>5

\* The search of a page's links finds how many start at idx or before.
LEMMA StartedByIs ==
  ASSUME NEW ks, NEW idx \in Nat, NEW m, Len(ks) \in Nat, Begun(ks, idx, m)
  PROVE  StartedBy(ks, idx) = m
<1>0. PICK f : f = CHOOSE g : Search(g, ks, idx)
  OBVIOUS
<1>1. Search(f, ks, idx)
  BY <1>0, SearchExists
<1>2. StartedBy(ks, idx) = f[<<0, Len(ks)>>]
  BY <1>0 DEF StartedBy, Search
<1>3. PICK n : n = Len(ks)
  OBVIOUS
<1>4. n \in Nat /\ m \in 0..n
  BY <1>3 DEF Begun
<1>5. \A r \in (0..n) \X (0..n) : f[r] = Halves(f, ks, idx, r)
  BY <1>1, <1>3 DEF Search, Halves
<1> DEFINE S == {k \in Nat : \A r \in (0..n) \X (0..n) :
                                r[2] - r[1] < k => f[r] = Found(m, r[1], r[2])}
<1>6. ASSUME NEW k \in Nat, NEW lo \in 0..n, NEW hi \in 0..n, hi - lo < k + 1, k \in S
      PROVE  f[<<lo, hi>>] = Found(m, lo, hi)
  <2>1. ASSUME NEW a \in 0..n, NEW b \in 0..n, b - a < hi - lo
        PROVE  f[<<a, b>>] = Found(m, a, b)
    <3>1. b - a < k
      BY <1>6, <2>1
    <3>2. <<a, b>> \in (0..n) \X (0..n) /\ <<a, b>>[1] = a /\ <<a, b>>[2] = b
      OBVIOUS
    <3> QED BY <1>6, <3>1, <3>2
  <2> HIDE DEF S
  <2>2. PICK r : r = <<lo, hi>>
    OBVIOUS
  <2>3. Halves(f, ks, idx, r) = Found(m, lo, hi)
    <3>1. FoundWithin(f, m, n, hi - lo)
      BY <2>1 DEF FoundWithin
    <3>2. lo \in 0..n /\ hi \in 0..n /\ n \in Nat /\ n = Len(ks) /\ Begun(ks, idx, m)
      BY <1>3, <1>4
    <3> QED BY <2>2, <3>1, <3>2, HalvesIs
  <2> QED BY <1>5, <2>2, <2>3
<1>7. ASSUME NEW k \in Nat, k \in S PROVE k + 1 \in S
  <2>1. ASSUME NEW r \in (0..n) \X (0..n), r[2] - r[1] < k + 1
        PROVE  f[r] = Found(m, r[1], r[2])
    <3>1. r = <<r[1], r[2]>> /\ r[1] \in 0..n /\ r[2] \in 0..n
      OBVIOUS
    <3> HIDE DEF S
    <3> QED BY <1>6, <1>7, <2>1, <3>1
  <2> QED BY <2>1
<1>8. 0 \in S
  <2>1. ASSUME NEW r \in (0..n) \X (0..n), r[2] - r[1] < 0
        PROVE  f[r] = Found(m, r[1], r[2])
    <3>1. PICK lo \in 0..n, hi \in 0..n : r = <<lo, hi>>
      OBVIOUS
    <3>2. lo >= hi
      BY <2>1, <3>1
    <3>3. Halves(f, ks, idx, r) = lo
      BY <3>1, <3>2 DEF Halves
    <3> QED BY <1>5, <3>1, <3>2, <3>3 DEF Found
  <2> QED BY <2>1
<1>9. \A k \in Nat : k \in S
  <2>1. \A k \in Nat : k \in S => k + 1 \in S
    BY <1>7
  <2> HIDE DEF S
  <2> QED BY <1>8, <2>1, Adding!NatSetInduction
<1>10. f[<<0, n>>] = Found(m, 0, n)
  <2>1. n + 1 \in S
    BY <1>4, <1>9
  <2>2. <<0, n>> \in (0..n) \X (0..n) /\ <<0, n>>[1] = 0 /\ <<0, n>>[2] = n /\ n - 0 < n + 1
    BY <1>4
  <2> QED BY <2>1, <2>2
<1>11. Found(m, 0, n) = m
  BY <1>4 DEF Found
<1> QED BY <1>2, <1>3, <1>10, <1>11

\* links_href_at_index opens the link of the piece that the position is of.
LEMMA HrefAtIs ==
  ASSUME NEW d, Built(d), Linked(d), NEW p \in 1..Len(d.text)
  PROVE  HrefAt(d.links, p) = d.of[p].piece.href
<1>0. p \in Nat /\ Len(d.text) \in Nat
  BY DEF Built, Texts
<1>1. PICK ks, n, m : ks = d.links /\ n = Len(ks) /\ Begun(d.links, p, m)
  BY <1>0, BegunExists
<1>2. /\ n \in Nat
      /\ \A i \in 1..n : ks[i].start \in Nat /\ ks[i].end \in Nat /\ ks[i].start < ks[i].end
      /\ \A i, j \in 1..n : i < j => ks[i].end <= ks[j].start
  <2>1. ks \in Seq(Link) /\ \A i \in 1..n : Spans(d, ks[i])
    BY <1>1 DEF Linked
  <2>2. n \in Nat /\ \A i \in 1..n : ks[i] \in Link
    BY <1>1, <2>1, ElementOfSeq
  <2> QED BY <1>1, <2>1, <2>2 DEF Linked, Link, Spans
<1>3. m \in 0..n /\ \A i \in 1..n : ks[i].start <= p <=> i <= m
  BY <1>1 DEF Begun
<1>4. StartedBy(ks, p) = m
  BY <1>0, <1>1, <1>2, StartedByIs
<1>5. PICK c : c = (ks # <<>> /\ p < ks[n].end /\ m > 0 /\ p < ks[m].end)
  OBVIOUS
<1>6. HrefAt(ks, p) = IF c THEN ks[m].href ELSE ""
  BY <1>1, <1>4, <1>5, Zenon DEF HrefAt
<1>7. ASSUME m > 0, p < ks[m].end PROVE ks[m].href = d.of[p].piece.href
  <2>1. PICK l : l = ks[m]
    OBVIOUS
  <2>2. m \in 1..n /\ Spans(d, l) /\ l.start <= p
    <3>1. m \in 1..n
      BY <1>2, <1>3, <1>7
    <3>2. ks[m].start <= p
      BY <1>3, <3>1
    <3>3. \A i \in 1..n : Spans(d, ks[i])
      BY <1>1 DEF Linked
    <3> QED BY <2>1, <3>1, <3>2, <3>3
  <2>3. p \in l.start..(l.end - 1)
    BY <1>0, <1>2, <1>7, <2>1, <2>2
  <2> QED BY <2>1, <2>2, <2>3 DEF Spans
<1>8. ASSUME d.of[p].piece.href # "" PROVE c
  <2>1. PICK i \in 1..n : ks[i].start <= p /\ p < ks[i].end
    BY <1>1, <1>8 DEF Linked
  <2>2. i <= m
    BY <1>3, <2>1
  <2>3. i = m
    <3>1. CASE i < m
      <4>1. m \in 1..n /\ ks[i].end <= ks[m].start /\ ks[m].start <= p
        BY <1>2, <1>3, <2>1, <3>1
      <4> QED BY <1>0, <1>2, <2>1, <4>1
    <3> QED BY <1>3, <2>2, <3>1
  <2>4. p < ks[n].end
    <3>1. CASE m < n
      <4>1. n \in 1..n /\ m \in 1..n
        BY <1>2, <2>3, <3>1
      <4>2. ks[m].end <= ks[n].start /\ p < ks[m].end
        BY <1>2, <2>1, <2>3, <3>1, <4>1
      <4>3. ks[n].start < ks[n].end /\ ks[n].start \in Nat /\ ks[n].end \in Nat
            /\ ks[m].end \in Nat
        BY <1>2, <4>1
      <4> QED BY <1>0, <4>2, <4>3
    <3>2. CASE ~(m < n)
      <4>1. i = n
        BY <1>2, <1>3, <2>3, <3>2
      <4> QED BY <2>1, <4>1
    <3> QED BY <3>1, <3>2
  <2>5. ks # <<>>
    <3>1. ks = <<>> => Len(ks) = 0
      BY EmptySeq
    <3> QED BY <1>1, <1>2, <2>1, <3>1
  <2>6. m > 0 /\ p < ks[m].end
    BY <1>2, <2>1, <2>3
  <2> QED BY <1>5, <2>4, <2>5, <2>6
<1>9. CASE c
  BY <1>1, <1>5, <1>6, <1>7, <1>9
<1>10. CASE ~c
  BY <1>1, <1>6, <1>8, <1>10
<1> QED BY <1>9, <1>10

\* The hit test's buffer has room for every marker of a page.
AllFit(ps) == \A k \in DOMAIN ps : ps[k].char = "RS" => ps[k].url + 2 < ClickCap

\* The hit test takes the same row as the renderer.
LEMMA SameRow ==
  ASSUME NEW d, Document(d), AllFit(d.pieces), NEW p \in 1..(Len(d.text) + 1),
         NEW b, BoxAt(d, b, p)
  PROVE  NextRow(d.text, p, Cols, ClickCap) = NextRow(d.text, p, Cols, DrawCap)
<1>0. /\ Built(d) /\ Len(d.text) \in Nat /\ d.text \in Texts
      /\ \A q \in 1..Len(d.text) : \E i \in 1..Len(d.pieces) : d.of[q].piece = d.pieces[i]
  BY DocBuilt DEF Built
<1>1. /\ Cols \in Nat \ {0} /\ ClickCap \in Nat /\ DrawCap \in Nat
      /\ Cols < ClickCap /\ Cols < DrawCap
  BY ViewAssumption
<1>2. CASE ~(p <= Len(d.text))
  <2>1. CharAt(d.text, p) = "NUL"
    BY <1>2 DEF CharAt
  <2> QED BY <2>1 DEF NextRow
<1>3. CASE p <= Len(d.text) /\ b # NoBox
  <2>1. PICK s, u, h : ImageAt(d, d.of[p], s, u, h) /\ p \in (s + 3 + u)..(s + 1 + u + h)
    BY <1>3 DEF BoxAt
  <2>2. NextRow(d.text, p, Cols, ClickCap) = Row(p, 0, p + 1)
    BY <1>0, <2>1, EmptyRowFacts
  <2>3. NextRow(d.text, p, Cols, DrawCap) = Row(p, 0, p + 1)
    BY <1>0, <2>1, EmptyRowFacts
  <2> QED BY <2>2, <2>3
<1>4. CASE p <= Len(d.text) /\ b = NoBox /\ d.of[p].piece.char = "RS"
  <2>1. p \in 1..Len(d.text)
    BY <1>0, <1>4
  <2>2. PICK s, u, h : ImageAt(d, d.of[p], s, u, h)
    BY <1>0, <1>4, <2>1, ImageHere
  <2>3. u \in Nat /\ u + 2 < DrawCap /\ d.of[p].start = s /\ d.of[p].piece.url = u
    BY <2>2 DEF ImageAt
  <2>4. p = s
    BY <1>4, <2>3 DEF BoxAt
  <2>5. u + 2 < ClickCap
    <3>1. PICK i \in 1..Len(d.pieces) : d.of[p].piece = d.pieces[i]
      BY <1>0, <2>1
    <3>2. i \in DOMAIN d.pieces
      BY DEF Document
    <3> QED BY <1>4, <2>3, <3>1, <3>2 DEF AllFit
  <2>6. NextRow(d.text, s, Cols, ClickCap) = Row(s, u + 2, s + u + 3)
    BY <1>0, <1>1, <2>2, <2>5, MarkerRowFacts
  <2>7. NextRow(d.text, s, Cols, DrawCap) = Row(s, u + 2, s + u + 3)
    BY <1>0, <1>1, <2>2, <2>3, MarkerRowFacts
  <2> QED BY <2>4, <2>6, <2>7
<1>5. CASE p <= Len(d.text) /\ b = NoBox /\ d.of[p].piece.char # "RS"
  <2>1. p \in 1..Len(d.text)
    BY <1>0, <1>5
  <2>2. PICK s : s = SkipSpaces(d.text, p)
    OBVIOUS
  <2>3. s \in p..(Len(d.text) + 1) /\ \A k \in p..(s - 1) : d.text[k] \in {"SP"}
    <3>1. "NUL" \notin {"SP"} /\ s = After(d.text, p, {"SP"})
      BY <2>2 DEF SkipSpaces
    <3> QED BY <1>0, <3>1, AfterFacts
  <2>4. CharAt(d.text, s) # "RS"
    <3> SUFFICES ASSUME CharAt(d.text, s) = "RS" PROVE FALSE
      OBVIOUS
    <3>1. s \in p..Len(d.text) /\ d.text[s] = "RS" /\ s \in 1..Len(d.text)
      BY <1>0, <2>1, <2>3 DEF CharAt
    <3>2. d.of[s].piece.char = "RS"
      BY <1>0, <3>1, PlainHere
    <3>3. PICK q \in (p + 1)..s : d.text[q - 1] = "LF"
      BY <1>0, <1>5, <2>1, <3>1, <3>2, LineBefore
    <3>4. q - 1 \in p..(s - 1)
      BY <1>0, <2>1, <3>1
    <3> QED BY <2>3, <3>3, <3>4
  <2>5. Room(Cols, ClickCap) = Cols /\ Room(Cols, DrawCap) = Cols
    BY <1>1 DEF Room, Least
  <2>6. WrappedRow(d.text, s, Cols, ClickCap) = WrappedRow(d.text, s, Cols, DrawCap)
    BY <2>5, Zenon DEF WrappedRow
  <2>7. \A cap : NextRow(d.text, p, Cols, cap) =
                   CASE CharAt(d.text, p) = "NUL" -> NoRow(p)
                     [] CharAt(d.text, p) = "LF"  -> Row(p, 0, p + 1)
                     [] CharAt(d.text, p) \notin {"NUL", "LF"} ->
                          WrappedRow(d.text, s, Cols, cap)
    BY <2>2, <2>4, Zenon DEF NextRow
  <2> QED BY <2>6, <2>7, Zenon
<1> QED BY <1>0, <1>2, <1>3, <1>4, <1>5

\* What a click on column c of row k of the window should open.
Opened(k, c) ==
    LET p == screen[k].from + c
    IN  IF k \in DOMAIN screen /\ Shows(k, p) THEN doc.of[p].piece.href ELSE ""

\* What the hit test takes from the row r that it has come to.
HitOf(r, c) ==
    IF r.more /\ ~IsMarker(r) /\ c < r.n THEN HrefAt(doc.links, r.from + c) ELSE ""

\* The rows of the screen, by number.
LEMMA SliceRows ==
  ASSUME NEW d, NEW above \in Nat, NEW scr, RowsFrom(d, 1) \in Seq(Shown), Slice(d, above, scr),
         NEW k \in 1..MaxRows
  PROVE  /\ k \in DOMAIN scr <=> above + k <= Len(RowsFrom(d, 1))
         /\ above + k <= Len(RowsFrom(d, 1)) => scr[k] = RowsFrom(d, 1)[above + k]
<1>1. PICK T, n, e : /\ T = RowsFrom(d, 1) /\ n = Len(RowsFrom(d, 1))
                     /\ e = Least(Len(RowsFrom(d, 1)), above + MaxRows)
  OBVIOUS
<1>2. n \in Nat /\ MaxRows \in Nat /\ T \in Seq(Shown)
  BY <1>1, ViewAssumption
<1>3. e \in Nat /\ e <= n /\ e <= above + MaxRows /\ (e = n \/ e = above + MaxRows)
  BY <1>1, <1>2 DEF Least
<1>4. ASSUME NEW i \in (above + 1)..e PROVE T[i] \in Shown
  <2>1. i \in 1..Len(T)
    BY <1>1, <1>2, <1>3
  <2> QED BY <1>2, <2>1, ElementOfSeq
<1>5. PICK w : w = SubSeq(T, above + 1, e)
  OBVIOUS
<1>6. /\ w \in Seq(Shown)
      /\ Len(w) = IF above + 1 <= e THEN e - (above + 1) + 1 ELSE 0
      /\ \A i \in 1..(e - (above + 1) + 1) : w[i] = T[(above + 1) + i - 1]
  <2>1. above + 1 \in Int /\ e \in Int
    BY <1>3
  <2> QED BY <1>4, <1>5, <2>1, SubSeqProperties
<1>7. DOMAIN w = 1..Len(w)
  BY <1>6
<1>8. k \in DOMAIN w <=> above + k <= n
  <2>1. k \in DOMAIN w <=> k <= Len(w)
    <3>1. Len(w) \in Nat
      BY <1>6
    <3> QED BY <1>7, <3>1
  <2>2. k <= Len(w) <=> above + k <= e
    BY <1>3, <1>6
  <2>3. above + k <= e <=> above + k <= n
    BY <1>2, <1>3
  <2> QED BY <2>1, <2>2, <2>3
<1>9. ASSUME above + k <= n PROVE w[k] = T[above + k]
  <2>1. k \in 1..(e - (above + 1) + 1) /\ (above + 1) + k - 1 = above + k
    BY <1>2, <1>3, <1>9
  <2>2. w[k] = T[(above + 1) + k - 1]
    BY <1>6, <2>1
  <2> QED BY <2>1, <2>2
<1>10. w = scr
  BY <1>1, <1>5 DEF Slice
<1> QED BY <1>1, <1>8, <1>9, <1>10

\* The hit test comes to the row that was drawn where the click is, or to the end of the
\* page.
LEMMA HitRight ==
  ASSUME DocInv, AllFit(doc.pieces), scroll \in Nat, Slice(doc, scroll, screen),
         pos \in 1..(Len(doc.text) + 1), NEW b, BoxAt(doc, b, pos),
         row \in Nat, PagePart(doc, row, <<>>, pos),
         NEW k \in 1..MaxRows, NEW c \in Nat, row + 1 <= scroll + k,
         NEW r, r = NextRow(doc.text, pos, Cols, ClickCap), ~r.more \/ row + 1 = scroll + k
  PROVE  HitOf(r, c) = Opened(k, c)
<1>0. Built(doc) /\ Linked(doc) /\ Len(doc.text) \in Nat /\ Document(doc)
  BY DocBuilt DEF DocInv
<1>1. r = NextRow(doc.text, pos, Cols, DrawCap)
  BY <1>0, SameRow
<1>2. PICK R, T : R = RowsFrom(doc, pos) /\ T = RowsFrom(doc, 1)
  OBVIOUS
<1>3. /\ Len(T) = row + Len(R) /\ Len(R) \in Nat /\ T \in Seq(Shown)
      /\ Len(R) > 0 => T[row + 1] = R[1]
  <2>1. PICK none : none = <<>>
    OBVIOUS
  <2>2. none \in Seq(Shown) /\ Len(none) = 0 /\ PagePart(doc, row, none, pos)
    BY <2>1, EmptySeq
  <2>3. /\ Len(T) = row + Len(none) + Len(R) /\ Len(R) \in Nat /\ T \in Seq(Shown)
        /\ Len(R) > 0 => T[row + Len(none) + 1] = R[1]
    <3>0. Built(doc) /\ pos \in 1..(Len(doc.text) + 1) /\ row \in Nat
      BY <1>0
    <3>1. Len(RowsFrom(doc, 1)) = row + Len(none) + Len(RowsFrom(doc, pos))
      BY <2>2, <3>0, RowPartFacts, ZenonT(30)
    <3>2. Len(RowsFrom(doc, pos)) \in Nat
      BY <2>2, <3>0, RowPartFacts
    <3>3. RowsFrom(doc, 1) \in Seq(Shown)
      BY <2>2, <3>0, RowPartFacts
    <3>4. Len(RowsFrom(doc, pos)) > 0 =>
                RowsFrom(doc, 1)[row + Len(none) + 1] = RowsFrom(doc, pos)[1]
      BY <2>2, <3>0, FirstBelow
    <3> QED BY <1>2, <3>1, <3>2, <3>3, <3>4
  <2>4. row + Len(none) + 1 = row + 1 /\ row + Len(none) = row
    BY <2>2
  <2> QED BY <2>3, <2>4
<1>4. /\ k \in DOMAIN screen <=> scroll + k <= Len(T)
      /\ scroll + k <= Len(T) => screen[k] = T[scroll + k]
  BY <1>2, <1>3, SliceRows
<1>5. CASE ~(pos <= Len(doc.text))
  <2>1. r.more = FALSE
    BY <1>0, <1>1, <1>5, RowOfPage
  <2>2. R = <<>>
    BY <1>0, <1>2, <1>5, RowsUnfold
  <2>3. Len(R) = 0
    BY <2>2, EmptySeq
  <2>4. ~(scroll + k <= Len(T))
    BY <1>3, <2>3
  <2>5. HitOf(r, c) = ""
    BY <2>1 DEF HitOf
  <2>6. Opened(k, c) = ""
    BY <1>4, <2>4 DEF Opened
  <2> QED BY <2>5, <2>6
<1>6. CASE pos <= Len(doc.text)
  <2>1. pos \in 1..Len(doc.text)
    BY <1>0, <1>6
  <2>2. PICK x : x = RowOf(doc, r)
    OBVIOUS
  <2>3. /\ r.more = TRUE /\ RowFrom(doc.text, pos, r) /\ x \in Shown
        /\ Drawn(b, r) = x
    BY <1>0, <1>1, <1>6, <2>1, <2>2, RowOfPage, RowDrawn DEF RowStep
  <2>4. row + 1 = scroll + k
    BY <2>3
  <2>5. R = <<x>> \o RowsFrom(doc, r.next)
    BY <1>0, <1>1, <1>2, <1>6, <2>2, RowsUnfold
  <2>6. Len(R) > 0 /\ R[1] = x
    <3>1. PICK y, z : y = <<x>> /\ z = RowsFrom(doc, r.next)
      OBVIOUS
    <3>2. r.next \in 1..(Len(doc.text) + 1)
      BY <1>0, <2>1, <2>3 DEF RowFrom
    <3>3. y \in Seq(Shown) /\ z \in Seq(Shown)
      BY <1>0, <2>3, <3>1, <3>2, RowsTyped
    <3>4. Len(y) = 1 /\ y[1] = x
      BY <3>1
    <3>5. Len(y \o z) = Len(y) + Len(z) /\ Len(z) \in Nat /\ (y \o z)[1] = y[1]
      BY <3>3, <3>4, CatFacts, SMTT(30)
    <3> QED BY <2>5, <3>1, <3>4, <3>5
  <2>7. k \in DOMAIN screen /\ screen[k] = x
    BY <1>3, <1>4, <2>4, <2>6
  <2>8. CASE b # NoBox
    <3>1. x.image = TRUE
      BY <2>3, <2>8 DEF Drawn
    <3>2. PICK s, u, h : /\ ImageAt(doc, doc.of[pos], s, u, h)
                         /\ pos \in (s + 3 + u)..(s + 1 + u + h)
      BY <2>8 DEF BoxAt
    <3>3. r = Row(pos, 0, pos + 1)
      BY <1>0, <3>2, EmptyRowFacts
    <3>4. ~(c < r.n)
      BY <3>3 DEF Row
    <3>5. HitOf(r, c) = ""
      BY <3>4 DEF HitOf
    <3>6. Opened(k, c) = ""
      BY <2>7, <3>1 DEF Opened, Shows
    <3> QED BY <3>5, <3>6
  <2>9. CASE b = NoBox /\ IsMarker(r)
    <3>1. x.image = TRUE
      BY <2>3, <2>9 DEF Drawn
    <3>2. HitOf(r, c) = ""
      BY <2>9 DEF HitOf
    <3>3. Opened(k, c) = ""
      BY <2>7, <3>1 DEF Opened, Shows
    <3> QED BY <3>2, <3>3
  <2>10. CASE b = NoBox /\ ~IsMarker(r)
    <3>1. x = [image |-> FALSE, from |-> r.from, n |-> r.n]
      BY <2>3, <2>10 DEF Drawn
    <3>2. x.image = FALSE /\ x.from = r.from /\ x.n = r.n
      BY <3>1
    <3>3. r.from \in Nat /\ r.n \in Nat /\ r.from \in 1..(Len(doc.text) + 1)
          /\ r.from + r.n <= Len(doc.text) + 1
      <4>1. /\ r.from \in pos..(Len(doc.text) + 1) /\ r.n \in Nat
            /\ r.next \in (pos + 1)..(Len(doc.text) + 1) /\ r.from + r.n <= r.next
        BY <2>3 DEF RowFrom
      <4>2. pos \in Nat \ {0} /\ Len(doc.text) \in Nat
        BY <1>0, <2>1
      <4> QED BY <4>1, <4>2
    <3>4. PICK q : q = r.from + c
      OBVIOUS
    <3>5. Shows(k, q) <=> c < r.n
      <4>1. Shows(k, q) <=> (x.image = FALSE /\ x.from <= q /\ q < x.from + x.n)
        BY <2>7, <3>2 DEF Shows
      <4>2. x.from <= q /\ (q < x.from + x.n <=> c < r.n)
        BY <3>2, <3>3, <3>4
      <4> QED BY <3>2, <4>1, <4>2
    <3>6. CASE c < r.n
      <4>0. PICK n : n = Len(doc.text)
        OBVIOUS
      <4>1. q \in 1..Len(doc.text)
        <5>1. /\ n \in Nat /\ c \in Nat /\ r.from \in 1..(n + 1) /\ r.n \in Nat
              /\ r.from + r.n <= n + 1 /\ q = r.from + c /\ c < r.n
          BY <1>0, <3>3, <3>4, <3>6, <4>0
        <5>2. q \in 1..n
          BY <5>1, SMTT(30)
        <5> QED BY <4>0, <5>2
      <4>2. HrefAt(doc.links, q) = doc.of[q].piece.href
        BY <1>0, <4>1, HrefAtIs
      <4>3. HitOf(r, c) = HrefAt(doc.links, q)
        BY <2>3, <2>10, <3>4, <3>6 DEF HitOf
      <4>4. Opened(k, c) = doc.of[q].piece.href
        BY <2>7, <3>2, <3>4, <3>5, <3>6 DEF Opened
      <4> QED BY <4>2, <4>3, <4>4
    <3>7. CASE ~(c < r.n)
      <4>1. HitOf(r, c) = ""
        BY <3>7 DEF HitOf
      <4>2. Opened(k, c) = ""
        BY <2>7, <3>2, <3>4, <3>5, <3>7 DEF Opened
      <4> QED BY <4>1, <4>2
    <3> QED BY <3>6, <3>7
  <2> QED BY <2>8, <2>9, <2>10
<1> QED BY <1>5, <1>6

-----------------------------------------------------------------------------
\* The markers of the pages fit the hit test's line[256] as they fit line[1024].
MarkersFit == \A ps \in Pages : AllFit(ps)

\* The markers of the page fit.
FitInv == AllFit(doc.pieces)

\* A click looks for a row of the window; nothing is looked for while the page is painted.
AimInv ==
    /\ walk \in {"skip", "draw"} => aim = NoAim
    /\ walk = "idle" => row = 0

\* The hit test is at the start of a row of the page, and not past the one it looks for.
ClickInv ==
    walk = "click" =>
        /\ PagePart(doc, row, <<>>, pos) /\ \E b : BoxAt(doc, b, pos)
        /\ \E k \in 1..MaxRows, c \in Nat :
            /\ aim = [row |-> scroll + k - 1, col |-> c, on |-> TRUE]
            /\ row + 1 <= scroll + k

HitInv == ViewInv /\ FitInv /\ AimInv /\ ClickInv /\ ClickHitsShown

\* Nothing has been clicked when the page is opened.
LEMMA HitInvInit == MarkersFit /\ ViewInit => HitInv
<1> SUFFICES ASSUME MarkersFit, ViewInit PROVE HitInv
  OBVIOUS
<1>1. ViewInv
  BY ViewInvInit
<1>2. FitInv
  <2>1. PICK ps \in Pages : doc = PageOf(ps)
    BY DEF ViewInit
  <2>2. ps \in Seq(PageItem) /\ Written(ps)
    BY PagesAssumption
  <2>3. doc.pieces = ps
    BY <2>1, <2>2, PageFacts
  <2> QED BY <2>3 DEF MarkersFit, FitInv
<1>3. walk = "skip" /\ aim = NoAim
  BY DEF ViewInit
<1> QED BY <1>1, <1>2, <1>3 DEF HitInv, AimInv, ClickInv, ClickHitsShown

\* New heights leave the markers as long as they were.
LEMMA FitKept ==
  ASSUME DocInv, FitInv, ImagesArrive
  PROVE  FitInv'
<1>1. PICK ps, qs : ps = doc.pieces /\ qs = doc'.pieces
  OBVIOUS
<1>2. /\ ps \in Seq(PageItem) /\ qs \in Seq(PageItem) /\ Len(qs) = Len(ps)
      /\ \A k \in 1..Len(ps) : qs[k].char = ps[k].char /\ qs[k].url = ps[k].url
  BY <1>1, HeightsInv DEF DocInv, Document
<1>3. DOMAIN ps = 1..Len(ps) /\ DOMAIN qs = 1..Len(ps)
  BY <1>2
<1>4. AllFit(qs)
  BY <1>1, <1>2, <1>3 DEF FitInv, AllFit
<1> QED BY <1>1, <1>4 DEF FitInv

\* A click starts looking at the first row of the page.
LEMMA ClickStarts ==
  ASSUME HitInv, Click
  PROVE  ClickInv'
<1>1. PICK r \in 0..(MaxRows - 1), c \in 0..(Cols - 1) :
        aim' = [row |-> r + scroll, col |-> c, on |-> TRUE]
  BY DEF Click
<1>2. /\ walk = "idle" /\ row = 0 /\ pos = 1 /\ scroll \in Nat /\ Built(doc)
  <2>1. walk = "idle" /\ row = 0
    BY DEF Click, HitInv, AimInv
  <2>2. pos = 1 /\ scroll \in Nat /\ DocInv
    BY <2>1 DEF HitInv, ViewInv, IdleInv, WalkInv
  <2> QED BY <2>1, <2>2, DocBuilt DEF DocInv
<1>3. PagePart(doc, 0, <<>>, 1) /\ BoxAt(doc, NoBox, 1)
  BY <1>2, NothingPassed, FirstBox
<1>4. doc' = doc /\ scroll' = scroll /\ row' = row /\ pos' = pos
  BY DEF Click
<1>5. PICK k : k = r + 1
  OBVIOUS
<1>6. /\ MaxRows \in Nat /\ Cols \in Nat
      /\ k \in 1..MaxRows /\ c \in Nat /\ r + scroll = scroll + k - 1 /\ 0 + 1 <= scroll + k
  BY <1>2, <1>5, ViewAssumption
<1>7. aim' = [row |-> scroll + k - 1, col |-> c, on |-> TRUE]
  BY <1>1, <1>6
<1> QED BY <1>2, <1>3, <1>4, <1>6, <1>7 DEF ClickInv

\* The hit test passes a row as the renderer does.
LEMMA RowPassed ==
  ASSUME HitInv, PassRow
  PROVE  ClickInv'
<1>0. PICK b : BoxAt(doc, b, pos)
  BY DEF HitInv, ClickInv, PassRow
<1>1. PICK k \in 1..MaxRows, c \in Nat :
        /\ aim = [row |-> scroll + k - 1, col |-> c, on |-> TRUE]
        /\ PagePart(doc, row, <<>>, pos)
  BY DEF HitInv, ClickInv, PassRow
<1>2. PICK r : r = NextRow(Text, pos, Cols, ClickCap)
  OBVIOUS
<1>3. /\ r.more /\ pos' = r.next /\ row' = row + 1 /\ row < aim.row
      /\ doc' = doc /\ scroll' = scroll /\ walk' = walk /\ aim' = aim
  BY <1>2 DEF PassRow
<1>4. /\ DocInv /\ AllFit(doc.pieces) /\ scroll \in Nat /\ row \in Nat
      /\ pos \in 1..(Len(doc.text) + 1)
  BY DEF HitInv, ViewInv, WalkInv, FitInv
<1>5. Built(doc) /\ Len(doc.text) \in Nat /\ Document(doc)
  BY <1>4, DocBuilt DEF DocInv
<1>6. r = NextRow(doc.text, pos, Cols, DrawCap)
  BY <1>0, <1>2, <1>4, <1>5, SameRow DEF Text
<1>7. pos \in 1..Len(doc.text)
  <2>1. ~(pos <= Len(doc.text)) => r.more = FALSE
    BY <1>4, <1>5, <1>6, RowOfPage
  <2> QED BY <1>3, <1>4, <1>5, <2>1
<1>8. PagePart(doc, row + 1, <<>>, r.next)
  BY <1>1, <1>4, <1>5, <1>6, <1>7, PartPassed
<1>9. BoxAt(doc, Reserve(b, r), r.next)
  BY <1>0, <1>5, <1>6, <1>7, RowDrawn DEF RowStep
<1>10. (row + 1) + 1 <= scroll + k
  <2>1. aim.row = scroll + k - 1 /\ MaxRows \in Nat
    BY <1>1, ViewAssumption
  <2> QED BY <1>3, <1>4, <2>1
<1>11. PICK e : e = Reserve(b, r)
  OBVIOUS
<1> QED BY <1>1, <1>3, <1>8, <1>9, <1>10, <1>11 DEF ClickInv

\* What the hit test opens is what was drawn.
LEMMA ClickResolved ==
  ASSUME HitInv, Resolve
  PROVE  ClickHitsShown'
<1>0. PICK b : BoxAt(doc, b, pos)
  BY DEF HitInv, ClickInv, Resolve
<1>1. PICK k \in 1..MaxRows, c \in Nat :
        /\ aim = [row |-> scroll + k - 1, col |-> c, on |-> TRUE]
        /\ row + 1 <= scroll + k
        /\ PagePart(doc, row, <<>>, pos)
  BY DEF HitInv, ClickInv, Resolve
<1>2. PICK r : r = NextRow(doc.text, pos, Cols, ClickCap)
  OBVIOUS
<1>3. /\ ~r.more \/ row = aim.row
      /\ hit' = IF r.more /\ ~IsMarker(r) /\ aim.col < r.n
                THEN HrefAt(doc.links, r.from + aim.col) ELSE ""
      /\ doc' = doc /\ scroll' = scroll /\ screen' = screen /\ aim' = aim
  BY <1>2 DEF Resolve, Text
<1>4. /\ DocInv /\ AllFit(doc.pieces) /\ scroll \in Nat /\ row \in Nat
      /\ pos \in 1..(Len(doc.text) + 1)
  BY DEF HitInv, ViewInv, WalkInv, FitInv
<1>5. Slice(doc, scroll, screen)
  BY DEF HitInv, ViewInv, RestInv, Resolve
<1>6. aim.row = scroll + k - 1 /\ aim.col = c /\ aim.on = TRUE /\ k \in Nat
  BY <1>1, ViewAssumption
<1>7. ~r.more \/ row + 1 = scroll + k
  <2>1. CASE ~r.more
    BY <2>1
  <2>2. CASE row = aim.row
    BY <1>4, <1>6, <2>2
  <2> QED BY <1>3, <2>1, <2>2
<1>8. HitOf(r, c) = Opened(k, c)
  BY <1>0, <1>1, <1>2, <1>4, <1>5, <1>7, HitRight
<1>9. hit' = HitOf(r, c)
  BY <1>3, <1>6 DEF HitOf
<1>10. aim.row - scroll + 1 = k
  BY <1>4, <1>6
<1>11. hit' = IF k \in DOMAIN screen /\ Shows(k, screen[k].from + c)
              THEN doc.of[screen[k].from + c].piece.href ELSE ""
  BY <1>8, <1>9 DEF Opened
<1> QED BY <1>3, <1>6, <1>10, <1>11 DEF ClickHitsShown, Shows

\* Every step keeps the invariant of clicks.
LEMMA HitInvStep == HitInv /\ [ViewNext]_viewVars => HitInv'
<1> SUFFICES ASSUME HitInv, [ViewNext]_viewVars PROVE HitInv'
  OBVIOUS
<1>1. ViewInv'
  BY ViewInvStep DEF HitInv
<1>2. CASE SkipRow \/ Skipped \/ DrawRow
  <2>1. /\ walk \in {"skip", "draw"} /\ walk' \in {"skip", "draw"} /\ aim' = aim /\ doc' = doc
    BY <1>2 DEF SkipRow, Skipped, DrawRow
  <2>2. aim' = NoAim
    BY <2>1 DEF HitInv, AimInv
  <2> QED BY <1>1, <2>1, <2>2 DEF HitInv, FitInv, AimInv, ClickInv, ClickHitsShown
<1>3. CASE Painted
  <2>1. /\ walk = "draw" /\ walk' = "idle" /\ aim' = aim /\ doc' = doc /\ row' = 0
    BY <1>3 DEF Painted
  <2>2. aim' = NoAim
    BY <2>1 DEF HitInv, AimInv
  <2>3. aim'.on = FALSE
    BY <2>2 DEF NoAim
  <2> QED BY <1>1, <2>1, <2>2, <2>3 DEF HitInv, FitInv, AimInv, ClickInv, ClickHitsShown
<1>4. CASE Click
  <2>1. walk' = "click" /\ doc' = doc
    BY <1>4 DEF Click
  <2>2. ClickInv'
    BY <1>4, ClickStarts
  <2> QED BY <1>1, <2>1, <2>2 DEF HitInv, FitInv, AimInv, ClickHitsShown
<1>5. CASE PassRow
  <2>1. walk' = "click" /\ doc' = doc
    BY <1>5 DEF PassRow
  <2>2. ClickInv'
    BY <1>5, RowPassed
  <2> QED BY <1>1, <2>1, <2>2 DEF HitInv, FitInv, AimInv, ClickHitsShown
<1>6. CASE Resolve
  <2>1. walk' = "idle" /\ doc' = doc /\ row' = 0
    BY <1>6 DEF Resolve
  <2>2. ClickHitsShown'
    BY <1>6, ClickResolved
  <2> QED BY <1>1, <2>1, <2>2 DEF HitInv, FitInv, AimInv, ClickInv
<1>7. CASE Wheel \/ ImagesArrive
  <2>1. walk' = "skip" /\ aim' = NoAim
    BY <1>7 DEF Wheel, ImagesArrive, Restart
  <2>2. FitInv'
    <3>1. CASE Wheel
      BY <3>1 DEF Wheel, HitInv, FitInv
    <3>2. CASE ImagesArrive
      BY <3>2, FitKept DEF HitInv, ViewInv
    <3> QED BY <1>7, <3>1, <3>2
  <2> QED BY <1>1, <2>1, <2>2 DEF HitInv, AimInv, ClickInv, ClickHitsShown
<1>8. CASE UNCHANGED viewVars
  BY <1>1, <1>8 DEF viewVars, HitInv, FitInv, AimInv, ClickInv, ClickHitsShown, Shows
<1> QED BY <1>2, <1>3, <1>4, <1>5, <1>6, <1>7, <1>8 DEF ViewNext, Walking

\* If every marker fits the hit test's line, browser_ui_try_link_click opens the link
\* whose text draw_body_wrapped has drawn where the click is, and no other.
THEOREM ClickOpensShown == MarkersFit /\ ViewSpec => []ClickHitsShown
<1>1. MarkersFit /\ ViewInit => HitInv
  BY HitInvInit
<1>2. HitInv /\ [ViewNext]_viewVars => HitInv'
  BY HitInvStep
<1>3. HitInv => ClickHitsShown
  BY DEF HitInv
<1> QED BY <1>1, <1>2, <1>3, PTL DEF ViewSpec

-----------------------------------------------------------------------------
(***************************************************************************)
(* Navigation.                                                             *)
(***************************************************************************)
USE NavigationAssumption

\* One socket while the navigation waits on one.
SocketInv == /\ SocketsAccounted
             /\ qtype \in {"AAAA", "A"}
             /\ DOMAIN sock = {"to", "blocking", "timed", "arrived"}

\* The process never loses a socket, on none of the ways out of a query, a connection
\* or an exchange, and TLS gets one that blocks and has its timeouts.
THEOREM SocketsNeverLost == Spec => []SocketsAccounted
<1>1. Init => SocketInv
  BY DEF Init, SocketInv, SocketsAccounted, NoSock
<1>2. SocketInv /\ [Next]_vars => SocketInv'
  <2> SUFFICES ASSUME SocketInv, [Next]_vars PROVE SocketInv'
    OBVIOUS
  <2> USE DEF SocketInv, SocketsAccounted
  <2>1. ASSUME NEW u, Begin(u) PROVE SocketInv'
    BY <2>1 DEF Begin
  <2>2. CASE TryServer
    <3>1. CASE CannotAsk
      BY <3>1 DEF CannotAsk, NextServer, GiveUpAddress
    <3>2. CASE Ask
      BY <3>2 DEF Ask
    <3>3. CASE Resolved
      BY <3>3 DEF Resolved, AskDone
    <3>4. CASE NotResolved
      BY <3>4 DEF NotResolved, AskDone, NextServer, GiveUpAddress
    <3> QED BY <2>2, <3>1, <3>2, <3>3, <3>4 DEF TryServer
  <2>3. CASE ConnectRefused \/ ConnectWithTimeout
    <3>1. CASE ConnectRefused
      BY <3>1 DEF ConnectRefused, GiveUpAddress
    <3>2. CASE ConnectAtOnce
      BY <3>2 DEF ConnectAtOnce, Ready
    <3>3. CASE ConnectBegins
      BY <3>3 DEF ConnectBegins, NoSock
    <3>4. CASE ConnectDone
      BY <3>4 DEF ConnectDone, Ready
    <3>5. CASE ConnectFails
      BY <3>5 DEF ConnectFails, GiveUpAddress, NoSock
    <3> QED BY <2>3, <3>1, <3>2, <3>3, <3>4, <3>5 DEF ConnectWithTimeout
  <2>4. CASE ExchangeFails \/ Encoded \/ Final
    BY <2>4 DEF ExchangeFails, Encoded, Final, HangUp, NoSock
  <2>5. CASE Redirect
    BY <2>5 DEF Redirect, HangUp, NoSock
  <2>6. CASE Show \/ Unreachable
    BY <2>6 DEF Show, Unreachable, net
  <2>7. CASE UNCHANGED vars
    BY <2>7 DEF vars, net
  <2>8. CASE ServerSends \/ ReadOn
    BY <2>8 DEF ServerSends, ReadOn
  <2> QED
    BY <2>1, <2>2, <2>3, <2>4, <2>5, <2>6, <2>7, <2>8
    DEF Next, Work, Reload, Type, Follow, TryServerAAAA, TryServerAAAA4, TryServerA6,
        TryServerA4, Tcp6Connect, Tcp4Connect
<1>3. SocketInv => SocketsAccounted
  BY DEF SocketInv
<1> QED
  BY <1>1, <1>2, <1>3, PTL DEF Spec

-----------------------------------------------------------------------------
\* A query is of the host and kind looked for, and no answer under way has its
\* identifier: so that what is accepted is the answer to it.
AddressInv ==
    /\ AddressIsOfHost
    /\ qtype \in {"AAAA", "A"}
    /\ DOMAIN sock = {"to", "blocking", "timed", "arrived"}
    /\ pc = "await" => /\ query.host = url.host /\ query.type = qtype
                       /\ \A a \in late : a.id # query.id

\* Whatever answers are late, lost or refused, every connection is to an address of the
\* host whose page is asked for.
THEOREM AddressesRight == Spec => []AddressIsOfHost
<1>1. Init => AddressInv
  BY DEF Init, AddressInv, AddressIsOfHost, NoSock
<1>2. AddressInv /\ [Next]_vars => AddressInv'
  <2> SUFFICES ASSUME AddressInv, [Next]_vars PROVE AddressInv'
    OBVIOUS
  <2> USE DEF AddressInv, AddressIsOfHost, Target
  <2>1. ASSUME NEW u, Begin(u) PROVE AddressInv'
    BY <2>1 DEF Begin
  <2>2. CASE TryServer
    <3>1. CASE CannotAsk
      BY <3>1 DEF CannotAsk, NextServer, GiveUpAddress
    <3>2. CASE Ask
      BY <3>2 DEF Ask
    <3>3. CASE Resolved
      <4>1. PICK a \in late \cup {query} :
              /\ Accepts(a)
              /\ IF qtype = "AAAA"
                 THEN ip6' = [host |-> a.host, type |-> a.type] /\ UNCHANGED ip4
                 ELSE ip4' = [host |-> a.host, type |-> a.type] /\ UNCHANGED ip6
        BY <3>3 DEF Resolved
      <4>2. a = query
        BY <3>3, <4>1 DEF Resolved, Accepts
      <4> QED BY <3>3, <4>1, <4>2 DEF Resolved
    <3>4. CASE NotResolved
      BY <3>4 DEF NotResolved, NextServer, GiveUpAddress
    <3> QED BY <2>2, <3>1, <3>2, <3>3, <3>4 DEF TryServer
  <2>3. CASE ConnectRefused \/ ConnectWithTimeout
    <3>1. CASE ConnectRefused
      BY <3>1 DEF ConnectRefused, GiveUpAddress
    <3>2. CASE ConnectAtOnce
      BY <3>2 DEF ConnectAtOnce, Ready
    <3>3. CASE ConnectBegins
      BY <3>3 DEF ConnectBegins, NoSock
    <3>4. CASE ConnectDone
      BY <3>4 DEF ConnectDone, Ready
    <3>5. CASE ConnectFails
      BY <3>5 DEF ConnectFails, GiveUpAddress, NoSock
    <3> QED BY <2>3, <3>1, <3>2, <3>3, <3>4, <3>5 DEF ConnectWithTimeout
  <2>4. CASE ExchangeFails \/ Encoded \/ Final
    BY <2>4 DEF ExchangeFails, Encoded, Final, HangUp, NoSock
  <2>5. CASE Redirect
    BY <2>5 DEF Redirect, HangUp, NoSock
  <2>6. CASE Show \/ Unreachable
    BY <2>6 DEF Show, Unreachable, net
  <2>7. CASE UNCHANGED vars
    BY <2>7 DEF vars, net
  <2>8. CASE ServerSends \/ ReadOn
    BY <2>8 DEF ServerSends, ReadOn
  <2> QED
    BY <2>1, <2>2, <2>3, <2>4, <2>5, <2>6, <2>7, <2>8
    DEF Next, Work, Reload, Type, Follow, TryServerAAAA, TryServerAAAA4, TryServerA6,
        TryServerA4, Tcp6Connect, Tcp4Connect
<1>3. AddressInv => AddressIsOfHost
  BY DEF AddressInv
<1> QED
  BY <1>1, <1>2, <1>3, PTL DEF Spec

-----------------------------------------------------------------------------
\* What is in the body buffer when a page is about to be shown: nothing, the body of the
\* place the browser is at, or, redirects being spent, that of the page that leads there.
LoadInv ==
    /\ url # NoUrl
    /\ DOMAIN page = {"text", "bar", "active", "have"}
    /\ pc # "idle" => page.text \in {Blank, Message}
    /\ pc \notin {"idle", "show", "unreachable"} => step \in 0..(MaxSteps - 1)
    /\ pc = "show" => \/ body \in {NoUrl, url}
                      \/ step = MaxSteps /\ Led(body, url)

LEMMA LoadInvInit == Init => LoadInv
BY DEF Init, LoadInv, EmptyPage, DefaultUrl, NoUrl

LEMMA LoadInvStep == LoadInv /\ [Next]_vars => LoadInv'
<1> SUFFICES ASSUME LoadInv, [Next]_vars PROVE LoadInv'
  OBVIOUS
<1> USE DEF LoadInv
<1>1. ASSUME NEW u, Begin(u) PROVE LoadInv'
  BY <1>1 DEF Begin
<1>2. CASE TryServer
  BY <1>2 DEF TryServer, CannotAsk, Ask, Resolved, NotResolved, NextServer, GiveUpAddress
<1>3. CASE ConnectRefused \/ ConnectWithTimeout
  BY <1>3 DEF ConnectRefused, ConnectWithTimeout, ConnectAtOnce, ConnectBegins,
              ConnectDone, ConnectFails, GiveUpAddress
<1>4. CASE ExchangeFails \/ Encoded \/ Final \/ ServerSends \/ ReadOn
  BY <1>4 DEF ExchangeFails, Encoded, Final, ServerSends, ReadOn
<1>5. CASE Redirect
  <2>1. /\ step \in 0..(MaxSteps - 1) /\ step' = step + 1
        /\ url' # NoUrl /\ UNCHANGED page
        /\ page.text \in {Blank, Message}
    BY <1>5 DEF Redirect
  <2>2. CASE step' < MaxSteps
    BY <1>5, <2>1, <2>2 DEF Redirect
  <2>3. CASE ~(step' < MaxSteps)
    <3>1. step' = MaxSteps /\ pc' = "show"
      BY <1>5, <2>1, <2>3 DEF Redirect
    <3>2. body' \in {NoUrl, url} /\ Led(url, url')
      BY <1>5 DEF Redirect, Led
    <3>3. body' = NoUrl \/ Led(body', url')
      BY <3>2
    <3>4. (body \in {NoUrl, url} \/ (step = MaxSteps /\ Led(body, url)))'
      BY <3>1, <3>3 DEF Led
    <3> QED BY <2>1, <3>1, <3>4
  <2> QED BY <2>2, <2>3
<1>6. CASE Show \/ Unreachable
  BY <1>6 DEF Show, Unreachable
<1>7. CASE UNCHANGED vars
  BY <1>7 DEF vars, Led
<1> QED
  BY <1>1, <1>2, <1>3, <1>4, <1>5, <1>6, <1>7
  DEF Next, Work, Reload, Type, Follow, TryServerAAAA, TryServerAAAA4, TryServerA6,
      TryServerA4, Tcp6Connect, Tcp4Connect

\* A step inside of a navigation is none of PageLoad; its end shows the page or fails.
LEMMA LoadStep ==
    LoadInv /\ [Next]_vars => [Load!Clear \/ Load!Show \/ Load!Fail]_(Load!vars)
<1> SUFFICES ASSUME LoadInv, [Next]_vars
             PROVE  [Load!Clear \/ Load!Show \/ Load!Fail]_(Load!vars)
  OBVIOUS
<1> USE DEF LoadInv
<1>1. ASSUME NEW u, Begin(u) PROVE Load!Clear
  BY <1>1 DEF Begin, Load!Clear
<1>2. CASE TryServer
  BY <1>2 DEF TryServer, CannotAsk, Ask, Resolved, NotResolved, NextServer, GiveUpAddress,
              Load!vars
<1>3. CASE ConnectRefused \/ ConnectWithTimeout
  BY <1>3 DEF ConnectRefused, ConnectWithTimeout, ConnectAtOnce, ConnectBegins,
              ConnectDone, ConnectFails, GiveUpAddress, Load!vars
<1>4. CASE ExchangeFails \/ Encoded \/ Final \/ ServerSends \/ ReadOn
  BY <1>4 DEF ExchangeFails, Encoded, Final, ServerSends, ReadOn, Load!vars
<1>5. CASE Redirect
  BY <1>5 DEF Redirect, Load!vars
<1>6. CASE Show
  BY <1>6 DEF Show, Load!Show, Led
<1>7. CASE Unreachable
  BY <1>7 DEF Unreachable, Load!Fail
<1>8. CASE UNCHANGED vars
  BY <1>8 DEF vars, Load!vars
<1> QED
  BY <1>1, <1>2, <1>3, <1>4, <1>5, <1>6, <1>7, <1>8
  DEF Next, Work, Reload, Type, Follow, TryServerAAAA, TryServerAAAA4, TryServerA6,
      TryServerA4, Tcp6Connect, Tcp4Connect

\* To the rest of the browser a navigation, with its resolver, connections and redirects,
\* is what PageLoad says: the bar names the place, the text is that of the place.
THEOREM NavigationIsLoad == Spec => LoadSpec
<1>1. Init => Load!Init
  BY LoadInvInit DEF Init, LoadInv, Load!Init, EmptyPage
<1>2. LoadInv /\ [Next]_vars => [Load!Clear \/ Load!Show \/ Load!Fail]_(Load!vars)
  BY LoadStep
<1> QED
  BY <1>1, <1>2, LoadInvInit, LoadInvStep, PTL DEF Spec, LoadSpec, Load!Spec

-----------------------------------------------------------------------------
(***************************************************************************)
(* Strings taken apart.  Tok is any set of tokens with the few the parsers *)
(* know.                                                                   *)
(***************************************************************************)
It == INSTANCE Iteration WITH op <- Drop

Tok == STRING \cup {"https", "http", ":", "/", "a"}
Str == Seq(Tok)

\* A string of length 0 is the empty one.
LEMMA NotEmpty == \A s \in Str : s # <<>> => Len(s) # 0
BY DEF Str

\* A scan stops before the first sign it looks for, or at the end.
LEMMA FirstStop ==
  ASSUME NEW s \in Str, NEW stops
  PROVE  \E n \in 0..Len(s) : /\ n = Len(s) \/ s[n + 1] \in stops
                              /\ \A k \in 1..n : s[k] \notin stops
<1> DEFINE S == {n \in 0..Len(s) : n = Len(s) \/ s[n + 1] \in stops}
<1>1. Len(s) \in Nat
  BY DEF Str
<1>2. S \subseteq Nat /\ Len(s) \in S
  BY <1>1
<1>3. PICK n \in S : \A m \in S : n <= m
  BY <1>2, It!LeastElement
<1>4. ASSUME NEW k \in 1..n, s[k] \in stops PROVE FALSE
  <2>1. k - 1 \in S /\ ~(n <= k - 1)
    BY <1>1, <1>3, <1>4
  <2> QED
    BY <1>3, <2>1
<1> QED
  BY <1>3, <1>4

LEMMA BeforeFacts ==
  ASSUME NEW s \in Str, NEW stops
  PROVE  /\ Before(s, stops) \in 0..Len(s)
         /\ Before(s, stops) = Len(s) \/ s[Before(s, stops) + 1] \in stops
         /\ \A k \in 1..Before(s, stops) : s[k] \notin stops
BY FirstStop DEF Before

\* There is only one place to stop at.
LEMMA BeforeIs ==
  ASSUME NEW s \in Str, NEW stops, NEW n \in 0..Len(s),
         n = Len(s) \/ s[n + 1] \in stops,
         \A k \in 1..n : s[k] \notin stops
  PROVE  Before(s, stops) = n
<1> DEFINE b == Before(s, stops)
<1>1. /\ b \in 0..Len(s)
      /\ b = Len(s) \/ s[b + 1] \in stops
      /\ \A k \in 1..b : s[k] \notin stops
  BY BeforeFacts
<1> HIDE DEF b
<1>2. Len(s) \in Nat
  BY DEF Str
<1>3. ~(b < n)
  <2> SUFFICES ASSUME b < n PROVE FALSE
    OBVIOUS
  <2>1. b + 1 \in 1..n /\ b # Len(s)
    BY <1>1, <1>2
  <2> QED
    BY <1>1, <2>1
<1>4. ~(n < b)
  <2> SUFFICES ASSUME n < b PROVE FALSE
    OBVIOUS
  <2>1. n + 1 \in 1..b /\ n # Len(s)
    BY <1>1, <1>2
  <2> QED
    BY <1>1, <2>1
<1>5. b = n
  BY <1>1, <1>2, <1>3, <1>4
<1> QED
  BY <1>5 DEF b

\* The two parts of a string at a stop.
LEMMA PartFacts ==
  ASSUME NEW s \in Str, NEW stops
  PROVE  /\ Until(s, stops) \in Str
         /\ Len(Until(s, stops)) = Before(s, stops)
         /\ \A k \in DOMAIN Until(s, stops) : /\ Until(s, stops)[k] = s[k]
                                              /\ s[k] \notin stops
         /\ From(s, stops) \in Str
         /\ From(s, stops) # <<>> => From(s, stops)[1] \in stops
<1> DEFINE b == Before(s, stops)
<1>1. /\ b \in 0..Len(s)
      /\ b = Len(s) \/ s[b + 1] \in stops
      /\ \A k \in 1..b : s[k] \notin stops
  BY BeforeFacts
<1> HIDE DEF b
<1>2. /\ SubSeq(s, 1, b) \in Str /\ Len(SubSeq(s, 1, b)) = b
      /\ DOMAIN SubSeq(s, 1, b) = 1..b
      /\ \A k \in 1..b : SubSeq(s, 1, b)[k] = s[k]
  BY <1>1 DEF Str
<1>3. /\ SubSeq(s, b + 1, Len(s)) \in Str
      /\ b = Len(s) => SubSeq(s, b + 1, Len(s)) = <<>>
      /\ b # Len(s) => SubSeq(s, b + 1, Len(s))[1] = s[b + 1]
  BY <1>1 DEF Str
<1> QED
  BY <1>1, <1>2, <1>3 DEF Until, From, b

\* What does not fit is cut off, but not the first token.
LEMMA CutFacts ==
  ASSUME NEW s \in Str, NEW cap \in Nat, cap > 1
  PROVE  /\ Cut(s, cap) \in Str /\ Len(Cut(s, cap)) < cap
         /\ s # <<>> => Cut(s, cap) # <<>> /\ Cut(s, cap)[1] = s[1]
         /\ \A k \in DOMAIN Cut(s, cap) : k \in DOMAIN s /\ Cut(s, cap)[k] = s[k]
<1>1. CASE Len(s) < cap
  BY <1>1 DEF Cut, Str
<1>2. CASE ~(Len(s) < cap)
  BY <1>2 DEF Cut, Str
<1> QED
  BY <1>1, <1>2

LEMMA DropFacts ==
  ASSUME NEW s \in Str, NEW n \in Nat
  PROVE  Drop(s, n) \in Str
BY DEF Drop, Str

\* Leading blanks, and nothing else, are skipped.
LEMMA SkipBlanksFacts ==
  ASSUME NEW s \in Str
  PROVE  /\ SkipBlanks(s) \in Str
         /\ SkipBlanks(s) # <<>> => SkipBlanks(s)[1] # " "
         /\ s # <<>> /\ s[1] # " " => SkipBlanks(s) = s
<1> DEFINE P(n) == /\ n = Len(s) \/ s[n + 1] \notin Blanks
                   /\ \A k \in 1..n : s[k] \in Blanks
           b == CHOOSE n \in 0..Len(s) : P(n)
<1>1. \E n \in 0..Len(s) : P(n)
  <2>1. PICK n \in 0..Len(s) : /\ n = Len(s) \/ s[n + 1] \in Tok \ Blanks
                               /\ \A k \in 1..n : s[k] \notin Tok \ Blanks
    BY FirstStop
  <2>2. \A k \in 1..n : s[k] \in Tok
    BY DEF Str
  <2> QED
    BY <2>1, <2>2
<1>2. b \in 0..Len(s) /\ P(b)
  BY <1>1
<1>3. SkipBlanks(s) = SubSeq(s, b + 1, Len(s))
  BY DEF SkipBlanks, Drop
<1> HIDE DEF b
<1>4. /\ SubSeq(s, b + 1, Len(s)) \in Str
      /\ b = Len(s) => SubSeq(s, b + 1, Len(s)) = <<>>
      /\ b # Len(s) => SubSeq(s, b + 1, Len(s))[1] = s[b + 1]
      /\ b = 0 => SubSeq(s, b + 1, Len(s)) = s
  BY <1>2 DEF Str
<1>5. ASSUME s # <<>>, s[1] # " " PROVE b = 0
  <2>1. b \in Nat /\ (b # 0 => 1 \in 1..b)
    BY <1>2 DEF Str
  <2>2. b # 0 => s[1] \in Blanks
    BY <1>2, <2>1
  <2> QED
    BY <1>5, <2>1, <2>2 DEF Blanks
<1> QED
  BY <1>2, <1>3, <1>4, <1>5 DEF Blanks

-----------------------------------------------------------------------------
(***************************************************************************)
(* Whatever leads to a place leads to a host and an absolute path.         *)
(***************************************************************************)
Place == {u \in [host : Str, path : Str] : WellFormed(u)}

\* What follows the scheme.
LEMMA AuthorityFacts ==
  ASSUME NEW s \in Str
  PROVE  Authority(s) \in Place \cup {NoUrl}
<1> DEFINE rest == From(s, {"/"})
           host == Until(s, {"/", ":"})
           path == IF rest = <<>> THEN <<"/">> ELSE rest
           u    == [host |-> host, path |-> path]
<1>1. /\ host \in Str
      /\ \A k \in DOMAIN host : host[k] # "/"
      /\ rest \in Str
      /\ rest # <<>> => rest[1] = "/"
  BY PartFacts
<1>2. <<"/">> \in Str /\ <<"/">> # <<>> /\ <<"/">>[1] = "/"
  BY DEF Str, Tok
<1>3. path \in Str /\ path # <<>> /\ path[1] = "/"
  BY <1>1, <1>2
<1>4. Authority(s) = IF host # <<>> /\ Fits(u) THEN u ELSE NoUrl
  BY DEF Authority
<1> HIDE DEF host, rest, path
<1>5. u \in [host : Str, path : Str] /\ u.host = host /\ u.path = path
  BY <1>1, <1>3
<1> QED
  BY <1>1, <1>3, <1>4, <1>5 DEF Place, WellFormed

\* A redirect or a link.
LEMMA LocationFacts ==
  ASSUME NEW u \in Place, NEW loc \in Str
  PROVE  ApplyLocation(u.host, loc) \in Place \cup {NoUrl}
<1>1. ASSUME NEW n \in Nat PROVE Authority(Drop(loc, n)) \in Place \cup {NoUrl}
  BY <1>1, DropFacts, AuthorityFacts
<1>2. ASSUME loc # <<>>, loc[1] = "/"
      PROVE  SamePlace(u.host, loc) \in Place \cup {NoUrl}
  BY <1>2 DEF SamePlace, Place, WellFormed
<1>3. /\ Authority(Drop(loc, 4)) \in Place \cup {NoUrl}
      /\ Authority(Drop(loc, 2)) \in Place \cup {NoUrl}
  BY <1>1
<1> QED
  BY <1>2, <1>3 DEF ApplyLocation

\* The path of a typed address.
LEMMA PathFacts ==
  ASSUME NEW s \in Str
  PROVE  /\ PathOf(s) \in Str /\ Len(PathOf(s)) < PathCap
         /\ PathOf(s) # <<>> /\ PathOf(s)[1] = "/"
<1>1. PathCap \in Nat /\ PathCap > 2 /\ PathCap - 1 \in Nat /\ PathCap - 1 > 1
  BY UrlAssumption
<1>2. <<"/">> \in Str /\ Len(<<"/">>) = 1 /\ <<"/">>[1] = "/"
  BY DEF Str, Tok
<1>3. CASE s = <<>>
  BY <1>1, <1>2, <1>3 DEF PathOf
<1>4. CASE s # <<>> /\ s[1] = "/"
  <2>1. /\ Cut(s, PathCap) \in Str /\ Len(Cut(s, PathCap)) < PathCap
        /\ Cut(s, PathCap) # <<>> /\ Cut(s, PathCap)[1] = s[1]
    BY <1>1, <1>4, CutFacts
  <2>2. PathOf(s) = Cut(s, PathCap)
    BY <1>4 DEF PathOf
  <2> QED
    BY <1>4, <2>1, <2>2
<1>5. CASE s # <<>> /\ s[1] # "/"
  <2>1. /\ Cut(s, PathCap - 1) \in Str /\ Len(Cut(s, PathCap - 1)) < PathCap - 1
    BY <1>1, CutFacts
  <2>2. PathOf(s) = <<"/">> \o Cut(s, PathCap - 1)
    BY <1>5 DEF PathOf
  <2> QED
    BY <1>1, <1>2, <2>1, <2>2 DEF Str
<1> QED
  BY <1>3, <1>4, <1>5

\* What the user types.
LEMMA InputFacts ==
  ASSUME NEW u \in Place, NEW in \in Str
  PROVE  UserInput(u.host, in) \in Place \cup {NoUrl}
<1> DEFINE s == SkipBlanks(in)
<1>1. s \in Str /\ (s # <<>> => s[1] # " ")
  BY SkipBlanksFacts
<1>2. UserInput(u.host, in) = IF s = <<>> THEN NoUrl
                              ELSE IF Absolute(s) THEN ApplyLocation(u.host, s)
                              ELSE HostAndPath(s)
  BY DEF UserInput
<1> HIDE DEF s
<1>3. CASE s = <<>> \/ Absolute(s)
  BY <1>1, <1>2, <1>3, LocationFacts
<1>4. CASE s # <<>> /\ ~Absolute(s)
  <2> DEFINE stops == {"/"} \cup Blanks
             name  == Until(s, stops)
             host  == Cut(name, HostCap)
             rest  == SkipBlanks(Drop(s, Len(host)))
             v     == [host |-> host, path |-> PathOf(rest)]
  <2>1. s[1] # "/" /\ s[1] # " "
    BY <1>1, <1>4 DEF Absolute
  <2>a. s[1] \notin stops
    BY <2>1 DEF Blanks
  <2>b. s # <<>> => Len(s) # 0
    BY <1>1, NotEmpty
  <2> HIDE DEF stops
  <2>2. /\ name \in Str /\ Len(name) = Before(s, stops)
        /\ \A k \in DOMAIN name : name[k] = s[k] /\ s[k] \notin stops
    BY <1>1, PartFacts
  <2>3. /\ Before(s, stops) \in 0..Len(s)
        /\ Before(s, stops) = Len(s) \/ s[Before(s, stops) + 1] \in stops
    BY <1>1, BeforeFacts
  <2>4. s[1] \notin stops /\ Len(s) # 0
    BY <1>4, <2>a, <2>b
  <2>5. Before(s, stops) # 0
    BY <2>3, <2>4
  <2> HIDE DEF name
  <2>6. name # <<>>
    BY <2>2, <2>5
  <2>7. /\ host \in Str /\ Len(host) < HostCap /\ host # <<>>
        /\ \A k \in DOMAIN host : k \in DOMAIN name /\ host[k] = name[k]
    BY <2>2, <2>6, CutFacts, UrlAssumption
  <2> HIDE DEF host
  <2>8. \A k \in DOMAIN host : host[k] # "/"
    BY <2>2, <2>7 DEF stops
  <2>9. Len(host) \in Nat
    BY <2>7 DEF Str
  <2>10. rest \in Str
    BY <1>1, <2>9, DropFacts, SkipBlanksFacts
  <2> HIDE DEF rest
  <2>11. /\ PathOf(rest) \in Str /\ Len(PathOf(rest)) < PathCap
         /\ PathOf(rest) # <<>> /\ PathOf(rest)[1] = "/"
    BY <2>10, PathFacts
  <2>12. HostAndPath(s) = v
    BY DEF HostAndPath, host, rest, name, stops
  <2>13. v \in Place
    BY <2>7, <2>8, <2>11 DEF Place, WellFormed, Fits
  <2> QED
    BY <1>2, <1>4, <2>12, <2>13
<1> QED
  BY <1>3, <1>4

\* The host and path of the navigation under way, and of every one before.
PlaceInv == url \in Place

LEMMA PlaceInit == Init => PlaceInv
<1> USE DEF PlaceInv
<1> SUFFICES ASSUME Init PROVE url \in Place
  OBVIOUS
<1>1. DefaultUrl \in Place
  <2>1. /\ DefaultUrl.host = <<"a">> /\ DefaultUrl.path = <<"/">>
        /\ DefaultUrl = [host |-> <<"a">>, path |-> <<"/">>]
    BY DEF DefaultUrl
  <2>2. /\ <<"a">> \in Str /\ <<"/">> \in Str /\ Len(<<"a">>) = 1 /\ Len(<<"/">>) = 1
        /\ <<"a">> # <<>> /\ <<"/">> # <<>> /\ <<"/">>[1] = "/"
        /\ \A k \in DOMAIN <<"a">> : <<"a">>[k] # "/"
    BY DEF Str, Tok
  <2>3. DefaultUrl \in [host : Str, path : Str]
    BY <2>1, <2>2
  <2>4. WellFormed(DefaultUrl)
    BY <2>1, <2>2, UrlAssumption DEF WellFormed, Fits
  <2> QED
    BY <2>3, <2>4 DEF Place
<1>2. PICK s \in Starts :
          url = IF UserInput(DefaultUrl.host, s) = NoUrl THEN DefaultUrl
                ELSE UserInput(DefaultUrl.host, s)
  BY DEF Init
<1>3. s \in Str
  BY DEF Str, Tok
<1>4. UserInput(DefaultUrl.host, s) \in Place \cup {NoUrl}
  BY <1>1, <1>3, InputFacts
<1> QED
  BY <1>1, <1>2, <1>4

LEMMA PlaceStep == PlaceInv /\ [Next]_vars => PlaceInv'
<1> USE DEF PlaceInv
<1> SUFFICES ASSUME url \in Place, [Next]_vars PROVE url' \in Place
  OBVIOUS
<1>1. /\ \A in \in Inputs : in \in Str
      /\ \A loc \in Locations : loc \in Str
  BY DEF Str, Tok
<1>2. ASSUME NEW u \in Place \cup {NoUrl}, Begin(u) PROVE url' \in Place
  BY <1>2 DEF Begin
<1>3. CASE Reload
  BY <1>2, <1>3 DEF Reload
<1>4. CASE Type
  <2>1. PICK in \in Inputs : Begin(UserInput(url.host, in))
    BY <1>4 DEF Type
  <2>2. UserInput(url.host, in) \in Place \cup {NoUrl}
    BY <1>1, InputFacts
  <2> QED
    BY <1>2, <2>1, <2>2
<1>5. CASE Follow
  <2>1. PICK loc \in Locations : Begin(ApplyLocation(url.host, loc))
    BY <1>5 DEF Follow
  <2>2. ApplyLocation(url.host, loc) \in Place \cup {NoUrl}
    BY <1>1, LocationFacts
  <2> QED
    BY <1>2, <2>1, <2>2
<1>6. CASE Redirect
  <2>1. PICK loc \in Locations \ {<<>>} :
            /\ ApplyLocation(url.host, loc) # NoUrl
            /\ url' = ApplyLocation(url.host, loc)
    BY <1>6 DEF Redirect
  <2>2. ApplyLocation(url.host, loc) \in Place \cup {NoUrl}
    BY <1>1, LocationFacts
  <2> QED
    BY <2>1, <2>2
<1>7. ASSUME UNCHANGED url PROVE url' \in Place
  BY <1>7
<1>8. CASE TryServer \/ ConnectRefused \/ ConnectWithTimeout
  BY <1>7, <1>8 DEF TryServer, CannotAsk, Ask, Resolved, NotResolved, ConnectRefused,
       ConnectWithTimeout, ConnectAtOnce, ConnectBegins, ConnectDone, ConnectFails
<1>9. CASE \/ ExchangeFails \/ Encoded \/ Final \/ ServerSends \/ ReadOn
            \/ Show \/ Unreachable \/ UNCHANGED vars
  BY <1>7, <1>9
  DEF ExchangeFails, Encoded, Final, ServerSends, ReadOn, Show, Unreachable, vars
<1> QED
  BY <1>3, <1>4, <1>5, <1>6, <1>8, <1>9
  DEF Next, Work, TryServerAAAA, TryServerAAAA4, TryServerA6, TryServerA4,
      Tcp6Connect, Tcp4Connect

\* Two strings, one after the other, and taken apart again.
LEMMA ConcatFacts ==
  ASSUME NEW p \in Str, NEW r \in Str
  PROVE  /\ p \o r \in Str /\ Len(p \o r) = Len(p) + Len(r)
         /\ Len(p) \in Nat /\ Len(r) \in Nat
         /\ \A k \in 1..Len(p) : (p \o r)[k] = p[k]
         /\ Len(r) # 0 => (p \o r)[Len(p) + 1] = r[1]
         /\ SubSeq(p \o r, 1, Len(p)) = p
         /\ SubSeq(p \o r, Len(p) + 1, Len(p \o r)) = r
<1>1. p \o r \in Str /\ Len(p \o r) = Len(p) + Len(r) /\ Len(p) \in Nat /\ Len(r) \in Nat
  BY DEF Str
<1>2. /\ \A k \in 1..Len(p) : (p \o r)[k] = p[k]
      /\ Len(r) # 0 => (p \o r)[Len(p) + 1] = r[1]
  BY <1>1 DEF Str
<1>3. p \in Seq(Tok) /\ r \in Seq(Tok)
  BY DEF Str
<1>4. /\ SubSeq(p \o r, 1, Len(p)) = p
      /\ SubSeq(p \o r, Len(p) + 1, Len(p \o r)) = r
  BY <1>3
<1> QED
  BY <1>1, <1>2, <1>4

LEMMA InARow == \A p, r, t \in Str : (p \o r) \o t = p \o (r \o t)
BY ConcatAssociative DEF Str

LEMMA HttpsFacts == Https \in Str /\ Len(Https) = 4 /\ Https[1] = "https" /\ Https # <<>>
BY DEF Https, Str, Tok

\* A string that begins with the scheme is what follows it.
LEMMA SchemeFacts ==
  ASSUME NEW h, NEW r \in Str
  PROVE  UserInput(h, Https \o r) = Authority(r)
<1> DEFINE s == Https \o r
<1>1. /\ Https \in Str /\ Len(Https) = 4 /\ Https[1] = "https" /\ Https # <<>>
  BY HttpsFacts
<1>2. /\ s \in Str /\ Len(s) = 4 + Len(r) /\ Len(r) \in Nat
      /\ SubSeq(s, 1, 4) = Https /\ SubSeq(s, 5, Len(s)) = r /\ s[1] = "https"
  <2>1. /\ s \in Str /\ Len(s) = Len(Https) + Len(r) /\ Len(r) \in Nat
        /\ \A k \in 1..Len(Https) : s[k] = Https[k]
        /\ SubSeq(s, 1, Len(Https)) = Https
        /\ SubSeq(s, Len(Https) + 1, Len(s)) = r
    BY <1>1, ConcatFacts
  <2> HIDE DEF s
  <2> QED
    BY <1>1, <2>1
<1> HIDE DEF s
<1>3. Len(s) >= 4 /\ s # <<>>
  BY <1>2
<1>4. IsPrefix(Https, s)
  BY <1>1, <1>2, <1>3 DEF IsPrefix
<1>5. SkipBlanks(s) = s
  BY <1>2, <1>3, SkipBlanksFacts
<1>6. Absolute(s)
  BY <1>4 DEF Absolute
<1>7. Drop(s, 4) = r
  BY <1>2 DEF Drop
<1>8. ApplyLocation(h, s) = Authority(r)
  <2>1. ~IsPrefix(Http, s)
    BY <1>2 DEF IsPrefix, Http
  <2>2. ~IsPrefix(NoScheme, s)
    BY <1>2 DEF IsPrefix, NoScheme
  <2>3. ApplyLocation(h, s) = Authority(Drop(s, 4))
    BY <1>2, <1>3, <1>4, <2>1, <2>2 DEF ApplyLocation
  <2> QED
    BY <1>7, <2>3
<1>9. UserInput(h, s) = Authority(r)
  BY <1>3, <1>5, <1>6, <1>8 DEF UserInput
<1> QED
  BY <1>9 DEF s

\* A host without a port and its path are read as they were written.
LEMMA AuthorityOfPlace ==
  ASSUME NEW u \in Place, \A k \in DOMAIN u.host : u.host[k] # ":"
  PROVE  Authority(u.host \o u.path) = u
<1> DEFINE rest == u.host \o u.path
           n    == Len(u.host)
<1>1. /\ u.host \in Str /\ u.path \in Str /\ u.host # <<>> /\ u.path # <<>>
      /\ u.path[1] = "/" /\ Fits(u)
      /\ \A k \in DOMAIN u.host : u.host[k] # "/"
      /\ u = [host |-> u.host, path |-> u.path]
  BY DEF Place, WellFormed
<1>2. /\ rest \in Str /\ Len(rest) = n + Len(u.path) /\ n \in Nat /\ Len(u.path) \in Nat
      /\ \A k \in 1..n : rest[k] = u.host[k]
      /\ Len(u.path) # 0 => rest[n + 1] = u.path[1]
      /\ SubSeq(rest, 1, n) = u.host
      /\ SubSeq(rest, n + 1, Len(rest)) = u.path
  BY <1>1, ConcatFacts
<1>3. \A k \in 1..n : u.host[k] # "/" /\ u.host[k] # ":"
  BY <1>1 DEF Str
<1>4. n \in 0..Len(rest) /\ rest[n + 1] = "/"
  BY <1>1, <1>2, NotEmpty
<1> HIDE DEF rest, n
<1>5. Before(rest, {"/"}) = n
  <2>1. rest[n + 1] \in {"/"} /\ \A k \in 1..n : rest[k] \notin {"/"}
    BY <1>2, <1>3, <1>4
  <2> QED
    BY <1>2, <1>4, <2>1, BeforeIs
<1>6. Before(rest, {"/", ":"}) = n
  <2>1. rest[n + 1] \in {"/", ":"} /\ \A k \in 1..n : rest[k] \notin {"/", ":"}
    BY <1>2, <1>3, <1>4
  <2> QED
    BY <1>2, <1>4, <2>1, BeforeIs
<1>7. From(rest, {"/"}) = u.path
  BY <1>2, <1>5 DEF From
<1>8. Until(rest, {"/", ":"}) = u.host
  BY <1>2, <1>6 DEF Until
<1>9. Authority(rest) = u
  BY <1>1, <1>7, <1>8 DEF Authority
<1> QED
  BY <1>9 DEF rest

\* What stands in the URL bar names the place again.
LEMMA BarOfPlace ==
  ASSUME NEW u \in Place, \A k \in DOMAIN u.host : u.host[k] # ":"
  PROVE  UserInput(<<"b">>, UrlBar(u)) = u
<1>1. u.host \in Str /\ u.path \in Str /\ u.path # <<>> /\ u.path[1] = "/"
  BY DEF Place, WellFormed
<1>2. UrlBar(u) = Https \o (u.host \o u.path)
  <2>1. UrlBar(u) = (Https \o u.host) \o (IF u.path # <<>> /\ u.path[1] = "/"
                                           THEN u.path ELSE <<"/">>)
    BY DEF UrlBar
  <2>2. UrlBar(u) = (Https \o u.host) \o u.path
    BY <1>1, <2>1
  <2> QED
    BY <1>1, <2>2, HttpsFacts, InARow
<1>3. u.host \o u.path \in Str
  BY <1>1, ConcatFacts
<1> QED
  BY <1>2, <1>3, SchemeFacts, AuthorityOfPlace

\* Whatever is typed, followed or redirected to, a request is made of a host that is one
\* and a path that begins with a slash, both within their buffers (url_apply_location,
\* url_parse_user_input).
THEOREM RequestsWellFormed == Spec => []WellFormed(url)
<1>1. PlaceInv => WellFormed(url)
  BY DEF PlaceInv, Place
<1> QED
  BY <1>1, PlaceInit, PlaceStep, PTL DEF Spec

\* Enter on the unchanged text of the URL bar asks for the same page, whatever has been
\* typed, followed and redirected to (url_parse_user_input, url_apply_location,
\* browser_compose_url_bar).
THEOREM BarNamesPlace == Spec => []BarLeadsBack
<1>1. PlaceInv => BarLeadsBack
  BY BarOfPlace DEF BarLeadsBack, PlaceInv
<1> QED
  BY <1>1, PlaceInit, PlaceStep, PTL DEF Spec
=============================================================================
