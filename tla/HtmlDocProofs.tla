--------------------------- MODULE HtmlDocProofs ----------------------------
(***************************************************************************)
(* About the text extractor of html_text.c while it reads a document, for  *)
(* any elements, sheets and limits: what it keeps is of its types, the     *)
(* inline images of the page are where the text has them and are those     *)
(* that are shown, and if the style sheet holds the rules written, those   *)
(* elements are hidden that the rules hide, and the text shows what the    *)
(* document means to be seen.                                              *)
(***************************************************************************)
EXTENDS HtmlDoc, SequenceTheorems, FiniteSetTheorems, TLAPS

Putting == INSTANCE Iteration WITH op <- Put

-----------------------------------------------------------------------------
(***************************************************************************)
(* Stacks and lists, whatever they hold.                                   *)
(***************************************************************************)
Sequence(s) == s \in Seq({s[k] : k \in DOMAIN s})

\* A sequence over any set is one.
LEMMA SequenceOf ==
  ASSUME NEW S, NEW s \in Seq(S)
  PROVE  Sequence(s)
<1>1. Len(s) \in Nat /\ DOMAIN s = 1..Len(s) /\ s = [k \in 1..Len(s) |-> s[k]]
  OBVIOUS
<1>2. \A k \in 1..Len(s) : s[k] \in {s[j] : j \in DOMAIN s}
  BY <1>1
<1> QED BY <1>1, <1>2 DEF Sequence

\* What is on a list.
LEMMA SequenceFacts ==
  ASSUME NEW s, Sequence(s)
  PROVE  /\ Len(s) \in Nat /\ DOMAIN s = 1..Len(s)
         /\ s = <<>> <=> Len(s) = 0
<1>1. PICK S : s \in Seq(S)
  BY DEF Sequence
<1> QED BY <1>1

\* An element more.
LEMMA AppendFacts ==
  ASSUME NEW s, Sequence(s), NEW v
  PROVE  /\ Sequence(Append(s, v)) /\ Len(Append(s, v)) = Len(s) + 1
         /\ \A k \in 1..Len(s) : Append(s, v)[k] = s[k]
         /\ Append(s, v)[Len(s) + 1] = v
<1>1. PICK S : s \in Seq(S)
  BY DEF Sequence
<1>2. PICK T : T = S \cup {v}
  OBVIOUS
<1>3. s \in Seq(T) /\ v \in T
  BY <1>1, <1>2
<1>4. Append(s, v) \in Seq(T) /\ Len(Append(s, v)) = Len(s) + 1
  BY <1>3
<1>5. Sequence(Append(s, v))
  BY <1>4, SequenceOf
<1> QED BY <1>3, <1>4, <1>5

\* The topmost element less.
LEMMA PopFacts ==
  ASSUME NEW s, Sequence(s), s # <<>>
  PROVE  /\ Sequence(Pop(s)) /\ Len(Pop(s)) = Len(s) - 1
         /\ \A k \in 1..(Len(s) - 1) : Pop(s)[k] = s[k]
<1>1. PICK S : s \in Seq(S)
  BY DEF Sequence
<1>2. Len(s) \in Nat /\ Len(s) # 0
  BY <1>1
<1>3. /\ Pop(s) \in Seq(S) /\ Len(Pop(s)) = Len(s) - 1
      /\ \A k \in 1..(Len(s) - 1) : Pop(s)[k] = s[k]
  <2>1. PICK m : m = Len(s) - 1
    OBVIOUS
  <2>2. m \in Int /\ 1 \in Int /\ 1 <= m + 1 /\ \A i \in 1..m : s[i] \in S
    BY <1>1, <1>2, <2>1
  <2>3. /\ SubSeq(s, 1, m) \in Seq(S) /\ Len(SubSeq(s, 1, m)) = IF 1 <= m THEN m - 1 + 1 ELSE 0
        /\ \A i \in 1..(m - 1 + 1) : SubSeq(s, 1, m)[i] = s[1 + i - 1]
    BY <2>2, SubSeqProperties
  <2>4. m - 1 + 1 = m /\ \A i \in 1..m : 1 + i - 1 = i
    BY <2>2
  <2>5. Pop(s) = SubSeq(s, 1, m)
    BY <2>1 DEF Pop
  <2> QED BY <2>1, <2>2, <2>3, <2>4, <2>5
<1> QED BY <1>3, SequenceOf

\* Nothing is no list.
LEMMA NothingFacts == Sequence(<<>>) /\ Len(<<>>) = 0
<1>1. <<>> \in Seq({})
  OBVIOUS
<1> QED BY <1>1, SequenceOf

-----------------------------------------------------------------------------
(***************************************************************************)
(* The extractor's record, and what writing to the text changes of it.     *)
(***************************************************************************)
Fields == {"out", "space", "raw", "css", "hid", "anc", "sheet", "main", "article", "a", "cur",
           "styles", "span", "tables", "navs", "cell", "links", "spans", "icons"}

\* The local variables: lists of whatever they hold, and a text that fits.
Proper(v) ==
    /\ v = [f \in Fields |-> v[f]]
    /\ Sequence(v.out) /\ Sequence(v.hid) /\ Sequence(v.anc) /\ Sequence(v.styles)
    /\ Sequence(v.tables) /\ Sequence(v.navs)
    /\ Sequence(v.links) /\ Sequence(v.spans) /\ Sequence(v.icons)
    /\ Len(v.out) < OutCap /\ v.space \in BOOLEAN /\ v.cell \in Nat

\* Only the fields fs of v may differ in w.
But(v, w, fs) == \A f \in Fields \ fs : w[f] = v[f]

\* w is v with more characters in the text, all of the set cs.
Wrote(v, w, cs) ==
    /\ Proper(w) /\ But(v, w, {"out", "space", "cell"})
    /\ Here(v) <= Here(w)
    /\ \A k \in 1..Here(v) : w.out[k] = v.out[k]
    /\ \A k \in (Here(v) + 1)..Here(w) : w.out[k] \in cs

\* What comes from no character of the document.
Layout == {Space, Newline, Nbsp, <<":", 0>>, <<"|", 0>>, <<"-", 0>>}

LEMMA CapFacts == OutCap \in Nat \ {0} /\ StackCap \in Nat \ {0}
BY HtmlAssumption

LEMMA HereFacts ==
  ASSUME NEW v, Proper(v)
  PROVE  /\ Here(v) \in Nat /\ Here(v) < OutCap /\ DOMAIN v.out = 1..Here(v)
         /\ v.out = <<>> <=> Here(v) = 0
BY SequenceFacts DEF Proper, Here

\* Writing nothing, and writing on.
LEMMA WroteNothing ==
  ASSUME NEW v, Proper(v), NEW cs
  PROVE  Wrote(v, v, cs)
BY HereFacts DEF Wrote, But

LEMMA WroteOn ==
  ASSUME NEW v, Proper(v), NEW w, NEW u, NEW cs, Wrote(v, w, cs), Wrote(w, u, cs)
  PROVE  Wrote(v, u, cs)
<1>1. Proper(w) /\ Proper(u)
  BY DEF Wrote
<1>2. Here(v) \in Nat /\ Here(w) \in Nat /\ Here(u) \in Nat
  BY <1>1, HereFacts
<1>3. Here(v) <= Here(w) /\ Here(w) <= Here(u)
  BY DEF Wrote
<1>4. \A k \in 1..Here(v) : u.out[k] = v.out[k]
  BY <1>2, <1>3 DEF Wrote
<1>5. ASSUME NEW k \in (Here(v) + 1)..Here(u) PROVE u.out[k] \in cs
  <2>1. CASE k <= Here(w)
    <3>1. k \in (Here(v) + 1)..Here(w) /\ k \in 1..Here(w)
      BY <1>2, <1>3, <2>1
    <3> QED BY <3>1 DEF Wrote
  <2>2. CASE ~(k <= Here(w))
    <3>1. k \in (Here(w) + 1)..Here(u)
      BY <1>2, <1>3, <2>2
    <3> QED BY <3>1 DEF Wrote
  <2> QED BY <2>1, <2>2
<1>6. But(v, u, {"out", "space", "cell"})
  BY DEF Wrote, But
<1> QED BY <1>1, <1>2, <1>3, <1>4, <1>5, <1>6 DEF Wrote

LEMMA WroteMore ==
  ASSUME NEW v, NEW w, NEW cs, NEW ds, Wrote(v, w, cs), cs \subseteq ds
  PROVE  Wrote(v, w, ds)
BY DEF Wrote

\* Whether a space was last, and the cell of the row, do not matter.
LEMMA WroteSpace ==
  ASSUME NEW v, NEW w, NEW cs, Wrote(v, w, cs), NEW b \in BOOLEAN
  PROVE  /\ Wrote(v, [w EXCEPT !.space = b], cs)
         /\ [w EXCEPT !.space = b].out = w.out /\ [w EXCEPT !.space = b].space = b
<1>1. PICK u : u = [w EXCEPT !.space = b]
  OBVIOUS
<1>2. w = [f \in Fields |-> w[f]] /\ "space" \in Fields /\ "out" \in Fields
  BY DEF Wrote, Proper, Fields
<1>3. u = [f \in Fields |-> u[f]] /\ \A f \in Fields \ {"space"} : u[f] = w[f]
  BY <1>1, <1>2
<1>4. u.space = b /\ u.out = w.out
  BY <1>1, <1>2
<1>5. Proper(u)
  BY <1>3, <1>4 DEF Wrote, Proper, Fields
<1>6. But(v, u, {"out", "space", "cell"})
  BY <1>3 DEF Wrote, But
<1>7. Wrote(v, u, cs)
  BY <1>4, <1>5, <1>6 DEF Wrote, Here
<1> QED BY <1>1, <1>4, <1>7

LEMMA WroteSpaced ==
  ASSUME NEW v, NEW w, NEW cs, Wrote(v, w, cs)
  PROVE  /\ Wrote(v, [w EXCEPT !.space = TRUE], cs) /\ [w EXCEPT !.space = TRUE].out = w.out
         /\ Wrote(v, [w EXCEPT !.space = FALSE], cs) /\ [w EXCEPT !.space = FALSE].out = w.out
<1>1. \A b \in BOOLEAN : Wrote(v, [w EXCEPT !.space = b], cs) /\ [w EXCEPT !.space = b].out = w.out
  BY WroteSpace
<1> QED BY <1>1

LEMMA WroteCell ==
  ASSUME NEW v, NEW w, NEW cs, Wrote(v, w, cs), NEW n \in Nat
  PROVE  Wrote(v, [w EXCEPT !.cell = n], cs)
<1>1. PICK u : u = [w EXCEPT !.cell = n]
  OBVIOUS
<1>2. w = [f \in Fields |-> w[f]] /\ "cell" \in Fields /\ "out" \in Fields
  BY DEF Wrote, Proper, Fields
<1>3. u = [f \in Fields |-> u[f]] /\ \A f \in Fields \ {"cell"} : u[f] = w[f]
  BY <1>1, <1>2
<1>4. u.cell = n /\ u.out = w.out
  BY <1>1, <1>2
<1>5. Proper(u)
  BY <1>3, <1>4 DEF Wrote, Proper, Fields
<1>6. But(v, u, {"out", "space", "cell"})
  BY <1>3 DEF Wrote, But
<1>7. Wrote(v, u, cs)
  BY <1>4, <1>5, <1>6 DEF Wrote, Here
<1> QED BY <1>1, <1>7

\* A character goes to the end of the text if there is room.
LEMMA PutFacts ==
  ASSUME NEW v, Proper(v), NEW c
  PROVE  /\ Wrote(v, Put(v, c), {c})
         /\ Here(v) + 1 < OutCap => Put(v, c).out = Append(v.out, c)
         /\ ~(Here(v) + 1 < OutCap) => Put(v, c) = v
         /\ Put(v, c).space = v.space /\ Put(v, c).cell = v.cell
<1>0. Here(v) \in Nat /\ OutCap \in Nat /\ Len(v.out) = Here(v)
  BY HereFacts, CapFacts DEF Here
<1>1. CASE ~(Here(v) + 1 < OutCap)
  BY <1>1, WroteNothing DEF Put
<1>2. CASE Here(v) + 1 < OutCap
  <2>1. PICK w : w = Put(v, c)
    OBVIOUS
  <2>2. v = [f \in Fields |-> v[f]] /\ {"out", "space", "cell"} \subseteq Fields
    BY DEF Proper, Fields
  <2>3. w = [v EXCEPT !.out = Append(v.out, c)]
    BY <1>2, <2>1 DEF Put
  <2>4. w = [f \in Fields |-> w[f]] /\ \A f \in Fields \ {"out"} : w[f] = v[f]
    BY <2>2, <2>3
  <2>5. w.out = Append(v.out, c) /\ w.space = v.space /\ w.cell = v.cell
    BY <2>2, <2>3, <2>4
  <2>6. /\ Sequence(w.out) /\ Here(w) = Here(v) + 1
        /\ \A k \in 1..Here(v) : w.out[k] = v.out[k]
        /\ w.out[Here(v) + 1] = c
    BY <1>0, <2>5, AppendFacts DEF Proper, Here
  <2>7. Proper(w)
    BY <1>2, <2>4, <2>6 DEF Proper, Fields, Here
  <2>8. But(v, w, {"out", "space", "cell"})
    BY <2>4 DEF But
  <2>9. \A k \in (Here(v) + 1)..Here(w) : w.out[k] \in {c}
    BY <1>0, <2>6
  <2>10. Wrote(v, w, {c})
    BY <1>0, <2>6, <2>7, <2>8, <2>9 DEF Wrote
  <2> QED BY <1>2, <2>1, <2>5, <2>10
<1> QED BY <1>1, <1>2

\* Layout is written by what ends a line or keeps words apart.
Laid(v, w) == Wrote(v, w, Layout)

LEMMA LayoutPut ==
  ASSUME NEW v, Proper(v), NEW c \in Layout
  PROVE  Laid(v, Put(v, c))
<1>1. {c} \subseteq Layout
  OBVIOUS
<1>2. Wrote(v, Put(v, c), {c})
  BY PutFacts
<1> QED BY <1>1, <1>2, WroteMore DEF Laid

LEMMA SpaceAndNewline == Space \in Layout /\ Newline \in Layout /\ Nbsp \in Layout
BY DEF Layout

LEMMA BlankFacts ==
  ASSUME NEW v, Proper(v)
  PROVE  Laid(v, Blank(v))
<1>1. CASE v.space
  BY <1>1, WroteNothing DEF Blank, Laid
<1>2. CASE ~v.space
  <2>1. Wrote(v, Put(v, Space), Layout)
    BY LayoutPut, SpaceAndNewline DEF Laid
  <2> QED BY <1>2, <2>1, WroteSpaced DEF Blank, Laid
<1> QED BY <1>1, <1>2 DEF Proper

LEMMA GlyphFacts ==
  ASSUME NEW v, Proper(v), NEW c
  PROVE  /\ Wrote(v, Glyph(v, c), {c})
         /\ Here(v) + 1 < OutCap => Glyph(v, c).out = Append(v.out, c)
         /\ ~(Here(v) + 1 < OutCap) => Glyph(v, c).out = v.out
<1>1. PICK w : w = Put(v, c)
  OBVIOUS
<1>2. /\ Wrote(v, w, {c})
      /\ Here(v) + 1 < OutCap => w.out = Append(v.out, c)
      /\ ~(Here(v) + 1 < OutCap) => w.out = v.out
  BY <1>1, PutFacts
<1>3. Glyph(v, c) = [w EXCEPT !.space = FALSE]
  BY <1>1 DEF Glyph
<1>4. Wrote(v, [w EXCEPT !.space = FALSE], {c}) /\ [w EXCEPT !.space = FALSE].out = w.out
  BY <1>2, WroteSpaced
<1> QED BY <1>2, <1>3, <1>4, Zenon

LEMMA BreakFacts ==
  ASSUME NEW v, Proper(v)
  PROVE  Laid(v, Break(v))
<1>1. PICK w : w = IF v.out = <<>> \/ AtLineStart(v) THEN v ELSE Put(v, Newline)
  OBVIOUS
<1>2. Wrote(v, Put(v, Newline), Layout)
  BY LayoutPut, SpaceAndNewline DEF Laid
<1>3. Wrote(v, w, Layout)
  BY <1>1, <1>2, WroteNothing
<1>4. Break(v) = [w EXCEPT !.space = TRUE]
  BY <1>1 DEF Break
<1>5. Wrote(v, [w EXCEPT !.space = TRUE], Layout)
  BY <1>3, WroteSpaced
<1> QED BY <1>4, <1>5, Zenon DEF Laid

LEMMA BlankLineFacts ==
  ASSUME NEW v, Proper(v)
  PROVE  Laid(v, BlankLine(v))
<1>1. PICK w : w = Break(v)
  OBVIOUS
<1>2. Wrote(v, w, Layout) /\ Proper(w)
  BY <1>1, BreakFacts DEF Laid, Wrote
<1>3. Wrote(w, Put(w, Newline), Layout)
  BY <1>2, LayoutPut, SpaceAndNewline DEF Laid
<1>4. Wrote(v, Put(w, Newline), Layout)
  BY <1>2, <1>3, WroteOn
<1>5. BlankLine(v) = IF AtLineStart(w) THEN Put(w, Newline) ELSE w
  BY <1>1 DEF BlankLine
<1> QED BY <1>2, <1>4, <1>5 DEF Laid

\* Several characters: as many as there is room for, in their order.
Room(v, n) == IF Here(v) + n < OutCap THEN n ELSE OutCap - 1 - Here(v)

LEMMA PutAllFacts ==
  ASSUME NEW v, Proper(v), NEW cs, Sequence(cs)
  PROVE  /\ Wrote(v, PutAll(v, cs), {cs[k] : k \in DOMAIN cs})
         /\ Here(PutAll(v, cs)) = Here(v) + Room(v, Len(cs))
         /\ \A k \in 1..Room(v, Len(cs)) : PutAll(v, cs).out[Here(v) + k] = cs[k]
         /\ PutAll(v, cs).cell = v.cell
<1> DEFINE C == {cs[k] : k \in DOMAIN cs}
           T == C \cup {v.out[k] : k \in 1..Here(v)}
           Done(k, w) == /\ Wrote(v, w, C) /\ w.cell = v.cell
                         /\ Here(w) = Here(v) + Room(v, k)
                         /\ \A i \in 1..Room(v, k) : w.out[Here(v) + i] = cs[i]
           U == {[v EXCEPT !.out = o] : o \in Seq(T)}
           G == {p \in Nat \X U : Done(p[1], p[2])}
<1>1. /\ Here(v) \in Nat /\ OutCap \in Nat /\ Here(v) + 1 <= OutCap /\ Len(cs) \in Nat
      /\ DOMAIN cs = 1..Len(cs) /\ cs \in Seq(C)
  BY HereFacts, CapFacts, SequenceFacts DEF Sequence
<1>2. /\ v = [f \in Fields |-> v[f]] /\ "out" \in Fields /\ v.out \in Seq(T)
  <2>1. v.out \in Seq({v.out[k] : k \in DOMAIN v.out}) /\ DOMAIN v.out = 1..Here(v)
    BY HereFacts DEF Proper, Sequence
  <2>2. v.out \in Seq(T)
    BY <2>1
  <2> QED BY <2>2 DEF Proper, Fields
<1>3. <<0, v>> \in G
  <2>1. v = [v EXCEPT !.out = v.out]
    BY <1>2
  <2>2. v \in U
    BY <1>2, <2>1
  <2>3. Room(v, 0) = 0
    BY <1>1 DEF Room
  <2>4. Wrote(v, v, C)
    BY WroteNothing
  <2>5. Done(0, v)
    BY <1>1, <2>3, <2>4
  <2> QED BY <2>2, <2>5
<1>4. ASSUME NEW k \in 1..Len(cs), NEW w, <<k - 1, w>> \in G
      PROVE  <<k, Put(w, cs[k])>> \in G
  <2>1. k \in Nat /\ k - 1 \in Nat /\ w \in U /\ Done(k - 1, w) /\ cs[k] \in C
    <3>1. k \in Nat /\ k - 1 \in Nat /\ cs[k] \in C
      BY <1>1
    <3>2. \A p \in G : p \in Nat \X U /\ Done(p[1], p[2])
      OBVIOUS
    <3>3. PICK p : p = <<k - 1, w>>
      OBVIOUS
    <3>4. p \in Nat \X U /\ Done(p[1], p[2]) /\ p[1] = k - 1 /\ p[2] = w
      <4> HIDE DEF Done, U
      <4> QED BY <1>4, <3>2, <3>3
    <3>5. w \in U
      <4> HIDE DEF Done, U
      <4> QED BY <3>4
    <3>6. Done(k - 1, w)
      <4> HIDE DEF Done, U
      <4> QED BY <3>4
    <3> QED BY <3>1, <3>5, <3>6
  <2>2. PICK u : u = Put(w, cs[k])
    OBVIOUS
  <2>3. Proper(w) /\ Here(w) \in Nat
    BY <2>1, HereFacts DEF Wrote
  <2>4. /\ Wrote(w, u, {cs[k]}) /\ u.cell = w.cell
        /\ Here(w) + 1 < OutCap => u.out = Append(w.out, cs[k])
        /\ ~(Here(w) + 1 < OutCap) => u = w
    BY <2>2, <2>3, PutFacts
  <2>5. Wrote(v, u, C)
    <3>1. Wrote(w, u, C)
      BY <2>1, <2>4, WroteMore
    <3> QED BY <2>1, <3>1, WroteOn
  <2>6. u \in U
    <3>1. PICK o \in Seq(T) : w = [v EXCEPT !.out = o]
      BY <2>1
    <3>2. w.out = o
      BY <1>2, <3>1
    <3>3. CASE Here(w) + 1 < OutCap
      <4>1. u = [w EXCEPT !.out = Append(w.out, cs[k])]
        BY <2>2, <3>3 DEF Put
      <4>2. Append(o, cs[k]) \in Seq(T)
        BY <2>1
      <4>3. u = [v EXCEPT !.out = Append(o, cs[k])]
        BY <1>2, <3>1, <3>2, <4>1
      <4> QED BY <4>2, <4>3
    <3> QED BY <2>1, <2>4, <3>3
  <2>7. Done(k, u)
    <3>1. CASE Here(w) + 1 < OutCap
      <4>1. Room(v, k - 1) = k - 1 /\ Room(v, k) = k /\ Here(w) = Here(v) + k - 1
        <5>1. Here(w) = Here(v) + Room(v, k - 1) /\ k \in Nat /\ k - 1 \in Nat
          BY <2>1
        <5> QED BY <1>1, <2>3, <3>1, <5>1, SMTT(30) DEF Room
      <4>2. Len(w.out) = Here(w) /\ Sequence(w.out)
        BY <2>3 DEF Here, Proper
      <4>3. /\ Len(u.out) = Here(w) + 1 /\ u.out[Here(w) + 1] = cs[k]
            /\ \A i \in 1..Here(w) : u.out[i] = w.out[i]
        BY <2>4, <3>1, <4>2, AppendFacts, SMTT(30)
      <4>4. Here(u) = Here(v) + Room(v, k)
        BY <1>1, <2>1, <4>1, <4>3, SMTT(30) DEF Here
      <4>5. ASSUME NEW i \in 1..Room(v, k) PROVE u.out[Here(v) + i] = cs[i]
        <5>1. CASE i = k
          <6>1. Here(v) + i = Here(w) + 1
            BY <1>1, <2>1, <4>1, <5>1
          <6> QED BY <4>3, <5>1, <6>1
        <5>2. CASE i # k
          <6>1. i \in 1..Room(v, k - 1) /\ Here(v) + i \in 1..Here(w)
            BY <1>1, <2>3, <4>1, <5>2, SMTT(30)
          <6> QED BY <2>1, <4>3, <6>1
        <5> QED BY <5>1, <5>2
      <4> QED BY <2>1, <2>4, <2>5, <4>4, <4>5
    <3>2. CASE ~(Here(w) + 1 < OutCap)
      <4>1. Room(v, k - 1) = Room(v, k)
        <5>1. Here(w) = Here(v) + Room(v, k - 1) /\ k \in Nat /\ k - 1 \in Nat
          BY <2>1
        <5> QED BY <1>1, <2>3, <3>2, <5>1, SMTT(30) DEF Room
      <4> QED BY <2>1, <2>4, <2>5, <3>2, <4>1
    <3> QED BY <3>1, <3>2
  <2> QED BY <2>1, <2>2, <2>6, <2>7
<1>5. PutAll(v, cs) = Putting!Fold(v, cs)
  BY DEF PutAll, Putting!Fold, FoldLeft, MapThenFoldSet, Max, Putting!Largest
<1>6. <<Len(cs), Putting!Fold(v, cs)>> \in G
  <2> HIDE DEF G
  <2> QED BY <1>1, <1>3, <1>4, Putting!FoldKeepsAlong
<1>7. Done(Len(cs), PutAll(v, cs))
  BY <1>5, <1>6
<1> QED BY <1>7

-----------------------------------------------------------------------------
(***************************************************************************)
(* What is sound whatever a document says: no stack is deeper than it may  *)
(* be, and all ranges lie within the text written so far, in their order.  *)
(***************************************************************************)
Bounded(v) ==
    /\ Len(v.hid) <= StackCap /\ Len(v.anc) <= StackCap /\ Len(v.styles) <= StackCap
    /\ Len(v.tables) <= StackCap /\ Len(v.navs) <= StackCap
    /\ v.raw \in {""} \cup RawTags

\* Ranges of a list, in order, none behind end.
Ordered(rs, end) ==
    /\ \A k \in 1..Len(rs) : rs[k].from \in Nat /\ rs[k].to \in Nat /\ rs[k].from <= rs[k].to
                             /\ rs[k].to <= end
    /\ \A i, j \in 1..Len(rs) : i < j => rs[i].to <= rs[j].from

\* A span of the page is not empty.
IsSpan(r) == r = [from |-> r.from, to |-> r.to, style |-> r.style] /\ r.from < r.to

\* Where the link or the span that is open begins; the end of the text if none is.
Since(v, r) == IF r.on THEN r.start ELSE Here(v)

Ranged(v) ==
    /\ v.a.on \in BOOLEAN /\ v.span.on \in BOOLEAN
    /\ v.a.start \in 0..Here(v) /\ v.span.start \in 0..Here(v)
    /\ Ordered(v.links, Since(v, v.a)) /\ Ordered(v.spans, Since(v, v.span))
    /\ \A k \in 1..Len(v.spans) : IsSpan(v.spans[k])

Sound(v) == Proper(v) /\ Bounded(v) /\ Ranged(v)

LEMMA OrderedUpTo ==
  ASSUME NEW rs, NEW p \in Nat, NEW q \in Nat, Ordered(rs, p), p <= q
  PROVE  Ordered(rs, q)
BY DEF Ordered

\* A range at the end.
LEMMA OrderedAppend ==
  ASSUME NEW rs, Sequence(rs), NEW p \in Nat, NEW q \in Nat, Ordered(rs, p), p <= q, NEW r,
         r.from = p, r.to = q
  PROVE  Ordered(Append(rs, r), q)
<1>1. /\ Len(rs) \in Nat /\ Len(Append(rs, r)) = Len(rs) + 1
      /\ \A k \in 1..Len(rs) : Append(rs, r)[k] = rs[k]
      /\ Append(rs, r)[Len(rs) + 1] = r
  BY SequenceFacts, AppendFacts
<1>2. PICK n, new : n = Len(rs) /\ new = Append(rs, r)
  OBVIOUS
<1>3. \A k \in 1..(n + 1) : k \in 1..n \/ k = n + 1
  BY <1>1, <1>2
<1>4. ASSUME NEW k \in 1..(n + 1)
      PROVE  new[k].from \in Nat /\ new[k].to \in Nat /\ new[k].from <= new[k].to /\ new[k].to <= q
  <2>1. CASE k \in 1..n
    <3>1. new[k] = rs[k]
      BY <1>1, <1>2, <2>1
    <3> QED BY <1>2, <2>1, <3>1 DEF Ordered
  <2>2. CASE k = n + 1
    BY <1>1, <1>2, <2>2
  <2> QED BY <1>3, <2>1, <2>2
<1>5. ASSUME NEW i \in 1..(n + 1), NEW j \in 1..(n + 1), i < j PROVE new[i].to <= new[j].from
  <2>1. i \in 1..n /\ new[i] = rs[i]
    BY <1>1, <1>2, <1>5
  <2>2. CASE j \in 1..n
    <3>1. new[j] = rs[j]
      BY <1>1, <1>2, <2>2
    <3> QED BY <1>2, <1>5, <2>1, <2>2, <3>1 DEF Ordered
  <2>3. CASE j = n + 1
    BY <1>1, <1>2, <2>1, <2>3 DEF Ordered
  <2> QED BY <1>3, <2>2, <2>3
<1> QED BY <1>1, <1>2, <1>4, <1>5 DEF Ordered

LEMMA OrderedNothing == \A q : Ordered(<<>>, q)
BY NothingFacts DEF Ordered

\* Writing on keeps all of it.
LEMMA WroteSound ==
  ASSUME NEW v, Sound(v), NEW w, NEW cs, Wrote(v, w, cs)
  PROVE  Sound(w)
<1>1. /\ w.hid = v.hid /\ w.anc = v.anc /\ w.styles = v.styles /\ w.tables = v.tables
      /\ w.navs = v.navs /\ w.raw = v.raw /\ w.a = v.a /\ w.span = v.span
      /\ w.links = v.links /\ w.spans = v.spans
  BY DEF Wrote, But, Fields
<1>2. Proper(v) /\ Proper(w) /\ Here(v) \in Nat /\ Here(w) \in Nat /\ Here(v) <= Here(w)
  BY HereFacts DEF Sound, Wrote
<1>3. \A r : r.on \in BOOLEAN /\ r.start \in 0..Here(v) =>
            /\ Since(v, r) \in Nat /\ Since(w, r) \in Nat /\ Since(v, r) <= Since(w, r)
  BY <1>2 DEF Since
<1>4. Ordered(w.links, Since(w, w.a)) /\ Ordered(w.spans, Since(w, w.span))
  BY <1>1, <1>3, OrderedUpTo DEF Sound, Ranged
<1>5. v.a.start \in 0..Here(w) /\ v.span.start \in 0..Here(w)
  BY <1>2 DEF Sound, Ranged
<1>6. Ranged(w)
  BY <1>1, <1>4, <1>5 DEF Sound, Ranged
<1> QED BY <1>1, <1>2, <1>6 DEF Sound, Bounded

-----------------------------------------------------------------------------
(***************************************************************************)
(* The other fields, one at a time.                                        *)
(***************************************************************************)
Lists == {"hid", "anc", "styles", "tables", "navs", "links", "spans", "icons"}

LEMMA SetFacts ==
  ASSUME NEW v, Proper(v), NEW f \in Fields \ {"out", "space", "cell"}, NEW s,
         f \in Lists => Sequence(s)
  PROVE  /\ Proper([v EXCEPT ![f] = s]) /\ But(v, [v EXCEPT ![f] = s], {f})
         /\ [v EXCEPT ![f] = s][f] = s
<1>1. PICK w : w = [v EXCEPT ![f] = s]
  OBVIOUS
<1>2. v = [g \in Fields |-> v[g]]
  BY DEF Proper
<1>3. /\ w = [g \in Fields |-> w[g]] /\ w[f] = s
      /\ \A g \in Fields \ {f} : w[g] = v[g]
  BY <1>1, <1>2
<1>4. w.out = v.out /\ w.space = v.space /\ w.cell = v.cell
  BY <1>3 DEF Fields
<1>5. \A g \in Lists : g \in Fields /\ Sequence(v[g])
  BY DEF Proper, Lists, Fields
<1>6. \A g \in Lists : Sequence(w[g])
  BY <1>3, <1>5
<1>7. Proper(w)
  BY <1>3, <1>4, <1>6 DEF Proper, Lists
<1> QED BY <1>1, <1>3, <1>7 DEF But

\* What is changed by two.
LEMMA ButBoth ==
  ASSUME NEW v, NEW w, NEW u, NEW fs, NEW gs, But(v, w, fs), But(w, u, gs)
  PROVE  But(v, u, fs \cup gs)
BY DEF But

-----------------------------------------------------------------------------
(***************************************************************************)
(* A step of the extractor, as far as the text and the inline images know: *)
(* more characters, all of the set cs, and the same images.                *)
(***************************************************************************)
Grown(v, w, cs) ==
    /\ Proper(w) /\ w.icons = v.icons
    /\ Here(v) <= Here(w)
    /\ \A k \in 1..Here(v) : w.out[k] = v.out[k]
    /\ \A k \in (Here(v) + 1)..Here(w) : w.out[k] \in cs

Kept(v, w, cs) == Sound(w) /\ Grown(v, w, cs)

LEMMA KeptNothing ==
  ASSUME NEW v, Sound(v), NEW cs
  PROVE  Kept(v, v, cs)
BY HereFacts DEF Kept, Grown, Sound

LEMMA KeptOn ==
  ASSUME NEW v, Sound(v), NEW w, NEW u, NEW cs, Kept(v, w, cs), Kept(w, u, cs)
  PROVE  Kept(v, u, cs)
<1>1. Proper(v) /\ Proper(w) /\ Proper(u)
  BY DEF Kept, Sound
<1>2. Here(v) \in Nat /\ Here(w) \in Nat /\ Here(u) \in Nat
  BY <1>1, HereFacts
<1>3. Here(v) <= Here(w) /\ Here(w) <= Here(u)
  BY DEF Kept, Grown
<1>4. \A k \in 1..Here(v) : u.out[k] = v.out[k]
  BY <1>2, <1>3 DEF Kept, Grown
<1>5. ASSUME NEW k \in (Here(v) + 1)..Here(u) PROVE u.out[k] \in cs
  <2>1. CASE k <= Here(w)
    <3>1. k \in (Here(v) + 1)..Here(w) /\ k \in 1..Here(w)
      BY <1>2, <1>3, <2>1
    <3> QED BY <3>1 DEF Kept, Grown
  <2>2. CASE ~(k <= Here(w))
    <3>1. k \in (Here(w) + 1)..Here(u)
      BY <1>2, <1>3, <2>2
    <3> QED BY <3>1 DEF Kept, Grown
  <2> QED BY <2>1, <2>2
<1>6. u.icons = v.icons
  BY DEF Kept, Grown
<1> QED BY <1>1, <1>2, <1>3, <1>4, <1>5, <1>6 DEF Kept, Grown

LEMMA KeptMore ==
  ASSUME NEW v, NEW w, NEW cs, NEW ds, Kept(v, w, cs), cs \subseteq ds
  PROVE  Kept(v, w, ds)
BY DEF Kept, Grown

LEMMA KeptWrote ==
  ASSUME NEW v, Sound(v), NEW w, NEW cs, Wrote(v, w, cs)
  PROVE  Kept(v, w, cs)
<1>1. Sound(w)
  BY WroteSound
<1>2. w.icons = v.icons
  BY DEF Wrote, But, Fields
<1> QED BY <1>1, <1>2 DEF Kept, Grown, Wrote

LEMMA KeptLaid ==
  ASSUME NEW v, Sound(v), NEW w, Laid(v, w)
  PROVE  Kept(v, w, Layout)
BY KeptWrote DEF Laid

\* The fields the ranges do not depend on.
Beside == Fields \ {"out", "links", "spans", "a", "span", "icons"}

LEMMA KeptBeside ==
  ASSUME NEW v, Sound(v), NEW w, Proper(w), Bounded(w), But(v, w, Beside), NEW cs
  PROVE  Kept(v, w, cs)
<1>1. /\ w.out = v.out /\ w.links = v.links /\ w.spans = v.spans /\ w.a = v.a
      /\ w.span = v.span /\ w.icons = v.icons
  BY DEF But, Beside, Fields
<1>2. Ranged(w)
  BY <1>1 DEF Sound, Ranged, Since, Here
<1>3. Here(v) \in Nat /\ Here(w) = Here(v)
  BY <1>1, HereFacts DEF Sound, Here
<1> QED BY <1>1, <1>2, <1>3 DEF Kept, Grown, Sound

\* A stack that takes no more than it can, and gives back the topmost.
LEMMA PushFacts ==
  ASSUME NEW s, Sequence(s), Len(s) <= StackCap, NEW m
  PROVE  Len(s) < StackCap => Sequence(Append(s, m)) /\ Len(Append(s, m)) <= StackCap
BY SequenceFacts, AppendFacts, CapFacts

LEMMA PopBound ==
  ASSUME NEW s, Sequence(s), Len(s) <= StackCap, s # <<>>
  PROVE  Sequence(Pop(s)) /\ Len(Pop(s)) <= StackCap
BY SequenceFacts, PopFacts, CapFacts

LEMMA PushModeFacts ==
  ASSUME NEW s, Sequence(s), Len(s) <= StackCap, NEW m
  PROVE  Sequence(PushMode(s, m)) /\ Len(PushMode(s, m)) <= StackCap
BY PushFacts DEF PushMode

LEMMA PopModeFacts ==
  ASSUME NEW s, Sequence(s), Len(s) <= StackCap
  PROVE  Sequence(PopMode(s)) /\ Len(PopMode(s)) <= StackCap
BY PopBound DEF PopMode

Stacks == {"hid", "anc", "styles", "tables", "navs"}

\* One stack is changed and stays one.
LEMMA StackFacts ==
  ASSUME NEW v, Sound(v), NEW f \in Stacks, NEW s, Sequence(s), Len(s) <= StackCap, NEW cs
  PROVE  Kept(v, [v EXCEPT ![f] = s], cs)
<1>1. PICK w : w = [v EXCEPT ![f] = s]
  OBVIOUS
<1>2. f \in Fields \ {"out", "space", "cell"} /\ Proper(v) /\ f \in Beside
  BY DEF Stacks, Fields, Sound, Beside
<1>3. Proper(w) /\ But(v, w, {f}) /\ w[f] = s
  BY <1>1, <1>2, SetFacts, ZenonT(60)
<1>4. \A g \in Stacks : Len(w[g]) <= StackCap
  <2>1. \A g \in Stacks : g \in Fields /\ Len(v[g]) <= StackCap
    BY DEF Sound, Bounded, Stacks, Fields
  <2> QED BY <1>3, <2>1 DEF But
<1>5. w.raw = v.raw
  BY <1>3 DEF But, Fields, Stacks
<1>6. Bounded(w)
  BY <1>4, <1>5 DEF Sound, Bounded, Stacks
<1>7. But(v, w, Beside)
  BY <1>2, <1>3 DEF But
<1> QED BY <1>1, <1>3, <1>6, <1>7, KeptBeside

LEMMA StackParts ==
  ASSUME NEW v, Sound(v)
  PROVE  /\ Sequence(v.hid) /\ Len(v.hid) <= StackCap
         /\ Sequence(v.anc) /\ Len(v.anc) <= StackCap
         /\ Sequence(v.styles) /\ Len(v.styles) <= StackCap
         /\ Sequence(v.tables) /\ Len(v.tables) <= StackCap
         /\ Sequence(v.navs) /\ Len(v.navs) <= StackCap
BY DEF Sound, Proper, Bounded

LEMMA TableKept ==
  ASSUME NEW v, Sound(v), NEW e, NEW tag
  PROVE  Kept(v, TableStart(v, e), Layout) /\ Kept(v, TableEnd(v, tag), Layout)
<1>1. PICK s, t : s = PushMode(v.tables, TableClass \in e.class) /\ t = PopMode(v.tables)
  OBVIOUS
<1>2. Sequence(s) /\ Len(s) <= StackCap /\ Sequence(t) /\ Len(t) <= StackCap
  BY <1>1, StackParts, PushModeFacts, PopModeFacts
<1>3. Kept(v, [v EXCEPT !.tables = s], Layout) /\ Kept(v, [v EXCEPT !.tables = t], Layout)
  BY <1>2, StackFacts DEF Stacks
<1>4. Kept(v, v, Layout)
  BY KeptNothing
<1> QED BY <1>1, <1>3, <1>4 DEF TableStart, TableEnd

LEMMA ListKept ==
  ASSUME NEW v, Sound(v), NEW e, NEW tag
  PROVE  Kept(v, ListStart(v, e), Layout) /\ Kept(v, ListEnd(v, tag), Layout)
<1>1. PICK s, t : s = PushMode(v.navs, NavClass \in e.class) /\ t = PopMode(v.navs)
  OBVIOUS
<1>2. Sequence(s) /\ Len(s) <= StackCap /\ Sequence(t) /\ Len(t) <= StackCap
  BY <1>1, StackParts, PushModeFacts, PopModeFacts
<1>3. Kept(v, [v EXCEPT !.navs = s], Layout) /\ Kept(v, [v EXCEPT !.navs = t], Layout)
  BY <1>2, StackFacts DEF Stacks
<1>4. Kept(v, v, Layout)
  BY KeptNothing
<1> QED BY <1>1, <1>3, <1>4 DEF ListStart, ListEnd

LEMMA AncestorKept ==
  ASSUME NEW v, Sound(v), NEW e, NEW tag
  PROVE  Kept(v, PushAncestor(v, e), Layout) /\ Kept(v, PopAncestor(v, tag), Layout)
<1>1. Kept(v, v, Layout)
  BY KeptNothing
<1>2. Kept(v, PushAncestor(v, e), Layout)
  <2>1. PICK s : s = Append(v.anc, [tag |-> e.tag, node |-> NodeOf(e)])
    OBVIOUS
  <2>2. CASE ~e.void /\ Len(v.anc) < StackCap
    <3>1. Sequence(s) /\ Len(s) <= StackCap
      BY <2>1, <2>2, StackParts, PushFacts
    <3>2. Kept(v, [v EXCEPT !.anc = s], Layout)
      BY <3>1, StackFacts DEF Stacks
    <3> QED BY <2>1, <2>2, <3>2 DEF PushAncestor
  <2> QED BY <1>1, <2>2 DEF PushAncestor
<1>3. Kept(v, PopAncestor(v, tag), Layout)
  <2>1. CASE v.anc # <<>> /\ Top(v.anc).tag = tag
    <3>1. PICK s : s = Pop(v.anc)
      OBVIOUS
    <3>2. Sequence(s) /\ Len(s) <= StackCap
      BY <2>1, <3>1, StackParts, PopBound
    <3>3. Kept(v, [v EXCEPT !.anc = s], Layout)
      BY <3>2, StackFacts DEF Stacks
    <3> QED BY <2>1, <3>1, <3>3 DEF PopAncestor
  <2> QED BY <1>1, <2>1 DEF PopAncestor
<1> QED BY <1>2, <1>3

\* Inside hidden elements only their names are kept.
LEMMA HiddenKept ==
  ASSUME NEW v, Sound(v), NEW e, NEW tag
  PROVE  /\ Kept(v, HiddenStart(v, e), Layout)
         /\ v.hid # <<>> => Kept(v, HiddenEnd(v, tag), Layout)
<1>1. Kept(v, v, Layout)
  BY KeptNothing
<1>2. Kept(v, HiddenStart(v, e), Layout)
  <2>1. PICK s : s = Append(v.hid, e.tag)
    OBVIOUS
  <2>2. CASE ~e.void /\ Len(v.hid) < StackCap
    <3>1. Sequence(s) /\ Len(s) <= StackCap
      BY <2>1, <2>2, StackParts, PushFacts
    <3>2. Kept(v, [v EXCEPT !.hid = s], Layout)
      BY <3>1, StackFacts DEF Stacks
    <3> QED BY <2>1, <2>2, <3>2 DEF HiddenStart
  <2> QED BY <1>1, <2>2 DEF HiddenStart
<1>3. ASSUME v.hid # <<>> PROVE Kept(v, HiddenEnd(v, tag), Layout)
  <2>1. PICK s, y : s = Pop(v.hid) /\ y = [v EXCEPT !.hid = s]
    OBVIOUS
  <2>2. Sequence(s) /\ Len(s) <= StackCap
    BY <1>3, <2>1, StackParts, PopBound
  <2>3. Kept(v, y, Layout)
    BY <2>1, <2>2, StackFacts DEF Stacks
  <2>4. Kept(y, Blank(y), Layout)
    BY <2>3, BlankFacts, KeptLaid DEF Kept, Sound
  <2>5. Kept(v, Blank(y), Layout)
    BY <2>3, <2>4, KeptOn
  <2>6. HiddenEnd(v, tag) = IF Top(v.hid) # tag THEN v ELSE IF y.hid = <<>> THEN Blank(y) ELSE y
    BY <2>1 DEF HiddenEnd
  <2> QED BY <1>1, <2>3, <2>5, <2>6
<1> QED BY <1>2, <1>3

-----------------------------------------------------------------------------
(***************************************************************************)
(* Rows, cells and breaks: layout, and nothing else.                       *)
(***************************************************************************)
LEMMA LaidOn ==
  ASSUME NEW v, Proper(v), NEW w, NEW u, Laid(v, w), Laid(w, u)
  PROVE  Laid(v, u)
BY WroteOn DEF Laid

LEMMA LaidProper ==
  ASSUME NEW v, NEW w, Laid(v, w)
  PROVE  Proper(w)
BY DEF Laid, Wrote

\* Two or three characters of layout.
LEMMA LayoutPutAll ==
  ASSUME NEW v, Proper(v), NEW cs \in Seq(Layout)
  PROVE  Laid(v, PutAll(v, cs))
<1>1. Sequence(cs) /\ {cs[k] : k \in DOMAIN cs} \subseteq Layout
  <2>1. Sequence(cs)
    BY SequenceOf
  <2>2. \A k \in DOMAIN cs : cs[k] \in Layout
    OBVIOUS
  <2> QED BY <2>1, <2>2
<1>2. Wrote(v, PutAll(v, cs), {cs[k] : k \in DOMAIN cs})
  BY <1>1, PutAllFacts
<1> QED BY <1>1, <1>2, WroteMore DEF Laid

LEMMA RowLaid ==
  ASSUME NEW v, Proper(v)
  PROVE  Laid(v, Row(v))
<1>1. PICK w : w = Break(v)
  OBVIOUS
<1>2. Laid(v, w)
  BY <1>1, BreakFacts
<1>3. Wrote(v, [w EXCEPT !.cell = 0], Layout)
  BY <1>2, WroteCell DEF Laid
<1>4. Row(v) = [w EXCEPT !.cell = 0]
  BY <1>1 DEF Row
<1> QED BY <1>3, <1>4, Zenon DEF Laid

LEMMA CellLaid ==
  ASSUME NEW v, Proper(v), NEW e
  PROVE  Laid(v, Cell(v, e))
<1>1. PICK l, y : /\ l = BlankLine(v)
                  /\ y = IF e.tag = "th" /\ e.wide THEN [l EXCEPT !.cell = 0] ELSE v
  OBVIOUS
<1>2. Laid(v, l)
  BY <1>1, BlankLineFacts
<1>3. Laid(v, y)
  <2>1. Wrote(v, [l EXCEPT !.cell = 0], Layout)
    BY <1>2, WroteCell DEF Laid
  <2>2. Wrote(v, v, Layout)
    BY WroteNothing
  <2>3. CASE e.tag = "th" /\ e.wide
    <3>1. y = [l EXCEPT !.cell = 0]
      BY <1>1, <2>3
    <3> QED BY <2>1, <3>1, Zenon DEF Laid
  <2>4. CASE ~(e.tag = "th" /\ e.wide)
    BY <1>1, <2>2, <2>4 DEF Laid
  <2> QED BY <2>3, <2>4
<1>4. Proper(y)
  BY <1>3, LaidProper
<1>5. PICK p, q : /\ p = PutAll(y, <<<<":", 0>>, Space>>)
                  /\ q = PutAll(y, <<Space, <<"|", 0>>, Space>>)
  OBVIOUS
<1>6. Laid(y, p) /\ Laid(y, q)
  <2>1. <<<<":", 0>>, Space>> \in Seq(Layout) /\ <<Space, <<"|", 0>>, Space>> \in Seq(Layout)
    <3>1. <<":", 0>> \in Layout /\ <<"|", 0>> \in Layout
      BY DEF Layout
    <3>2. \A c, d \in Layout : <<c, d>> \in Seq(Layout) /\ <<d, c, d>> \in Seq(Layout)
      OBVIOUS
    <3> QED BY <3>1, <3>2, SpaceAndNewline
  <2> QED BY <1>4, <1>5, <2>1, LayoutPutAll
<1>7. PICK z : z = CASE y.cell = 0 -> y
                     [] y.cell = 1 -> [p EXCEPT !.space = FALSE]
                     [] OTHER -> [q EXCEPT !.space = FALSE]
  OBVIOUS
<1>8. Laid(y, z)
  <2>1. Wrote(y, [p EXCEPT !.space = FALSE], Layout) /\ Wrote(y, [q EXCEPT !.space = FALSE], Layout)
    BY <1>6, WroteSpaced DEF Laid
  <2>2. Wrote(y, y, Layout)
    BY <1>4, WroteNothing
  <2>3. z = y \/ z = [p EXCEPT !.space = FALSE] \/ z = [q EXCEPT !.space = FALSE]
    BY <1>7
  <2> QED BY <2>1, <2>2, <2>3, Zenon DEF Laid
<1>9. PICK n : n = z.cell + 1
  OBVIOUS
<1>10. Laid(v, [z EXCEPT !.cell = n])
  <2>1. Laid(v, z)
    BY <1>3, <1>8, LaidOn
  <2>2. n \in Nat
    BY <1>8, <1>9 DEF Laid, Wrote, Proper
  <2> QED BY <2>1, <2>2, WroteCell DEF Laid
<1>11. Cell(v, e) = IF InMode(v.tables) /\ e.tag \in {"td", "th"} THEN [z EXCEPT !.cell = n] ELSE v
  BY <1>1, <1>5, <1>7, <1>9 DEF Cell
<1>12. Laid(v, v)
  BY WroteNothing DEF Laid
<1>13. CASE InMode(v.tables) /\ e.tag \in {"td", "th"}
  <2>1. Cell(v, e) = [z EXCEPT !.cell = n]
    BY <1>11, <1>13
  <2> QED BY <1>10, <2>1, Zenon
<1>14. CASE ~(InMode(v.tables) /\ e.tag \in {"td", "th"})
  BY <1>11, <1>12, <1>14
<1> QED BY <1>13, <1>14

LEMMA BreakAtLaid ==
  ASSUME NEW v, Proper(v), NEW tag, NEW display
  PROVE  Laid(v, BreakAt(v, tag, display))
<1>1. Laid(v, v)
  BY WroteNothing DEF Laid
<1> QED BY <1>1, BreakFacts, BlankLineFacts DEF BreakAt

LEMMA BulletLaid ==
  ASSUME NEW v, Proper(v), NEW tag, NEW display
  PROVE  Laid(v, Bullet(v, tag, display))
<1>1. Laid(v, v)
  BY WroteNothing DEF Laid
<1>2. PICK p : p = PutAll(v, <<<<"-", 0>>, Space>>)
  OBVIOUS
<1>3. Laid(v, p)
  <2>1. <<<<"-", 0>>, Space>> \in Seq(Layout)
    <3>1. <<"-", 0>> \in Layout
      BY DEF Layout
    <3>2. \A c, d \in Layout : <<c, d>> \in Seq(Layout)
      OBVIOUS
    <3> QED BY <3>1, <3>2, SpaceAndNewline
  <2> QED BY <1>2, <2>1, LayoutPutAll
<1>4. Laid(v, [p EXCEPT !.space = TRUE])
  BY <1>3, WroteSpaced DEF Laid
<1>5. Bullet(v, tag, display) = IF Allowed(v) /\ tag = "li" /\ IsBlock(v, tag, display)
                                THEN [p EXCEPT !.space = TRUE] ELSE v
  BY <1>2 DEF Bullet
<1>6. CASE Allowed(v) /\ tag = "li" /\ IsBlock(v, tag, display)
  <2>1. Bullet(v, tag, display) = [p EXCEPT !.space = TRUE]
    BY <1>5, <1>6
  <2> QED BY <1>4, <2>1, Zenon
<1>7. CASE ~(Allowed(v) /\ tag = "li" /\ IsBlock(v, tag, display))
  BY <1>1, <1>5, <1>7
<1> QED BY <1>6, <1>7

-----------------------------------------------------------------------------
(***************************************************************************)
(* Links and spans.                                                        *)
(***************************************************************************)
\* Other ranges over the same text.
LEMMA RangesKept ==
  ASSUME NEW v, Sound(v), NEW w, w = [f \in Fields |-> w[f]],
         \A f \in Fields \ {"a", "links", "span", "spans"} : w[f] = v[f],
         Sequence(w.links), Sequence(w.spans),
         w.a.on \in BOOLEAN, w.a.start \in 0..Here(v),
         w.span.on \in BOOLEAN, w.span.start \in 0..Here(v),
         Ordered(w.links, Since(v, w.a)), Ordered(w.spans, Since(v, w.span)),
         \A k \in 1..Len(w.spans) : IsSpan(w.spans[k])
  PROVE  Kept(v, w, Layout)
<1>1. /\ w.out = v.out /\ w.space = v.space /\ w.cell = v.cell /\ w.icons = v.icons
      /\ w.hid = v.hid /\ w.anc = v.anc /\ w.styles = v.styles
      /\ w.tables = v.tables /\ w.navs = v.navs /\ w.raw = v.raw
  BY DEF Fields
<1>2. Proper(v) /\ Here(v) \in Nat
  BY HereFacts DEF Sound
<1>3. Proper(w)
  BY <1>1, <1>2 DEF Proper
<1>4. Here(w) = Here(v)
  BY <1>1 DEF Here
<1>5. Since(w, w.a) = Since(v, w.a) /\ Since(w, w.span) = Since(v, w.span)
  BY <1>4 DEF Since
<1>6. Ranged(w)
  BY <1>4, <1>5 DEF Ranged
<1>7. Bounded(w)
  BY <1>1 DEF Sound, Bounded
<1>8. Grown(v, w, Layout)
  BY <1>1, <1>2, <1>3, <1>4 DEF Grown
<1> QED BY <1>3, <1>6, <1>7, <1>8 DEF Kept, Sound

\* The ranges there are.
LEMMA RangeParts ==
  ASSUME NEW v, Sound(v)
  PROVE  /\ v = [f \in Fields |-> v[f]] /\ Here(v) \in Nat
         /\ Sequence(v.links) /\ Sequence(v.spans)
         /\ v.a.on \in BOOLEAN /\ v.a.start \in 0..Here(v)
         /\ v.span.on \in BOOLEAN /\ v.span.start \in 0..Here(v)
         /\ Ordered(v.links, Since(v, v.a)) /\ Ordered(v.spans, Since(v, v.span))
         /\ Ordered(v.links, Here(v)) /\ Ordered(v.spans, Here(v))
         /\ \A k \in 1..Len(v.spans) : IsSpan(v.spans[k])
<1>1. /\ Proper(v) /\ Ranged(v) /\ Here(v) \in Nat
  BY HereFacts DEF Sound
<1>2. /\ v = [f \in Fields |-> v[f]] /\ Sequence(v.links) /\ Sequence(v.spans)
  BY <1>1 DEF Proper
<1>3. /\ v.a.on \in BOOLEAN /\ v.a.start \in 0..Here(v)
      /\ v.span.on \in BOOLEAN /\ v.span.start \in 0..Here(v)
      /\ Ordered(v.links, Since(v, v.a)) /\ Ordered(v.spans, Since(v, v.span))
      /\ \A k \in 1..Len(v.spans) : IsSpan(v.spans[k])
  BY <1>1 DEF Ranged
<1>4. /\ Since(v, v.a) \in Nat /\ Since(v, v.a) <= Here(v)
      /\ Since(v, v.span) \in Nat /\ Since(v, v.span) <= Here(v)
  BY <1>1, <1>3 DEF Since
<1>5. Ordered(v.links, Here(v)) /\ Ordered(v.spans, Here(v))
  BY <1>1, <1>3, <1>4, OrderedUpTo
<1> QED BY <1>1, <1>2, <1>3, <1>5

\* A link begins here.
LEMMA LinkStartKept ==
  ASSUME NEW v, Sound(v), NEW e, NEW style
  PROVE  Kept(v, LinkStart(v, e, style), Layout)
<1>1. CASE ~(e.tag = "a" /\ e.href # "")
  BY <1>1, KeptNothing DEF LinkStart
<1>2. CASE e.tag = "a" /\ e.href # ""
  <2>1. PICK a : a = [on |-> TRUE, start |-> Here(v), href |-> e.href,
                      style |-> Merge(style, ParseInline(e.style))]
    OBVIOUS
  <2>2. a.on = TRUE /\ a.start = Here(v)
    BY <2>1
  <2>3. PICK w : w = [v EXCEPT !.a = a]
    OBVIOUS
  <2>4. /\ w = [f \in Fields |-> w[f]] /\ w.a = a
        /\ \A f \in Fields \ {"a"} : w[f] = v[f]
    <3>1. v = [f \in Fields |-> v[f]] /\ "a" \in Fields
      BY RangeParts DEF Fields
    <3> QED BY <2>3, <3>1
  <2>5. w.links = v.links /\ w.spans = v.spans /\ w.span = v.span
    BY <2>4 DEF Fields
  <2>6. Since(v, a) = Here(v) /\ Here(v) \in 0..Here(v)
    BY <2>2, RangeParts DEF Since
  <2>7. Kept(v, w, Layout)
    BY <2>2, <2>4, <2>5, <2>6, RangeParts, RangesKept
  <2> QED BY <1>2, <2>1, <2>3, <2>7 DEF LinkStart
<1> QED BY <1>1, <1>2

LEMMA LinkEndKept ==
  ASSUME NEW v, Sound(v), NEW tag
  PROVE  Kept(v, LinkEnd(v, tag), Layout)
<1>1. CASE tag # "a"
  BY <1>1, KeptNothing DEF LinkEnd
<1>2. CASE tag = "a"
  <2>1. PICK r : r = [from |-> v.a.start, to |-> Here(v), href |-> v.a.href, style |-> v.a.style]
    OBVIOUS
  <2>2. PICK ls : ls = IF v.a.on /\ Len(v.links) < MaxLinks THEN Append(v.links, r) ELSE v.links
    OBVIOUS
  <2>3. PICK w : w = [v EXCEPT !.a = NoAnchor, !.links = ls]
    OBVIOUS
  <2>4. Here(v) \in Nat /\ Sequence(v.links)
    BY RangeParts
  <2>5. Sequence(ls)
    BY <2>2, <2>4, AppendFacts
  <2>6. /\ w = [f \in Fields |-> w[f]] /\ w.a = NoAnchor /\ w.links = ls
        /\ \A f \in Fields \ {"a", "links"} : w[f] = v[f]
    <3>1. v = [f \in Fields |-> v[f]] /\ "a" \in Fields /\ "links" \in Fields
      BY RangeParts DEF Fields
    <3> QED BY <2>3, <3>1
  <2>7. w.spans = v.spans /\ w.span = v.span
    BY <2>6 DEF Fields
  <2>8. Ordered(ls, Here(v))
    <3>1. v.a.on \in BOOLEAN /\ v.a.start \in 0..Here(v) /\ Ordered(v.links, Here(v))
      BY RangeParts
    <3>2. CASE v.a.on
      <4>1. Ordered(v.links, v.a.start) /\ v.a.start \in Nat /\ v.a.start <= Here(v)
        BY <2>4, <3>1, <3>2, RangeParts DEF Since
      <4>2. r.from = v.a.start /\ r.to = Here(v)
        BY <2>1
      <4>3. Ordered(Append(v.links, r), Here(v))
        BY <2>4, <4>1, <4>2, OrderedAppend
      <4> QED BY <2>2, <3>1, <4>3
    <3>3. CASE ~v.a.on
      BY <2>2, <3>1, <3>3
    <3> QED BY <3>2, <3>3
  <2>9. NoAnchor.on = FALSE /\ NoAnchor.start = 0
    BY DEF NoAnchor
  <2>10. Since(v, NoAnchor) = Here(v)
    BY <2>9 DEF Since
  <2>11. /\ w.a.on \in BOOLEAN /\ w.a.start \in 0..Here(v) /\ Ordered(w.links, Since(v, w.a))
         /\ Sequence(w.links)
    <3>1. w.a = NoAnchor /\ w.links = ls
      BY <2>6
    <3>2. 0 \in 0..Here(v)
      BY <2>4
    <3> QED BY <2>5, <2>8, <2>9, <2>10, <3>1, <3>2
  <2>12. /\ w.span.on \in BOOLEAN /\ w.span.start \in 0..Here(v) /\ Sequence(w.spans)
         /\ Ordered(w.spans, Since(v, w.span))
         /\ \A k \in 1..Len(w.spans) : IsSpan(w.spans[k])
    BY <2>7, RangeParts
  <2>13. \A f \in Fields \ {"a", "links", "span", "spans"} : w[f] = v[f]
    BY <2>6
  <2>14. Kept(v, w, Layout)
    BY <2>6, <2>11, <2>12, <2>13, RangesKept
  <2> QED BY <1>2, <2>1, <2>2, <2>3, <2>14 DEF LinkEnd
<1> QED BY <1>1, <1>2

\* A span that is closed comes last and is not empty.
LEMMA EmitFacts ==
  ASSUME NEW rs, Sequence(rs), NEW span, NEW end \in Nat, span.start \in Nat,
         Ordered(rs, span.start), \A k \in 1..Len(rs) : IsSpan(rs[k])
  PROVE  /\ Sequence(EmitSpan(rs, span, end))
         /\ span.start <= end => Ordered(EmitSpan(rs, span, end), end)
         /\ \A k \in 1..Len(EmitSpan(rs, span, end)) :
               IsSpan(EmitSpan(rs, span, end)[k])
<1>1. PICK r, new : r = [from |-> span.start, to |-> end, style |-> span.style] /\ new = Append(rs, r)
  OBVIOUS
<1>2. r.from = span.start /\ r.to = end /\ r = [from |-> r.from, to |-> r.to, style |-> r.style]
  BY <1>1
<1>3. CASE span.start < end
  <2>1. /\ Sequence(new) /\ Len(new) = Len(rs) + 1 /\ new[Len(rs) + 1] = r /\ Len(rs) \in Nat
        /\ \A k \in 1..Len(rs) : new[k] = rs[k]
    BY <1>1, AppendFacts, SequenceFacts
  <2>2. Ordered(new, end) /\ Ordered(rs, end)
    BY <1>1, <1>2, <1>3, OrderedAppend, OrderedUpTo
  <2>3. \A k \in 1..Len(new) : IsSpan(new[k])
    <3>1. \A k \in 1..Len(new) : k \in 1..Len(rs) \/ k = Len(rs) + 1
      BY <2>1
    <3> QED BY <1>2, <1>3, <2>1, <3>1 DEF IsSpan
  <2> QED BY <1>1, <2>1, <2>2, <2>3 DEF EmitSpan
<1>4. CASE ~(span.start < end)
  <2>1. EmitSpan(rs, span, end) = rs
    BY <1>4 DEF EmitSpan
  <2> QED BY <1>4, <2>1, OrderedUpTo
<1> QED BY <1>3, <1>4

LEMMA SwitchKept ==
  ASSUME NEW v, Sound(v)
  PROVE  Kept(v, SwitchSpan(v), Layout)
<1>1. PICK next : next = [on |-> ~IsDefault(v.cur), start |-> Here(v), style |-> v.cur]
  OBVIOUS
<1>2. PICK ss : ss = EmitSpan(v.spans, v.span, Here(v))
  OBVIOUS
<1>3. PICK p, q : /\ p = [v EXCEPT !.span = next]
                  /\ q = [v EXCEPT !.spans = ss, !.span = next]
  OBVIOUS
<1>4. SwitchSpan(v) = CASE ~v.span.on -> IF next.on THEN p ELSE v
                        [] v.span.on /\ v.span.style = v.cur -> v
                        [] OTHER -> q
  BY <1>1, <1>2, <1>3 DEF SwitchSpan
<1>5. /\ Here(v) \in Nat /\ v.span.on \in BOOLEAN /\ v.span.start \in 0..Here(v)
      /\ Sequence(v.spans) /\ Ordered(v.spans, Since(v, v.span)) /\ Ordered(v.spans, Here(v))
      /\ \A k \in 1..Len(v.spans) : IsSpan(v.spans[k])
  BY RangeParts
<1>6. next.on \in BOOLEAN /\ next.start = Here(v)
  <2>1. IsDefault(v.cur) \in BOOLEAN
    BY DEF IsDefault
  <2> QED BY <1>1, <2>1
<1>7. v = [f \in Fields |-> v[f]] /\ "span" \in Fields /\ "spans" \in Fields
  BY RangeParts DEF Fields
\* What either way of opening one keeps.
<1>8. ASSUME NEW w, w = [f \in Fields |-> w[f]], w.span = next, Sequence(w.spans),
             \A f \in Fields \ {"span", "spans"} : w[f] = v[f], Ordered(w.spans, Here(v)),
             \A k \in 1..Len(w.spans) : IsSpan(w.spans[k])
      PROVE  Kept(v, w, Layout)
  <2>1. w.links = v.links /\ w.a = v.a
    BY <1>8 DEF Fields
  <2>2. Since(v, next) = Here(v) /\ Here(v) \in 0..Here(v)
    BY <1>5, <1>6 DEF Since
  <2> QED BY <1>6, <1>8, <2>1, <2>2, RangeParts, RangesKept
<1>9. CASE ~v.span.on /\ next.on
  <2>1. p = [f \in Fields |-> p[f]] /\ p.span = next /\ \A f \in Fields \ {"span"} : p[f] = v[f]
    BY <1>3, <1>7
  <2>2. p.spans = v.spans
    BY <2>1 DEF Fields
  <2>3. Ordered(v.spans, Here(v))
    BY <1>5, <1>9 DEF Since
  <2>4. Kept(v, p, Layout)
    BY <1>5, <1>8, <2>1, <2>2, <2>3
  <2> QED BY <1>4, <1>9, <2>4
<1>10. CASE v.span.on /\ v.span.style # v.cur
  <2>1. /\ q = [f \in Fields |-> q[f]] /\ q.span = next /\ q.spans = ss
        /\ \A f \in Fields \ {"span", "spans"} : q[f] = v[f]
    BY <1>3, <1>7
  <2>2. Ordered(v.spans, v.span.start) /\ v.span.start \in Nat /\ v.span.start <= Here(v)
    BY <1>5, <1>10 DEF Since
  <2>3. Sequence(ss) /\ Ordered(ss, Here(v)) /\ \A k \in 1..Len(ss) : IsSpan(ss[k])
    BY <1>2, <1>5, <2>2, EmitFacts
  <2>4. Kept(v, q, Layout)
    BY <1>8, <2>1, <2>3
  <2> QED BY <1>4, <1>10, <2>4
<1>11. CASE ~(~v.span.on /\ next.on) /\ ~(v.span.on /\ v.span.style # v.cur)
  <2>1. SwitchSpan(v) = v
    BY <1>4, <1>5, <1>11
  <2> QED BY <2>1, KeptNothing
<1> QED BY <1>9, <1>10, <1>11

-----------------------------------------------------------------------------
(***************************************************************************)
(* Styles, raw elements, main and article.                                 *)
(***************************************************************************)

\* Fields that the ranges do not depend on may change together.
LEMMA FieldsKept ==
  ASSUME NEW v, Sound(v), NEW w, w = [f \in Fields |-> w[f]], But(v, w, Beside),
         \A f \in Stacks : Sequence(w[f]) /\ Len(w[f]) <= StackCap,
         w.space \in BOOLEAN, w.cell \in Nat, w.raw \in {""} \cup RawTags, NEW cs
  PROVE  Kept(v, w, cs)
<1>1. w.out = v.out /\ w.links = v.links /\ w.spans = v.spans /\ w.icons = v.icons
  BY DEF But, Beside, Fields
<1>2. Proper(w)
  BY <1>1 DEF Sound, Proper, Stacks
<1>3. Bounded(w)
  BY DEF Bounded, Stacks
<1> QED BY <1>2, <1>3, KeptBeside

\* What there is of those.
LEMMA BesideParts ==
  ASSUME NEW v, Sound(v)
  PROVE  /\ v = [f \in Fields |-> v[f]]
         /\ \A f \in Stacks : f \in Fields /\ Sequence(v[f]) /\ Len(v[f]) <= StackCap
         /\ v.space \in BOOLEAN /\ v.cell \in Nat /\ v.raw \in {""} \cup RawTags
BY DEF Sound, Proper, Bounded, Stacks, Fields

LEMMA StyleStartKept ==
  ASSUME NEW v, Sound(v), NEW e, NEW style
  PROVE  Kept(v, StyleStart(v, e, style), Layout)
<1>1. CASE Len(v.styles) < StackCap
  <2>1. PICK s : s = Append(v.styles, [tag |-> e.tag, style |-> v.cur])
    OBVIOUS
  <2>2. Sequence(s) /\ Len(s) <= StackCap
    BY <1>1, <2>1, StackParts, PushFacts
  <2>3. ASSUME NEW c PROVE Kept(v, SwitchSpan([v EXCEPT !.styles = s, !.cur = c]), Layout)
    <3>1. PICK w : w = [v EXCEPT !.styles = s, !.cur = c]
      OBVIOUS
    <3>2. /\ w = [f \in Fields |-> w[f]] /\ w.styles = s
          /\ \A f \in Fields \ {"styles", "cur"} : w[f] = v[f]
      <4>1. v = [f \in Fields |-> v[f]] /\ "styles" \in Fields /\ "cur" \in Fields
        BY BesideParts DEF Fields
      <4> QED BY <3>1, <4>1
    <3>3. But(v, w, Beside) /\ w.space = v.space /\ w.cell = v.cell /\ w.raw = v.raw
      BY <3>2 DEF But, Beside, Fields
    <3>4. \A f \in Stacks : Sequence(w[f]) /\ Len(w[f]) <= StackCap
      BY <2>2, <3>2, BesideParts DEF Stacks
    <3>5. Kept(v, w, Layout)
      BY <3>2, <3>3, <3>4, BesideParts, FieldsKept
    <3>6. Kept(w, SwitchSpan(w), Layout)
      BY <3>5, SwitchKept DEF Kept
    <3>7. Kept(v, SwitchSpan(w), Layout)
      BY <3>5, <3>6, KeptOn
    <3> QED BY <3>1, <3>7
  <2>4. Kept(v, v, Layout)
    BY KeptNothing
  <2>5. \/ StyleStart(v, e, style) = v
        \/ \E c : StyleStart(v, e, style) = SwitchSpan([v EXCEPT !.styles = s, !.cur = c])
    BY <2>1 DEF StyleStart
  <2> QED BY <2>3, <2>4, <2>5
<1>2. CASE ~(Len(v.styles) < StackCap)
  <2>1. StyleStart(v, e, style) = v
    BY <1>2 DEF StyleStart
  <2> QED BY <2>1, KeptNothing
<1> QED BY <1>1, <1>2

LEMMA StyleEndKept ==
  ASSUME NEW v, Sound(v), NEW tag
  PROVE  Kept(v, StyleEnd(v, tag), Layout)
<1>1. CASE tag # "a" /\ v.styles # <<>> /\ Top(v.styles).tag = tag
  <2>1. PICK s, c : s = Pop(v.styles) /\ c = Top(v.styles).style
    OBVIOUS
  <2>2. Sequence(s) /\ Len(s) <= StackCap
    BY <1>1, <2>1, StackParts, PopBound
  <2>3. PICK w : w = [v EXCEPT !.cur = c, !.styles = s]
    OBVIOUS
  <2>4. /\ w = [f \in Fields |-> w[f]] /\ w.styles = s
        /\ \A f \in Fields \ {"styles", "cur"} : w[f] = v[f]
    <3>1. v = [f \in Fields |-> v[f]] /\ "styles" \in Fields /\ "cur" \in Fields
      BY BesideParts DEF Fields
    <3> QED BY <2>3, <3>1
  <2>5. But(v, w, Beside) /\ w.space = v.space /\ w.cell = v.cell /\ w.raw = v.raw
    BY <2>4 DEF But, Beside, Fields
  <2>6. \A f \in Stacks : Sequence(w[f]) /\ Len(w[f]) <= StackCap
    BY <2>2, <2>4, BesideParts DEF Stacks
  <2>7. Kept(v, w, Layout)
    BY <2>4, <2>5, <2>6, BesideParts, FieldsKept
  <2>8. Kept(w, SwitchSpan(w), Layout)
    BY <2>7, SwitchKept DEF Kept
  <2>9. Kept(v, SwitchSpan(w), Layout)
    BY <2>7, <2>8, KeptOn
  <2>10. StyleEnd(v, tag) = SwitchSpan(w)
    BY <1>1, <2>1, <2>3 DEF StyleEnd
  <2> QED BY <2>9, <2>10
<1>2. CASE ~(tag # "a" /\ v.styles # <<>> /\ Top(v.styles).tag = tag)
  <2>1. StyleEnd(v, tag) = v
    BY <1>2 DEF StyleEnd
  <2> QED BY <2>1, KeptNothing
<1> QED BY <1>1, <1>2

\* One field that nothing here speaks of.
LEMMA SettingKept ==
  ASSUME NEW v, Sound(v), NEW f \in {"css", "sheet", "main", "article", "cur"}, NEW s, NEW cs
  PROVE  Kept(v, [v EXCEPT ![f] = s], cs) /\ [v EXCEPT ![f] = s].raw = v.raw
<1>1. PICK w : w = [v EXCEPT ![f] = s]
  OBVIOUS
<1>2. w = [g \in Fields |-> w[g]] /\ \A g \in Fields \ {f} : w[g] = v[g]
  <2>1. v = [g \in Fields |-> v[g]] /\ f \in Fields
    BY BesideParts DEF Fields
  <2> QED BY <1>1, <2>1
<1>3. But(v, w, Beside) /\ w.space = v.space /\ w.cell = v.cell /\ w.raw = v.raw
  BY <1>2 DEF But, Beside, Fields
<1>4. \A g \in Stacks : Sequence(w[g]) /\ Len(w[g]) <= StackCap
  BY <1>2, BesideParts DEF Stacks
<1> QED BY <1>1, <1>2, <1>3, <1>4, BesideParts, FieldsKept

LEMMA RawSet ==
  ASSUME NEW v, Sound(v), NEW raw \in {""} \cup RawTags, NEW cs
  PROVE  Kept(v, [v EXCEPT !.raw = raw], cs)
<1>1. PICK w : w = [v EXCEPT !.raw = raw]
  OBVIOUS
<1>2. w = [g \in Fields |-> w[g]] /\ w.raw = raw /\ \A g \in Fields \ {"raw"} : w[g] = v[g]
  <2>1. v = [g \in Fields |-> v[g]] /\ "raw" \in Fields
    BY BesideParts DEF Fields
  <2> QED BY <1>1, <2>1
<1>3. But(v, w, Beside) /\ w.space = v.space /\ w.cell = v.cell
  BY <1>2 DEF But, Beside, Fields
<1>4. \A g \in Stacks : Sequence(w[g]) /\ Len(w[g]) <= StackCap
  BY <1>2, BesideParts DEF Stacks
<1> QED BY <1>1, <1>2, <1>3, <1>4, BesideParts, FieldsKept

LEMMA RawStartKept ==
  ASSUME NEW v, Sound(v), NEW tag
  PROVE  Kept(v, RawStart(v, tag), Layout)
<1>1. CASE tag \in RawTags
  <2>1. PICK y : y = [v EXCEPT !.raw = tag]
    OBVIOUS
  <2>2. PICK w : w = [y EXCEPT !.css = <<>>]
    OBVIOUS
  <2>3. Kept(v, y, Layout)
    BY <1>1, <2>1, RawSet
  <2>4. Kept(y, w, Layout)
    BY <2>2, <2>3, SettingKept DEF Kept
  <2>5. Kept(v, w, Layout)
    BY <2>3, <2>4, KeptOn
  <2>6. RawStart(v, tag) = w
    BY <1>1, <2>1, <2>2 DEF RawStart
  <2> QED BY <2>5, <2>6
<1>2. CASE tag \notin RawTags
  BY <1>2, KeptNothing DEF RawStart
<1> QED BY <1>1, <1>2

LEMMA EndRawKept ==
  ASSUME NEW v, Sound(v)
  PROVE  Kept(v, EndRaw(v), Layout)
<1>1. PICK s : s = IF v.raw = "style" THEN AddRules(v.sheet, v.css) ELSE v.sheet
  OBVIOUS
<1>2. PICK y : y = [v EXCEPT !.raw = ""]
  OBVIOUS
<1>3. PICK w : w = [y EXCEPT !.sheet = s]
  OBVIOUS
<1>4. Kept(v, y, Layout)
  BY <1>2, RawSet
<1>5. Kept(y, w, Layout)
  BY <1>3, <1>4, SettingKept DEF Kept
<1>6. Kept(v, w, Layout)
  BY <1>4, <1>5, KeptOn
<1>7. Kept(w, Blank(w), Layout)
  BY <1>6, BlankFacts, KeptLaid DEF Kept, Sound
<1>8. Kept(v, Blank(w), Layout)
  BY <1>6, <1>7, KeptOn
<1>9. w = [v EXCEPT !.raw = "", !.sheet = s]
  BY <1>2, <1>3
<1>10. EndRaw(v) = Blank(w)
  BY <1>1, <1>9 DEF EndRaw
<1> QED BY <1>8, <1>10

LEMMA RawTextKept ==
  ASSUME NEW v, Sound(v), NEW text
  PROVE  Kept(v, RawText(v, text), Layout)
<1>1. PICK c : c = v.css \o text
  OBVIOUS
<1>2. Kept(v, [v EXCEPT !.css = c], Layout) /\ Kept(v, v, Layout)
  BY SettingKept, KeptNothing
<1> QED BY <1>1, <1>2 DEF RawText

LEMMA CommentKept ==
  ASSUME NEW v, Sound(v)
  PROVE  Kept(v, Comment(v), Layout)
<1>1. Kept(v, v, Layout) /\ Kept(v, Blank(v), Layout)
  BY KeptNothing, BlankFacts, KeptLaid DEF Sound
<1>2. PICK s : s = Append(v.hid, "")
  OBVIOUS
<1>3. CASE Len(v.hid) < StackCap
  <2>1. Kept(v, [v EXCEPT !.hid = s], Layout)
    BY <1>2, <1>3, StackParts, PushFacts, StackFacts DEF Stacks
  <2> QED BY <1>1, <1>2, <2>1 DEF Comment
<1>4. CASE ~(Len(v.hid) < StackCap)
  BY <1>1, <1>4 DEF Comment
<1> QED BY <1>3, <1>4

\* All text is dropped; the inline images are kept.
LEMMA DiscardFacts ==
  ASSUME NEW v, Sound(v)
  PROVE  Sound(Discard(v)) /\ Here(Discard(v)) = 0 /\ Discard(v).icons = v.icons
<1>1. PICK w : w = Discard(v)
  OBVIOUS
<1>2. /\ w = [f \in Fields |-> w[f]]
      /\ w.out = <<>> /\ w.space = TRUE /\ w.links = <<>> /\ w.spans = <<>> /\ w.span = NoSpan
      /\ w.styles = <<>> /\ w.a = NoAnchor
      /\ \A f \in Fields \ {"out", "space", "links", "spans", "span", "cur", "styles", "a"} :
            w[f] = v[f]
  <2>1. /\ v = [f \in Fields |-> v[f]]
        /\ {"out", "space", "links", "spans", "span", "cur", "styles", "a"} \subseteq Fields
    BY BesideParts DEF Fields
  <2> QED BY <1>1, <2>1 DEF Discard
<1>3. /\ w.hid = v.hid /\ w.anc = v.anc /\ w.tables = v.tables /\ w.navs = v.navs
      /\ w.raw = v.raw /\ w.cell = v.cell /\ w.icons = v.icons
  BY <1>2 DEF Fields
<1>4. Sequence(<<>>) /\ Len(<<>>) = 0 /\ OutCap \in Nat \ {0} /\ StackCap \in Nat \ {0}
  BY NothingFacts, CapFacts
<1>5. Here(w) = 0
  BY <1>2, <1>4 DEF Here
<1>6. Proper(w)
  <2>1. Len(w.out) < OutCap
    BY <1>2, <1>4
  <2> QED BY <1>2, <1>3, <1>4, <2>1 DEF Sound, Proper
<1>7. Bounded(w)
  <2>1. Len(w.styles) <= StackCap
    BY <1>2, <1>4
  <2> QED BY <1>3, <2>1 DEF Sound, Bounded
<1>8. Ranged(w)
  <2>1. NoAnchor.on = FALSE /\ NoAnchor.start = 0 /\ NoSpan.on = FALSE /\ NoSpan.start = 0
    BY DEF NoAnchor, NoSpan
  <2>2. 0 \in 0..Here(w)
    BY <1>5
  <2>3. w.a.on \in BOOLEAN /\ w.span.on \in BOOLEAN /\ w.a.start = 0 /\ w.span.start = 0
    BY <1>2, <2>1
  <2>4. \A q : Ordered(w.links, q) /\ Ordered(w.spans, q)
    BY <1>2, OrderedNothing
  <2>5. \A k \in 1..Len(w.spans) : IsSpan(w.spans[k])
    BY <1>2, <1>4
  <2> QED BY <2>2, <2>3, <2>4, <2>5 DEF Ranged
<1> QED BY <1>1, <1>3, <1>5, <1>6, <1>7, <1>8 DEF Sound

\* Tags of main and article keep the text or drop all of it.
Dropped(v, w) == Sound(w) /\ Here(w) = 0 /\ w.icons = v.icons

LEMMA MainStartFacts ==
  ASSUME NEW v, Sound(v), NEW tag
  PROVE  \/ Kept(v, MainStart(v, tag), Layout)
         \/ tag \in {"main", "article"} /\ Dropped(v, MainStart(v, tag))
<1>1. PICK d : d = Discard(v)
  OBVIOUS
<1>2. Dropped(v, d)
  BY <1>1, DiscardFacts DEF Dropped
<1>3. ASSUME NEW f \in {"main", "article"}, NEW s
      PROVE  Kept(v, [v EXCEPT ![f] = s], Layout) /\ Dropped(v, [d EXCEPT ![f] = s])
  <2>1. Kept(v, [v EXCEPT ![f] = s], Layout)
    BY SettingKept
  <2>2. Kept(d, [d EXCEPT ![f] = s], {})
    BY <1>2, SettingKept DEF Dropped
  <2>3. PICK w : w = [d EXCEPT ![f] = s]
    OBVIOUS
  <2>4. Kept(d, w, {}) /\ Here(d) = 0
    BY <1>2, <2>2, <2>3, Zenon DEF Dropped
  <2>5. Sound(w) /\ w.icons = v.icons /\ Here(w) = 0
    <3>1. Sound(w) /\ w.icons = d.icons /\ \A k \in (Here(d) + 1)..Here(w) : w.out[k] \in {}
      BY <2>4 DEF Kept, Grown
    <3>2. Here(w) \in Nat
      BY <3>1, HereFacts DEF Sound
    <3>3. Here(w) # 0 => 1 \in (Here(d) + 1)..Here(w)
      BY <2>4, <3>2
    <3> QED BY <1>2, <3>1, <3>3 DEF Dropped
  <2>6. Dropped(v, w)
    BY <2>5 DEF Dropped
  <2> QED BY <2>1, <2>3, <2>6, Zenon
<1>4. /\ Kept(v, [v EXCEPT !.main = "in"], Layout) /\ Dropped(v, [d EXCEPT !.main = "in"])
      /\ Kept(v, [v EXCEPT !.article = "in"], Layout) /\ Dropped(v, [d EXCEPT !.article = "in"])
      /\ Kept(v, v, Layout)
  BY <1>3, KeptNothing
<1>5. \/ tag = "main" /\ MainStart(v, tag) = [d EXCEPT !.main = "in"]
      \/ tag = "main" /\ MainStart(v, tag) = [v EXCEPT !.main = "in"]
      \/ tag = "article" /\ MainStart(v, tag) = [d EXCEPT !.article = "in"]
      \/ tag = "article" /\ MainStart(v, tag) = [v EXCEPT !.article = "in"]
      \/ MainStart(v, tag) = v
  BY <1>1 DEF MainStart
<1> QED BY <1>4, <1>5, Zenon

LEMMA MainEndKept ==
  ASSUME NEW v, Sound(v), NEW tag
  PROVE  Kept(v, MainEnd(v, tag), Layout)
<1>1. /\ Kept(v, [v EXCEPT !.main = "out"], Layout)
      /\ Kept(v, [v EXCEPT !.article = "out"], Layout) /\ Kept(v, v, Layout)
  BY SettingKept, KeptNothing
<1>2. \/ MainEnd(v, tag) = [v EXCEPT !.main = "out"]
      \/ MainEnd(v, tag) = [v EXCEPT !.article = "out"]
      \/ MainEnd(v, tag) = v
  BY DEF MainEnd
<1> QED BY <1>1, <1>2, Zenon

-----------------------------------------------------------------------------
(***************************************************************************)
(* Images.                                                                 *)
(***************************************************************************)
Marker(n) == Layout \cup {<<"marker", n>>}

LEMMA PlaceholderKept ==
  ASSUME NEW v, Sound(v), NEW e, e.rows \in Nat, NEW n
  PROVE  Kept(v, Placeholder(v, e, n), Marker(n))
<1>1. PICK b, y, p, q : /\ b = Break(v) /\ y = Put(b, <<"marker", n>>)
                        /\ p = PutAll(y, [k \in 1..e.rows |-> Newline])
                        /\ q = [p EXCEPT !.space = TRUE]
  OBVIOUS
<1>2. Kept(v, b, Marker(n)) /\ Sound(b)
  BY <1>1, BreakFacts, KeptLaid, KeptMore DEF Sound, Marker, Kept
<1>3. Kept(b, y, Marker(n)) /\ Sound(y)
  <2>1. Wrote(b, y, {<<"marker", n>>})
    BY <1>1, <1>2, PutFacts DEF Sound
  <2> QED BY <1>2, <2>1, KeptWrote, KeptMore DEF Marker, Kept
<1>4. Laid(y, p)
  <2>1. [k \in 1..e.rows |-> Newline] \in Seq(Layout)
    BY SpaceAndNewline
  <2> QED BY <1>1, <1>3, <2>1, LayoutPutAll DEF Sound
<1>5. Laid(y, q)
  <2>1. Laid(y, [p EXCEPT !.space = TRUE])
    BY <1>4, WroteSpaced DEF Laid
  <2> QED BY <1>1, <2>1, Zenon
<1>6. Laid(y, BlankLine(q))
  BY <1>3, <1>5, LaidProper, BlankLineFacts, LaidOn DEF Sound
<1>7. Kept(y, BlankLine(q), Marker(n))
  BY <1>3, <1>6, KeptLaid, KeptMore DEF Marker
<1>8. Kept(v, BlankLine(q), Marker(n))
  <2>1. Kept(v, y, Marker(n))
    BY <1>2, <1>3, KeptOn
  <2> QED BY <1>7, <2>1, KeptOn
<1>9. Placeholder(v, e, n) = BlankLine(q)
  BY <1>1 DEF Placeholder
<1> QED BY <1>8, <1>9

\* An inline image: its marker goes behind the text as far as there is room, its
\* range on the list while that has room.
Drew(v, w, n) ==
    /\ Sound(w)
    /\ \E f \in Nat, m \in 0..IconLen :
          /\ Here(v) <= f /\ f + m <= Here(w)
          /\ \A k \in 1..Here(v) : w.out[k] = v.out[k]
          /\ \A k \in (f + 1)..(f + m) : w.out[k] = <<"img", n>>
          /\ \A k \in (Here(v) + 1)..Here(w) : k \in (f + 1)..(f + m) \/ w.out[k] \in Layout
          /\ Here(w) + 1 < OutCap => m = IconLen
          /\ w.icons = IF Len(v.icons) < MaxIcons
                       THEN Append(v.icons, [from |-> f, to |-> f + IconLen, img |-> n])
                       ELSE v.icons

LEMMA IconFacts ==
  ASSUME NEW v, Sound(v), NEW n
  PROVE  Drew(v, Icon(v, n), n)
<1>1. PICK y, z, p : /\ y = Blank(v) /\ z = PutAll(y, [k \in 1..IconLen |-> <<"img", n>>])
                     /\ p = Put(z, Nbsp)
  OBVIOUS
<1>2. PICK is : is = IF Len(v.icons) < MaxIcons
                     THEN Append(v.icons, [from |-> Here(y), to |-> Here(y) + IconLen, img |-> n])
                     ELSE v.icons
  OBVIOUS
<1>3. PICK w : w = [p EXCEPT !.space = TRUE, !.icons = is]
  OBVIOUS
<1>4. Kept(v, y, Layout) /\ Sound(y) /\ y.icons = v.icons
  BY <1>1, BlankFacts, KeptLaid DEF Sound, Kept, Grown
<1>5. PICK cs : cs = [k \in 1..IconLen |-> <<"img", n>>]
  OBVIOUS
<1>6. Sequence(cs) /\ Len(cs) = IconLen /\ \A k \in 1..IconLen : cs[k] = <<"img", n>>
  <2>1. IconLen \in Nat
    BY DEF IconLen
  <2>2. cs \in Seq({<<"img", n>>}) /\ Len(cs) = IconLen
    BY <1>5, <2>1
  <2>3. \A k \in 1..IconLen : cs[k] = <<"img", n>>
    BY <1>5
  <2> QED BY <2>2, <2>3, SequenceOf
<1>7. PICK r : r = Room(y, IconLen)
  OBVIOUS
<1>8. /\ Kept(y, z, {cs[k] : k \in DOMAIN cs}) /\ Sound(z) /\ z.icons = v.icons
      /\ Here(z) = Here(y) + r
      /\ \A k \in 1..r : z.out[Here(y) + k] = cs[k]
  <2>1. z = PutAll(y, cs) /\ Proper(y)
    BY <1>1, <1>4, <1>5 DEF Sound
  <2>2. /\ Wrote(y, z, {cs[k] : k \in DOMAIN cs})
        /\ Here(z) = Here(y) + r
        /\ \A k \in 1..r : z.out[Here(y) + k] = cs[k]
    BY <1>6, <1>7, <2>1, PutAllFacts, SMTT(30)
  <2>3. Kept(y, z, {cs[k] : k \in DOMAIN cs})
    BY <1>4, <2>2, KeptWrote
  <2> QED BY <1>4, <2>2, <2>3 DEF Kept, Grown
<1>9. Kept(z, p, Layout) /\ Sound(p) /\ p.icons = v.icons
  <2>1. Laid(z, p)
    BY <1>1, <1>8, LayoutPut, SpaceAndNewline DEF Sound
  <2> QED BY <1>8, <2>1, KeptLaid DEF Kept, Grown
<1>10. /\ w = [f \in Fields |-> w[f]] /\ w.space = TRUE /\ w.icons = is
       /\ \A f \in Fields \ {"space", "icons"} : w[f] = p[f]
  <2>1. p = [f \in Fields |-> p[f]] /\ "space" \in Fields /\ "icons" \in Fields
    BY <1>9, BesideParts DEF Fields
  <2> QED BY <1>3, <2>1
<1>11. w.out = p.out /\ Here(w) = Here(p)
  BY <1>10 DEF Fields, Here
<1>12. Sound(w)
  <2>1. /\ w.links = p.links /\ w.spans = p.spans /\ w.a = p.a /\ w.span = p.span
        /\ w.hid = p.hid /\ w.anc = p.anc /\ w.styles = p.styles
        /\ w.tables = p.tables /\ w.navs = p.navs /\ w.raw = p.raw /\ w.cell = p.cell
    BY <1>10 DEF Fields
  <2>2. Sequence(is)
    BY <1>2, AppendFacts DEF Sound, Proper
  <2>3. Proper(w)
    BY <1>9, <1>10, <1>11, <2>1, <2>2 DEF Sound, Proper
  <2>4. Ranged(w)
    BY <1>9, <1>11, <2>1 DEF Sound, Ranged, Since
  <2>5. Bounded(w)
    BY <1>9, <2>1 DEF Sound, Bounded
  <2> QED BY <2>3, <2>4, <2>5 DEF Sound
<1>13. /\ Here(v) \in Nat /\ Here(y) \in Nat /\ Here(z) \in Nat /\ Here(p) \in Nat
       /\ OutCap \in Nat /\ Here(y) < OutCap
       /\ Here(v) <= Here(y) /\ Here(y) <= Here(z) /\ Here(z) <= Here(p)
  BY <1>4, <1>8, <1>9, HereFacts, CapFacts DEF Sound, Kept, Grown
<1>14. r \in 0..IconLen /\ (Here(w) + 1 < OutCap => r = IconLen)
  BY <1>7, <1>8, <1>11, <1>13 DEF Room, IconLen
<1>15. \A k \in 1..Here(v) : w.out[k] = v.out[k]
  <2>1. ASSUME NEW k \in 1..Here(v) PROVE w.out[k] = v.out[k]
    <3>1. k \in 1..Here(v) /\ k \in 1..Here(y) /\ k \in 1..Here(z)
      BY <1>13
    <3>2. p.out[k] = z.out[k] /\ z.out[k] = y.out[k] /\ y.out[k] = v.out[k]
      BY <1>4, <1>8, <1>9, <3>1 DEF Kept, Grown
    <3> QED BY <1>11, <3>2
  <2> QED BY <2>1
<1>16. \A k \in (Here(y) + 1)..(Here(y) + r) : w.out[k] = <<"img", n>>
  <2>1. ASSUME NEW k \in (Here(y) + 1)..(Here(y) + r) PROVE w.out[k] = <<"img", n>>
    <3>1. PICK i \in 1..r : k = Here(y) + i
      <4>1. k - Here(y) \in 1..r /\ k = Here(y) + (k - Here(y))
        BY <1>13, <1>14
      <4> QED BY <4>1
    <3>2. i \in 1..IconLen /\ k \in 1..Here(z)
      BY <1>8, <1>13, <1>14, <3>1 DEF IconLen
    <3>3. z.out[k] = cs[i] /\ p.out[k] = z.out[k]
      BY <1>8, <1>9, <3>1, <3>2 DEF Kept, Grown
    <3> QED BY <1>6, <1>11, <3>2, <3>3
  <2> QED BY <2>1
<1>17. ASSUME NEW k \in (Here(v) + 1)..Here(w), k \notin (Here(y) + 1)..(Here(y) + r)
       PROVE  w.out[k] \in Layout
  <2>1. CASE k <= Here(y)
    <3>1. k \in (Here(v) + 1)..Here(y) /\ k \in 1..Here(y) /\ k \in 1..Here(z)
      BY <1>11, <1>13, <2>1
    <3>2. y.out[k] \in Layout /\ z.out[k] = y.out[k] /\ p.out[k] = z.out[k]
      BY <1>4, <1>8, <1>9, <3>1 DEF Kept, Grown
    <3> QED BY <1>11, <3>2
  <2>2. CASE ~(k <= Here(y))
    <3>1. k \in (Here(z) + 1)..Here(p)
      BY <1>8, <1>11, <1>13, <1>14, <1>17, <2>2
    <3>2. p.out[k] \in Layout
      BY <1>9, <3>1 DEF Kept, Grown
    <3> QED BY <1>11, <3>2
  <2> QED BY <2>1, <2>2
<1>18. Here(y) + r <= Here(w)
  BY <1>8, <1>11, <1>13
<1>19. Drew(v, w, n)
  BY <1>2, <1>10, <1>12, <1>13, <1>14, <1>15, <1>16, <1>17, <1>18 DEF Drew
<1>20. Icon(v, n) = w
  <2>1. is = IF Len(p.icons) < MaxIcons
             THEN Append(p.icons, [from |-> Here(y), to |-> Here(y) + IconLen, img |-> n])
             ELSE p.icons
    BY <1>2, <1>9
  <2> QED BY <1>1, <1>3, <2>1 DEF Icon
<1> QED BY <1>19, <1>20

\* What an image or any other tag puts on the page itself.
Shaped(v, w, e, n) ==
    \/ Kept(v, w, Layout)
    \/ e.tag = "img" /\ ~e.icon /\ Kept(v, w, Marker(n))
    \/ e.tag = "img" /\ e.icon /\ Drew(v, w, n)

LEMMA ShapeFacts ==
  ASSUME NEW v, Sound(v), NEW e, e.rows \in Nat, NEW n, NEW display
  PROVE  Shaped(v, Shape(v, e, n, display), e, n)
<1>1. CASE e.tag = "img" /\ Allowed(v)
  BY <1>1, IconFacts, PlaceholderKept DEF Shape, Shaped
<1>2. CASE ~(e.tag = "img" /\ Allowed(v))
  <2>1. PICK b, c : b = BreakAt(v, e.tag, display) /\ c = Bullet(b, e.tag, display)
    OBVIOUS
  <2>2. Laid(v, b)
    BY <2>1, BreakAtLaid DEF Sound
  <2>3. Laid(b, c)
    BY <2>1, <2>2, LaidProper, BulletLaid
  <2>4. Kept(v, c, Layout)
    BY <2>2, <2>3, LaidOn, KeptLaid DEF Sound
  <2>5. Shape(v, e, n, display) = c
    BY <1>2, <2>1 DEF Shape
  <2> QED BY <2>4, <2>5 DEF Shaped
<1> QED BY <1>1, <1>2

-----------------------------------------------------------------------------
(***************************************************************************)
(* Tags and text.                                                          *)
(***************************************************************************)

\* A start tag shapes the text there was, or the empty one main begins with.
Started(v, w, e, n) ==
    \/ Shaped(v, w, e, n)
    \/ /\ e.tag \in {"main", "article"}
       /\ \E d : Dropped(v, d) /\ Kept(d, w, Layout)

LEMMA KeptShaped ==
  ASSUME NEW v, Sound(v), NEW w, NEW u, NEW e, NEW n, Kept(v, w, Layout), Shaped(w, u, e, n)
  PROVE  Shaped(v, u, e, n)
<1>1. CASE Kept(w, u, Layout)
  BY <1>1, KeptOn DEF Shaped
<1>2. CASE e.tag = "img" /\ ~e.icon /\ Kept(w, u, Marker(n))
  <2>1. Kept(v, w, Marker(n))
    BY KeptMore DEF Marker
  <2> QED BY <1>2, <2>1, KeptOn DEF Shaped
<1>3. CASE e.tag = "img" /\ e.icon /\ Drew(w, u, n)
  <2>1. PICK f \in Nat, m \in 0..IconLen :
          /\ Here(w) <= f /\ f + m <= Here(u)
          /\ \A k \in 1..Here(w) : u.out[k] = w.out[k]
          /\ \A k \in (f + 1)..(f + m) : u.out[k] = <<"img", n>>
          /\ \A k \in (Here(w) + 1)..Here(u) : k \in (f + 1)..(f + m) \/ u.out[k] \in Layout
          /\ Here(u) + 1 < OutCap => m = IconLen
          /\ u.icons = IF Len(w.icons) < MaxIcons
                       THEN Append(w.icons, [from |-> f, to |-> f + IconLen, img |-> n])
                       ELSE w.icons
    BY <1>3 DEF Drew
  <2>2. /\ Here(v) \in Nat /\ Here(w) \in Nat /\ Here(u) \in Nat /\ Here(v) <= Here(w)
        /\ w.icons = v.icons
        /\ \A k \in 1..Here(v) : w.out[k] = v.out[k]
        /\ \A k \in (Here(v) + 1)..Here(w) : w.out[k] \in Layout
    BY <1>3, HereFacts DEF Kept, Grown, Drew, Sound
  <2>3. Here(v) <= f /\ Here(w) <= Here(u)
    BY <2>1, <2>2 DEF IconLen
  <2>4. \A k \in 1..Here(v) : u.out[k] = v.out[k]
    BY <2>1, <2>2
  <2>5. ASSUME NEW k \in (Here(v) + 1)..Here(u), k \notin (f + 1)..(f + m)
        PROVE  u.out[k] \in Layout
    <3>1. CASE k <= Here(w)
      <4>1. k \in (Here(v) + 1)..Here(w) /\ k \in 1..Here(w)
        BY <2>2, <3>1
      <4> QED BY <2>1, <2>2, <4>1
    <3>2. CASE ~(k <= Here(w))
      <4>1. k \in (Here(w) + 1)..Here(u)
        BY <2>2, <3>2
      <4> QED BY <2>1, <2>5, <4>1
    <3> QED BY <3>1, <3>2
  <2>6. Drew(v, u, n)
    BY <1>3, <2>1, <2>2, <2>3, <2>4, <2>5, ZenonT(60) DEF Drew
  <2> QED BY <1>3, <2>6 DEF Shaped
<1> QED BY <1>1, <1>2, <1>3 DEF Shaped

\* Tables, lists, cells, ancestors, links and styles come before the tag's own effect.
LEMMA VisibleStartFacts ==
  ASSUME NEW v, Sound(v), v.hid = <<>>, NEW e, e.rows \in Nat, NEW n
  PROVE  Started(v, VisibleStart(v, e, n), e, n)
<1>1. PICK c : c = Computed(v, NodeOf(e), e.style)
  OBVIOUS
<1>2. PICK t, y : t = TableStart(v, e) /\ y = ListStart(t, e)
  OBVIOUS
<1>3. PICK b, p, l, z : /\ b = Cell(y, e) /\ p = PushAncestor(b, e)
                        /\ l = LinkStart(p, e, c.style) /\ z = StyleStart(l, e, c.style)
  OBVIOUS
<1>4. PICK m, r : m = MainStart(z, e.tag) /\ r = RawStart(m, e.tag)
  OBVIOUS
<1>5. Kept(v, y, Layout) /\ Sound(y)
  <2>1. Kept(v, t, Layout) /\ Sound(t)
    BY <1>2, TableKept DEF Kept
  <2>2. Kept(t, y, Layout) /\ Sound(y)
    BY <1>2, <2>1, ListKept DEF Kept
  <2> QED BY <2>1, <2>2, KeptOn
<1>6. Kept(v, z, Layout) /\ Sound(z)
  <2>1. Kept(y, b, Layout) /\ Sound(b)
    BY <1>3, <1>5, CellLaid, KeptLaid DEF Sound, Kept
  <2>2. Kept(b, p, Layout) /\ Sound(p)
    BY <1>3, <2>1, AncestorKept DEF Kept
  <2>3. Kept(p, l, Layout) /\ Sound(l)
    BY <1>3, <2>2, LinkStartKept DEF Kept
  <2>4. Kept(l, z, Layout) /\ Sound(z)
    BY <1>3, <2>3, StyleStartKept DEF Kept
  <2>5. Kept(v, b, Layout)
    BY <1>5, <2>1, KeptOn
  <2>6. Kept(v, p, Layout)
    BY <2>2, <2>5, KeptOn
  <2>7. Kept(v, l, Layout)
    BY <2>3, <2>6, KeptOn
  <2> QED BY <2>4, <2>7, KeptOn
<1>7. VisibleStart(v, e, n) =
        CASE c.display = "none" -> [v EXCEPT !.hid = Append(v.hid, e.tag)]
          [] c.display # "none" /\ IsRow(y, e.tag) -> Row(y)
          [] OTHER -> Shape(r, e, n, c.display)
  BY <1>1, <1>2, <1>3, <1>4 DEF VisibleStart
<1>8. CASE c.display = "none"
  <2>1. PICK s : s = Append(v.hid, e.tag)
    OBVIOUS
  <2>2. Len(v.hid) < StackCap
    BY SequenceFacts, StackParts, CapFacts
  <2>3. Kept(v, [v EXCEPT !.hid = s], Layout)
    BY <2>1, <2>2, StackParts, PushFacts, StackFacts DEF Stacks
  <2>4. VisibleStart(v, e, n) = [v EXCEPT !.hid = s]
    BY <1>7, <1>8, <2>1
  <2>5. Kept(v, VisibleStart(v, e, n), Layout)
    BY <2>3, <2>4, Zenon
  <2> QED BY <2>5 DEF Started, Shaped
<1>9. CASE c.display # "none" /\ IsRow(y, e.tag)
  <2>1. Kept(y, Row(y), Layout)
    BY <1>5, RowLaid, KeptLaid DEF Sound
  <2>2. Kept(v, Row(y), Layout)
    BY <1>5, <2>1, KeptOn
  <2> QED BY <1>7, <1>9, <2>2 DEF Started, Shaped
<1>10. CASE c.display # "none" /\ ~IsRow(y, e.tag)
  <2>1. PICK u : u = Shape(r, e, n, c.display)
    OBVIOUS
  <2>2. VisibleStart(v, e, n) = u
    BY <1>7, <1>10, <2>1
  <2>3. CASE Kept(z, m, Layout)
    <3>1. Sound(m) /\ Kept(m, r, Layout) /\ Sound(r)
      BY <1>4, <2>3, RawStartKept DEF Kept
    <3>2. Kept(z, r, Layout)
      BY <1>6, <2>3, <3>1, KeptOn
    <3>3. Kept(v, r, Layout)
      BY <1>6, <3>2, KeptOn
    <3>4. Shaped(r, u, e, n)
      BY <2>1, <3>1, ShapeFacts
    <3>5. Shaped(v, u, e, n)
      BY <3>3, <3>4, KeptShaped
    <3> QED BY <2>2, <3>5 DEF Started
  <2>4. CASE e.tag \in {"main", "article"} /\ Dropped(z, m)
    <3>1. Sound(m) /\ Kept(m, r, Layout) /\ Sound(r)
      BY <1>4, <2>4, RawStartKept DEF Kept, Dropped
    <3>2. Shaped(r, u, e, n)
      BY <2>1, <3>1, ShapeFacts
    <3>3. e.tag # "img"
      BY <2>4
    <3>4. Kept(r, u, Layout)
      BY <3>2, <3>3 DEF Shaped
    <3>5. Kept(m, u, Layout)
      BY <3>1, <3>4, KeptOn
    <3>6. Dropped(v, m)
      BY <1>6, <2>4 DEF Dropped, Kept, Grown
    <3> QED BY <2>2, <2>4, <3>5, <3>6 DEF Started
  <2> QED BY <1>4, <1>6, <2>3, <2>4, MainStartFacts
<1> QED BY <1>8, <1>9, <1>10

LEMMA StartTagFacts ==
  ASSUME NEW v, Sound(v), NEW e, e.rows \in Nat, NEW n
  PROVE  Started(v, StartTag(v, e, n), e, n)
<1>1. CASE v.raw # ""
  <2>1. StartTag(v, e, n) = v
    BY <1>1 DEF StartTag
  <2> QED BY <2>1, KeptNothing DEF Started, Shaped
<1>2. CASE v.raw = "" /\ v.hid # <<>>
  <2>1. StartTag(v, e, n) = HiddenStart(v, e)
    BY <1>2 DEF StartTag
  <2> QED BY <2>1, HiddenKept DEF Started, Shaped
<1>3. CASE v.raw = "" /\ v.hid = <<>>
  <2>1. StartTag(v, e, n) = VisibleStart(v, e, n)
    BY <1>3 DEF StartTag
  <2> QED BY <1>3, <2>1, VisibleStartFacts
<1> QED BY <1>1, <1>2, <1>3

LEMMA VisibleEndKept ==
  ASSUME NEW v, Sound(v), NEW e
  PROVE  Kept(v, VisibleEnd(v, e), Layout)
<1>1. PICK y, c : y = PopAncestor(v, e.tag) /\ c = Computed(y, BareNode(e), <<>>)
  OBVIOUS
<1>2. PICK t, z : t = TableEnd(y, e.tag) /\ z = ListEnd(t, e.tag)
  OBVIOUS
<1>3. PICK l, s, m : l = LinkEnd(z, e.tag) /\ s = StyleEnd(l, e.tag) /\ m = MainEnd(s, e.tag)
  OBVIOUS
<1>4. Kept(v, z, Layout) /\ Sound(z)
  <2>1. Kept(v, y, Layout) /\ Sound(y)
    BY <1>1, AncestorKept DEF Kept
  <2>2. Kept(y, t, Layout) /\ Sound(t)
    BY <1>2, <2>1, TableKept DEF Kept
  <2>3. Kept(t, z, Layout) /\ Sound(z)
    BY <1>2, <2>2, ListKept DEF Kept
  <2>4. Kept(v, t, Layout)
    BY <2>1, <2>2, KeptOn
  <2> QED BY <2>3, <2>4, KeptOn
<1>5. Kept(z, Row(z), Layout)
  BY <1>4, RowLaid, KeptLaid DEF Sound
<1>6. Kept(z, BreakAt(m, e.tag, c.display), Layout)
  <2>1. Kept(z, l, Layout) /\ Sound(l)
    BY <1>3, <1>4, LinkEndKept DEF Kept
  <2>2. Kept(l, s, Layout) /\ Sound(s)
    BY <1>3, <2>1, StyleEndKept DEF Kept
  <2>3. Kept(s, m, Layout) /\ Sound(m)
    BY <1>3, <2>2, MainEndKept DEF Kept
  <2>4. Kept(m, BreakAt(m, e.tag, c.display), Layout)
    BY <2>3, BreakAtLaid, KeptLaid DEF Sound
  <2>5. Kept(z, s, Layout)
    BY <1>4, <2>1, <2>2, KeptOn
  <2>6. Kept(z, m, Layout)
    BY <1>4, <2>3, <2>5, KeptOn
  <2> QED BY <1>4, <2>4, <2>6, KeptOn
<1>7. VisibleEnd(v, e) = IF IsRow(z, e.tag) THEN Row(z) ELSE BreakAt(m, e.tag, c.display)
  BY <1>1, <1>2, <1>3 DEF VisibleEnd
<1>8. Kept(v, Row(z), Layout) /\ Kept(v, BreakAt(m, e.tag, c.display), Layout)
  BY <1>4, <1>5, <1>6, KeptOn
<1> QED BY <1>7, <1>8

LEMMA EndTagKept ==
  ASSUME NEW v, Sound(v), NEW e
  PROVE  Kept(v, EndTag(v, e), Layout)
<1>1. CASE v.raw # ""
  BY <1>1, EndRawKept, KeptNothing DEF EndTag
<1>2. CASE v.raw = "" /\ v.hid # <<>>
  <2>1. EndTag(v, e) = HiddenEnd(v, e.tag)
    BY <1>2 DEF EndTag
  <2> QED BY <1>2, <2>1, HiddenKept
<1>3. CASE v.raw = "" /\ v.hid = <<>>
  <2>1. EndTag(v, e) = VisibleEnd(v, e)
    BY <1>3 DEF EndTag
  <2> QED BY <2>1, VisibleEndKept
<1> QED BY <1>1, <1>2, <1>3

\* A character, an entity, a blank.
LEMMA CharKept ==
  ASSUME NEW v, Sound(v), NEW n
  PROVE  /\ Kept(v, Char(v, n), {<<"char", n>>}) /\ Kept(v, Entity(v, n), {<<"char", n>>})
         /\ Kept(v, White(v), Layout)
<1>1. Kept(v, Glyph(v, <<"char", n>>), {<<"char", n>>})
  BY GlyphFacts, KeptWrote DEF Sound
<1>2. Kept(v, Blank(v), Layout)
  BY BlankFacts, KeptLaid DEF Sound
<1>3. Kept(v, v, {<<"char", n>>}) /\ Kept(v, v, Layout)
  BY KeptNothing
<1> QED BY <1>1, <1>2, <1>3 DEF Char, Entity, White

-----------------------------------------------------------------------------
(***************************************************************************)
(* The end of the document.                                                *)
(***************************************************************************)
Keeping == INSTANCE Iteration WITH op <- KeepSpan

\* A set of natural numbers up to n has a greatest element.
LEMMA GreatestElement ==
  ASSUME NEW n \in Nat, NEW S, S \subseteq 1..n, S # {}
  PROVE  \E k \in S : \A m \in S : m <= k
<1> DEFINE T == {b \in Nat : \A m \in S : m <= b}
<1>1. n \in T /\ T \subseteq Nat
  OBVIOUS
<1>2. PICK b \in T : \A c \in T : b <= c
  BY <1>1, Putting!LeastElement
<1>3. CASE b \in S
  BY <1>3
<1>4. CASE b \notin S
  <2>1. PICK s : s \in S
    OBVIOUS
  <2>2. s \in 1..n /\ b \in Nat /\ s <= b /\ s # b
    BY <1>4, <2>1
  <2>3. \A m \in S : m \in Nat /\ m <= b /\ m # b
    BY <1>4
  <2>4. b - 1 \in T
    BY <2>2, <2>3
  <2>5. ~(b <= b - 1)
    BY <2>2
  <2> QED BY <1>2, <2>4, <2>5
<1> QED BY <1>3, <1>4

\* The trimmed text is the text up to the last character that shows.
LEMMA TrimmedFacts ==
  ASSUME NEW out, Sequence(out)
  PROVE  /\ Sequence(TrimmedText(out)) /\ Len(TrimmedText(out)) \in Nat
         /\ Len(TrimmedText(out)) <= Len(out)
         /\ \A k \in 1..Len(TrimmedText(out)) : TrimmedText(out)[k] = out[k]
         /\ \A k \in 1..Len(out) : out[k] \notin {Space, Newline} => k <= Len(TrimmedText(out))
<1>1. PICK n : n = Len(out)
  OBVIOUS
<1>2. n \in Nat /\ DOMAIN out = 1..n
  BY <1>1, SequenceFacts
<1>3. PICK keep : keep = {k \in DOMAIN out : out[k] \notin {Space, Newline}}
  OBVIOUS
<1>4. keep \subseteq 1..n /\ \A k \in 1..n : out[k] \notin {Space, Newline} => k \in keep
  BY <1>2, <1>3
<1>5. CASE keep = {}
  <2>1. TrimmedText(out) = <<>>
    BY <1>3, <1>5 DEF TrimmedText
  <2> QED BY <1>1, <1>2, <1>4, <1>5, <2>1, NothingFacts
<1>6. CASE keep # {}
  <2>1. PICK p : p = CHOOSE k \in keep : \A m \in keep : m <= k
    OBVIOUS
  <2>2. p \in keep /\ \A m \in keep : m <= p
    <3>1. \E k \in keep : \A m \in keep : m <= k
      BY <1>2, <1>4, <1>6, GreatestElement
    <3> QED BY <2>1, <3>1
  <2>3. TrimmedText(out) = SubSeq(out, 1, p)
    BY <1>3, <1>6, <2>1 DEF TrimmedText
  <2>4. PICK S : out \in Seq(S)
    BY DEF Sequence
  <2>5. p \in 1..n /\ \A i \in 1..p : out[i] \in S
    BY <1>1, <1>4, <2>2, <2>4
  <2>6. /\ SubSeq(out, 1, p) \in Seq(S) /\ Len(SubSeq(out, 1, p)) = IF 1 <= p THEN p - 1 + 1 ELSE 0
        /\ \A i \in 1..(p - 1 + 1) : SubSeq(out, 1, p)[i] = out[1 + i - 1]
    BY <2>5, SubSeqProperties
  <2>7. p - 1 + 1 = p /\ \A i \in 1..p : 1 + i - 1 = i
    BY <2>5
  <2>8. Len(SubSeq(out, 1, p)) = p /\ \A i \in 1..p : SubSeq(out, 1, p)[i] = out[i]
    BY <2>5, <2>6, <2>7
  <2>9. Sequence(SubSeq(out, 1, p))
    BY <2>6, SequenceOf
  <2> QED BY <1>1, <1>4, <2>2, <2>3, <2>5, <2>8, <2>9
<1> QED BY <1>5, <1>6

\* The page: its text, the links and images there are, and spans that end with the text.
LEMMA FinishedFacts ==
  ASSUME NEW v, Sound(v)
  PROVE  /\ Finished(v).text = TrimmedText(v.out)
         /\ Finished(v).links = v.links /\ Finished(v).icons = v.icons
         /\ Sequence(Finished(v).spans)
         /\ \A k \in 1..Len(Finished(v).spans) :
               /\ Finished(v).spans[k].from < Finished(v).spans[k].to
               /\ Finished(v).spans[k].to <= Len(TrimmedText(v.out))
<1>1. PICK text, n : text = TrimmedText(v.out) /\ n = Len(text)
  OBVIOUS
<1>2. PICK all : all = IF v.span.on THEN EmitSpan(v.spans, v.span, n) ELSE v.spans
  OBVIOUS
<1>3. n \in Nat
  BY <1>1, TrimmedFacts DEF Sound, Proper
<1>4. Sequence(all) /\ \A k \in 1..Len(all) : IsSpan(all[k])
  <2>1. CASE v.span.on
    <3>1. v.span.start \in Nat /\ Ordered(v.spans, v.span.start)
      BY <2>1, RangeParts DEF Since
    <3> QED BY <1>2, <1>3, <2>1, <3>1, RangeParts, EmitFacts
  <2>2. CASE ~v.span.on
    BY <1>2, <2>2, RangeParts
  <2> QED BY <2>1, <2>2
<1>5. PICK base : base = [text |-> text, links |-> v.links, icons |-> v.icons, spans |-> <<>>]
  OBVIOUS
<1> DEFINE R == {ClampSpan(all[k], n) : k \in {j \in 1..Len(all) : all[j].from < n}}
           U == {[base EXCEPT !.spans = s] : s \in Seq(R)}
           G == Nat \X U
<1>6. \A r \in R : r.from < r.to /\ r.to <= n
  <2>1. ASSUME NEW k \in 1..Len(all), all[k].from < n
        PROVE  ClampSpan(all[k], n).from < ClampSpan(all[k], n).to /\ ClampSpan(all[k], n).to <= n
    <3>1. PICK r : r = all[k]
      OBVIOUS
    <3>2. r = [from |-> r.from, to |-> r.to, style |-> r.style] /\ r.from < r.to /\ r.from < n
      BY <1>4, <2>1, <3>1 DEF IsSpan
    <3>3. /\ ClampSpan(r, n).from = r.from
          /\ ClampSpan(r, n).to = IF r.to > n THEN n ELSE r.to
      BY <3>2 DEF ClampSpan
    <3>4. r.from \in Nat /\ r.to \in Nat
      <4>1. \A j \in 1..Len(all) : all[j].from \in Nat /\ all[j].to \in Nat
        <5>1. CASE v.span.on
          <6>1. v.span.start \in Nat /\ Ordered(v.spans, v.span.start)
            BY <5>1, RangeParts DEF Since
          <6>2. CASE v.span.start <= n
            <7>1. Ordered(all, n)
              BY <1>2, <1>3, <5>1, <6>1, <6>2, RangeParts, EmitFacts
            <7> QED BY <7>1 DEF Ordered
          <6>3. CASE ~(v.span.start <= n)
            <7>1. all = v.spans
              BY <1>2, <1>3, <5>1, <6>1, <6>3 DEF EmitSpan
            <7> QED BY <6>1, <7>1 DEF Ordered
          <6> QED BY <6>2, <6>3
        <5>2. CASE ~v.span.on
          BY <1>2, <5>2, RangeParts DEF Ordered
        <5> QED BY <5>1, <5>2
      <4> QED BY <3>1, <4>1
    <3> QED BY <1>3, <3>1, <3>2, <3>3, <3>4
  <2> QED BY <2>1
<1>7. <<0, base>> \in G
  <2>1. base = [base EXCEPT !.spans = <<>>]
    BY <1>5
  <2>2. <<>> \in Seq(R)
    <3> HIDE DEF R
    <3> QED OBVIOUS
  <2>3. base \in U
    BY <2>1, <2>2
  <2> HIDE DEF U
  <2> QED BY <2>3
<1>8. ASSUME NEW k \in 1..Len(all), NEW w, <<k - 1, w>> \in G
      PROVE  <<k, KeepSpan(w, all[k])>> \in G
  <2>1. k \in Nat /\ w \in U
    <3>1. Len(all) \in Nat
      BY <1>4, SequenceFacts
    <3> HIDE DEF U
    <3> QED BY <1>8, <3>1
  <2>2. PICK s \in Seq(R) : w = [base EXCEPT !.spans = s]
    BY <2>1
  <2>3. w.spans = s /\ w.text = text
    BY <1>5, <2>2
  <2>4. CASE all[k].from < n
    <3>1. ClampSpan(all[k], n) \in R
      BY <2>4
    <3>2. PICK t : t = Append(s, ClampSpan(all[k], n))
      OBVIOUS
    <3>3. t \in Seq(R)
      <4> HIDE DEF R
      <4> QED BY <3>1, <3>2
    <3>4. KeepSpan(w, all[k]) = [w EXCEPT !.spans = t]
      BY <1>1, <2>3, <2>4, <3>2 DEF KeepSpan
    <3>5. KeepSpan(w, all[k]) = [base EXCEPT !.spans = t]
      BY <1>5, <2>2, <3>4
    <3> QED BY <2>1, <3>3, <3>5
  <2>5. CASE ~(all[k].from < n)
    <3>1. KeepSpan(w, all[k]) = w
      BY <1>1, <2>3, <2>5 DEF KeepSpan
    <3> QED BY <2>1, <3>1
  <2> QED BY <2>4, <2>5
<1>9. Finished(v) = Keeping!Fold(base, all)
  <2>1. Finished(v) = FoldLeft(KeepSpan, base, all)
    BY <1>1, <1>2, <1>5 DEF Finished
  <2> QED BY <2>1 DEF Keeping!Fold, FoldLeft, MapThenFoldSet, Max, Keeping!Largest
<1>10. <<Len(all), Finished(v)>> \in G
  <2> HIDE DEF G
  <2> QED BY <1>4, <1>7, <1>8, <1>9, Keeping!FoldKeepsAlong DEF Sequence
<1>11. PICK s \in Seq(R) : Finished(v) = [base EXCEPT !.spans = s]
  BY <1>10
<1>12. PICK page : page = Finished(v)
  OBVIOUS
<1>13. page.text = text /\ page.links = v.links /\ page.icons = v.icons /\ page.spans = s
  BY <1>5, <1>11, <1>12
<1>14. Sequence(s) /\ \A k \in 1..Len(s) : s[k] \in R
  <2>1. Sequence(s)
    <3> HIDE DEF R
    <3> QED BY SequenceOf
  <2> QED BY <2>1
<1> QED BY <1>1, <1>6, <1>12, <1>13, <1>14

-----------------------------------------------------------------------------
(***************************************************************************)
(* Characters on the page are characters of the document.                  *)
(***************************************************************************)
Tokens(n) == Layout \cup ({"char", "marker", "img"} \X (1..n))

FromDocument(v, n) == \A k \in 1..Here(v) : v.out[k] \in Tokens(n)

LEMMA LayoutTokens ==
  ASSUME NEW n \in Nat, NEW m \in Nat, m <= n
  PROVE  Layout \subseteq Tokens(m) /\ Tokens(m) \subseteq Tokens(n)
BY DEF Tokens

LEMMA LastToken ==
  ASSUME NEW n \in Nat \ {0}, NEW kind \in {"char", "marker", "img"}
  PROVE  <<kind, n>> \in Tokens(n)
BY DEF Tokens

LEMMA KeptFromDocument ==
  ASSUME NEW v, Sound(v), NEW m \in Nat, NEW n \in Nat, m <= n, FromDocument(v, m),
         NEW w, NEW cs, Kept(v, w, cs), cs \subseteq Tokens(n)
  PROVE  Sound(w) /\ FromDocument(w, n)
<1>1. Here(v) \in Nat /\ Here(w) \in Nat /\ Here(v) <= Here(w)
  BY HereFacts DEF Kept, Sound, Grown
<1>2. ASSUME NEW k \in 1..Here(w) PROVE w.out[k] \in Tokens(n)
  <2>1. CASE k <= Here(v)
    <3>1. k \in 1..Here(v) /\ w.out[k] = v.out[k]
      BY <1>1, <2>1 DEF Kept, Grown
    <3> QED BY <3>1, LayoutTokens DEF FromDocument
  <2>2. CASE ~(k <= Here(v))
    <3>1. k \in (Here(v) + 1)..Here(w)
      BY <1>1, <2>2
    <3> QED BY <3>1 DEF Kept, Grown
  <2> QED BY <2>1, <2>2
<1> QED BY <1>2 DEF Kept, FromDocument

LEMMA DrewFromDocument ==
  ASSUME NEW v, Sound(v), NEW n \in Nat \ {0}, FromDocument(v, n - 1), NEW w, Drew(v, w, n)
  PROVE  Sound(w) /\ FromDocument(w, n)
<1>1. PICK f \in Nat, m \in 0..IconLen :
          /\ Here(v) <= f /\ f + m <= Here(w)
          /\ \A k \in 1..Here(v) : w.out[k] = v.out[k]
          /\ \A k \in (f + 1)..(f + m) : w.out[k] = <<"img", n>>
          /\ \A k \in (Here(v) + 1)..Here(w) : k \in (f + 1)..(f + m) \/ w.out[k] \in Layout
  BY DEF Drew
<1>2. Sound(w) /\ Here(v) \in Nat /\ Here(w) \in Nat
  BY HereFacts DEF Drew, Sound
<1>3. <<"img", n>> \in Tokens(n) /\ Layout \subseteq Tokens(n) /\ Tokens(n - 1) \subseteq Tokens(n)
  <2>1. n - 1 \in Nat /\ n - 1 <= n /\ n \in Nat /\ n <= n
    OBVIOUS
  <2> QED BY <2>1, LastToken, LayoutTokens
<1>4. ASSUME NEW k \in 1..Here(w) PROVE w.out[k] \in Tokens(n)
  <2>1. CASE k <= Here(v)
    <3>1. k \in 1..Here(v)
      BY <1>2, <2>1
    <3> QED BY <1>1, <1>3, <3>1 DEF FromDocument
  <2>2. CASE ~(k <= Here(v))
    <3>1. k \in (Here(v) + 1)..Here(w)
      BY <1>2, <2>2
    <3> QED BY <1>1, <1>3, <3>1
  <2> QED BY <2>1, <2>2
<1> QED BY <1>2, <1>4 DEF FromDocument

-----------------------------------------------------------------------------
(***************************************************************************)
(* The inductive invariant of TypeOK.                                      *)
(***************************************************************************)
Extracted == Sound(x) /\ Sequence(written) /\ FromDocument(x, Len(written))

LEMMA ExtractedInit ==
  ASSUME Init
  PROVE  Extracted
<1>1. Sequence(<<>>) /\ Len(<<>>) = 0 /\ OutCap \in Nat \ {0} /\ StackCap \in Nat \ {0}
  BY NothingFacts, CapFacts
<1>2. PICK v : v = Fresh
  OBVIOUS
<1>3. /\ v = [f \in Fields |-> v[f]]
      /\ v.out = <<>> /\ v.hid = <<>> /\ v.anc = <<>> /\ v.styles = <<>>
      /\ v.tables = <<>> /\ v.navs = <<>> /\ v.links = <<>> /\ v.spans = <<>>
      /\ v.icons = <<>> /\ v.space = TRUE /\ v.cell = 0 /\ v.raw = ""
      /\ v.a = NoAnchor /\ v.span = NoSpan
  BY <1>2 DEF Fresh, Fields
<1>4. /\ Len(v.out) = 0 /\ Len(v.hid) = 0 /\ Len(v.anc) = 0 /\ Len(v.styles) = 0
      /\ Len(v.tables) = 0 /\ Len(v.navs) = 0 /\ Len(v.spans) = 0
  BY <1>1, <1>3
<1>5. Proper(v) /\ Bounded(v) /\ Here(v) = 0
  <2>1. Len(v.out) < OutCap /\ 0 <= StackCap
    BY <1>1, <1>4
  <2>2. Proper(v)
    <3>1. /\ Sequence(v.out) /\ Sequence(v.hid) /\ Sequence(v.anc) /\ Sequence(v.styles)
          /\ Sequence(v.tables) /\ Sequence(v.navs)
          /\ Sequence(v.links) /\ Sequence(v.spans) /\ Sequence(v.icons)
      BY <1>1, <1>3
    <3>2. v.space \in BOOLEAN /\ v.cell \in Nat
      <4>1. v.space \in BOOLEAN
        BY <1>3, Zenon
      <4>2. v.cell = 0
        BY <1>3, Zenon
      <4> QED BY <4>1, <4>2
    <3> QED BY <1>3, <2>1, <3>1, <3>2 DEF Proper
  <2>3. Bounded(v)
    BY <1>3, <1>4, <2>1 DEF Bounded
  <2> QED BY <1>4, <2>2, <2>3 DEF Here
<1>6. Ranged(v)
  <2>1. NoAnchor.on = FALSE /\ NoAnchor.start = 0 /\ NoSpan.on = FALSE /\ NoSpan.start = 0
    BY DEF NoAnchor, NoSpan
  <2>2. 0 \in 0..Here(v)
    BY <1>5
  <2>3. v.a.on \in BOOLEAN /\ v.span.on \in BOOLEAN /\ v.a.start = 0 /\ v.span.start = 0
    BY <1>3, <2>1
  <2>4. \A q : Ordered(v.links, q) /\ Ordered(v.spans, q)
    BY <1>3, OrderedNothing
  <2>5. \A k \in 1..Len(v.spans) : IsSpan(v.spans[k])
    BY <1>4
  <2> QED BY <2>2, <2>3, <2>4, <2>5 DEF Ranged
<1>7. x = v /\ written = <<>>
  BY <1>2 DEF Init
<1> QED BY <1>1, <1>5, <1>6, <1>7 DEF Extracted, Sound, FromDocument

ImagesFollowMain == "icon before main" \notin Awkward

\* What a start tag writes.
LEMMA WriteTagFacts ==
  ASSUME NEW e \in Elements, WriteTag(e), Sequence(written)
  PROVE  /\ x' = StartTag(x, e, This)
         /\ \/ e.tag # "img" /\ written' = written
            \/ /\ e.tag = "img" /\ Sequence(written') /\ Len(written') = This
               /\ \A k \in 1..Len(written) : written'[k] = written[k]
               /\ written'[This].kind = IF e.icon THEN "img" ELSE "marker"
         /\ \/ e.tag \notin {"main", "article"} \/ ~ImagesFollowMain
            \/ \A n \in DOMAIN written : written[n].kind # "img"
<1>1. PICK in : /\ MayStart(e, in)
                /\ IF e.tag = "img" THEN Write(IF e.icon THEN "img" ELSE "marker", in)
                                    ELSE UNCHANGED written
  BY DEF WriteTag
<1>2. x' = StartTag(x, e, This)
  BY DEF WriteTag
<1>3. CASE e.tag = "img"
  <2>1. PICK r : /\ r.kind = IF e.icon THEN "img" ELSE "marker"
                 /\ written' = Append(written, r)
    BY <1>1, <1>3 DEF Write
  <2> QED BY <1>2, <1>3, <2>1, AppendFacts DEF This
<1>4. CASE e.tag # "img"
  BY <1>1, <1>2, <1>4, Zenon DEF MayStart, Unless, ImagesFollowMain
<1> QED BY <1>3, <1>4

LEMMA WriteFacts ==
  ASSUME NEW kind, NEW place, Write(kind, place), Sequence(written)
  PROVE  /\ Sequence(written') /\ Len(written') = This /\ This = Len(written) + 1
         /\ Len(written) \in Nat
         /\ \A k \in 1..Len(written) : written'[k] = written[k]
         /\ written'[This].kind = kind
<1>1. PICK r : r.kind = kind /\ written' = Append(written, r)
  BY DEF Write
<1> QED BY <1>1, AppendFacts, SequenceFacts DEF This

LEMMA ExtractedStep ==
  ASSUME Extracted, [Next]_vars
  PROVE  Extracted'
<1>1. PICK n : n = Len(written)
  OBVIOUS
<1>2. /\ n \in Nat /\ Sound(x) /\ Sequence(written) /\ FromDocument(x, n) /\ This = n + 1
      /\ n + 1 - 1 = n /\ n <= n + 1 /\ n + 1 \in Nat \ {0}
  BY <1>1, SequenceFacts DEF Extracted, This
<1>3. /\ Layout \subseteq Tokens(n) /\ Layout \subseteq Tokens(n + 1)
      /\ <<"char", n + 1>> \in Tokens(n + 1) /\ <<"marker", n + 1>> \in Tokens(n + 1)
  BY <1>2, LayoutTokens, LastToken
\* A step that writes only layout.
<1>4. ASSUME written' = written, Kept(x, x', Layout) PROVE Extracted'
  <2>1. Sound(x') /\ FromDocument(x', n)
    BY <1>2, <1>3, <1>4, KeptFromDocument
  <2> QED BY <1>1, <1>2, <1>4, <2>1 DEF Extracted
\* A step that writes a character.
<1>5. ASSUME NEW place, Write("char", place), Kept(x, x', {<<"char", This>>}) PROVE Extracted'
  <2>1. {<<"char", This>>} \subseteq Tokens(n + 1)
    BY <1>2, <1>3
  <2>2. Sound(x') /\ FromDocument(x', n + 1)
    BY <1>2, <1>5, <2>1, KeptFromDocument
  <2> QED BY <1>2, <1>5, <2>2, WriteFacts DEF Extracted
<1>6. CASE WriteChar
  <2>1. Kept(x, x', {<<"char", This>>})
    BY <1>2, <1>6, CharKept DEF WriteChar
  <2> QED BY <1>5, <1>6, <2>1 DEF WriteChar
<1>7. CASE WriteEntity
  <2>1. Kept(x, x', {<<"char", This>>})
    BY <1>2, <1>7, CharKept DEF WriteEntity
  <2> QED BY <1>5, <1>7, <2>1 DEF WriteEntity
<1>8. CASE WriteBlank
  <2>1. Kept(x, x', Layout)
    BY <1>2, <1>8, CharKept DEF WriteBlank
  <2> QED BY <1>4, <1>8, <2>1 DEF WriteBlank
<1>9. CASE WriteComment
  <2>1. Kept(x, x', Layout)
    BY <1>2, <1>9, CommentKept DEF WriteComment
  <2> QED BY <1>4, <1>9, <2>1 DEF WriteComment
<1>10. ASSUME NEW e \in Elements, WriteTag(e) PROVE Extracted'
  <2>1. Started(x, x', e, This)
    BY <1>2, <1>10, WriteTagFacts, StartTagFacts, ElementAssumption
  <2>2. CASE e.tag # "img"
    <3>1. written' = written
      BY <1>2, <1>10, <2>2, WriteTagFacts
    <3>2. CASE Kept(x, x', Layout)
      BY <1>4, <3>1, <3>2
    <3>3. CASE \E d : Dropped(x, d) /\ Kept(d, x', Layout)
      <4>1. PICK d : Dropped(x, d) /\ Kept(d, x', Layout)
        BY <3>3
      <4>2. Sound(d) /\ FromDocument(d, n)
        BY <4>1 DEF Dropped, FromDocument
      <4>3. Sound(x') /\ FromDocument(x', n)
        BY <1>2, <1>3, <4>1, <4>2, KeptFromDocument
      <4> QED BY <1>1, <1>2, <3>1, <4>3 DEF Extracted
    <3> QED BY <2>1, <2>2, <3>2, <3>3 DEF Started, Shaped
  <2>3. CASE e.tag = "img"
    <3>1. Sequence(written') /\ Len(written') = n + 1
      BY <1>2, <1>10, <2>3, WriteTagFacts
    <3>2. Layout \subseteq Tokens(n + 1) /\ Marker(n + 1) \subseteq Tokens(n + 1)
      BY <1>3 DEF Marker
    <3>3. Kept(x, x', Layout) \/ Kept(x, x', Marker(n + 1)) \/ Drew(x, x', n + 1)
      BY <1>2, <2>1, <2>3 DEF Started, Shaped
    <3>4. Sound(x') /\ FromDocument(x', n + 1)
      BY <1>2, <3>2, <3>3, KeptFromDocument, DrewFromDocument
    <3> QED BY <3>1, <3>4 DEF Extracted
  <2> QED BY <2>2, <2>3
<1>11. CASE CloseTag
  <2>1. Kept(x, x', Layout)
    BY <1>2, <1>11, EndTagKept DEF CloseTag
  <2> QED BY <1>4, <1>11, <2>1 DEF CloseTag
<1>12. ASSUME NEW b \in Blocks, WriteBlock(b) PROVE Extracted'
  <2>1. Kept(x, x', Layout)
    BY <1>2, <1>12, RawTextKept DEF WriteBlock
  <2> QED BY <1>4, <1>12, <2>1 DEF WriteBlock
<1>13. CASE UNCHANGED vars
  <2>1. x' = x /\ written' = written
    BY <1>13 DEF vars
  <2> QED BY <1>2, <1>4, <2>1, KeptNothing
<1> QED BY <1>6, <1>7, <1>8, <1>9, <1>10, <1>11, <1>12, <1>13 DEF Next

LEMMA ExtractedTypeOK ==
  ASSUME Extracted
  PROVE  TypeOK
<1>1. /\ Sound(x) /\ Proper(x) /\ Sequence(x.out) /\ Here(x) \in Nat /\ Here(x) = Len(x.out)
      /\ Sequence(written) /\ FromDocument(x, Len(written))
      /\ DOMAIN x.out = 1..Here(x) /\ DOMAIN written = 1..Len(written) /\ Len(written) \in Nat
  BY SequenceFacts, HereFacts DEF Extracted, Sound, Proper, Here
<1>2. Here(x) < OutCap /\ x.space \in BOOLEAN /\ x.raw \in {""} \cup RawTags
  BY <1>1, BesideParts DEF Proper, Here
<1>3. \A n \in {Len(x.hid), Len(x.anc), Len(x.styles), Len(x.tables), Len(x.navs)} : n <= StackCap
  BY <1>1, StackParts
<1>4. x.a.start <= Here(x) /\ x.span.start <= Here(x)
  BY <1>1, RangeParts
<1>5. Ids(x.out) \subseteq DOMAIN written
  <2>1. ASSUME NEW k \in 1..Here(x), x.out[k][2] # 0 PROVE x.out[k][2] \in 1..Len(written)
    <3>1. PICK c : c = x.out[k]
      OBVIOUS
    <3>2. c \in Tokens(Len(written)) /\ c[2] # 0
      BY <1>1, <2>1, <3>1 DEF FromDocument
    <3>3. \A d \in Layout : d[2] = 0
      <4>1. \A d \in Layout : \E s : d = <<s, 0>>
        BY Zenon DEF Layout, Space, Newline, Nbsp
      <4> QED BY <4>1
    <3> QED BY <3>1, <3>2, <3>3 DEF Tokens
  <2> QED BY <1>1, <2>1 DEF Ids
<1>6. PICK page : page = Finished(x)
  OBVIOUS
<1>7. \A k \in DOMAIN page.spans : /\ page.spans[k].from < page.spans[k].to
                                    /\ page.spans[k].to <= Len(page.text)
  BY <1>1, <1>6, FinishedFacts, SequenceFacts
<1> QED BY <1>2, <1>3, <1>4, <1>5, <1>6, <1>7 DEF TypeOK, Page

\* Whatever a document consists of, however deep its elements are nested and wherever
\* it ends, the extractor keeps its stacks within their bounds, the text within its
\* buffer, the ranges of the page within the text, and shows no character that the
\* document does not have.
THEOREM DocTypeOK == Spec => []TypeOK
<1>1. Init => Extracted
  BY ExtractedInit
<1>2. Extracted /\ [Next]_vars => Extracted'
  BY ExtractedStep
<1>3. Extracted => TypeOK
  BY ExtractedTypeOK
<1> QED BY <1>1, <1>2, <1>3, PTL DEF Spec

-----------------------------------------------------------------------------
(***************************************************************************)
(* Inline images: their ranges and their markers.                          *)
(***************************************************************************)
Roomy(v) == Here(v) + 1 < OutCap

\* The range r is that of an inline image of the document ws.
IsIcon(r, ws) ==
    r.img \in DOMAIN ws /\ ws[r.img].kind = "img" /\ r.from \in Nat /\ r.to = r.from + IconLen

Marked(v, r) ==
    r.from + IconLen <= Here(v) /\ \A k \in 1..IconLen : v.out[r.from + k] = <<"img", r.img>>

Listed(v, k, n) == \E i \in 1..Len(v.icons) :
    v.icons[i].img = n /\ v.icons[i].from < k /\ k <= v.icons[i].from + IconLen

\* No image twice; while there is room in the text all ranges are at their markers;
\* while there is room in the list, too, all markers are within their ranges.
InPlace(v, ws) ==
    /\ \A i \in 1..Len(v.icons) : IsIcon(v.icons[i], ws)
    /\ \A i, j \in 1..Len(v.icons) : v.icons[i].img = v.icons[j].img => i = j
    /\ Roomy(v) =>
          /\ \A i \in 1..Len(v.icons) : Marked(v, v.icons[i])
          /\ Len(v.icons) < MaxIcons =>
                \A k \in 1..Here(v) : \A n : v.out[k] = <<"img", n>> => Listed(v, k, n)

Imageless(cs) == \A c \in cs : \A n : c # <<"img", n>>

LEMMA LayoutImageless ==
  /\ Imageless(Layout) /\ \A n : Imageless(Marker(n)) /\ Imageless({<<"char", n>>})
<1>1. \A d \in Layout : \E s : d = <<s, 0>> /\ s # "img"
  <2>1. /\ " " # "img" /\ "\n" # "img" /\ "nbsp" # "img" /\ ":" # "img" /\ "|" # "img"
        /\ "-" # "img"
    BY Zenon
  <2> QED BY <2>1, Zenon DEF Layout, Space, Newline, Nbsp
<1> QED BY <1>1 DEF Imageless, Marker

\* ws is the document ds, or goes on from there.
GoesOn(ds, ws) ==
    /\ Sequence(ds) /\ Sequence(ws) /\ Len(ds) <= Len(ws)
    /\ \A k \in 1..Len(ds) : ws[k] = ds[k]

LEMMA IconsLater ==
  ASSUME NEW ds, NEW ws, GoesOn(ds, ws), NEW r, IsIcon(r, ds)
  PROVE  IsIcon(r, ws) /\ r.img \in 1..Len(ds)
<1>1. DOMAIN ds = 1..Len(ds) /\ DOMAIN ws = 1..Len(ws) /\ Len(ds) \in Nat /\ Len(ws) \in Nat
  BY SequenceFacts DEF GoesOn
<1> QED BY <1>1 DEF GoesOn, IsIcon

\* A marker stays where it is.
LEMMA MarkedOn ==
  ASSUME NEW v, NEW w, Here(v) \in Nat, Here(w) \in Nat, Here(v) <= Here(w),
         \A k \in 1..Here(v) : w.out[k] = v.out[k], NEW r, r.from \in Nat, Marked(v, r)
  PROVE  Marked(w, r)
<1>1. PICK p, q, f : p = Here(v) /\ q = Here(w) /\ f = r.from
  OBVIOUS
<1>2. f + IconLen <= p /\ \A k \in 1..IconLen : v.out[f + k] = <<"img", r.img>>
  BY <1>1 DEF Marked
<1>3. \A k \in 1..IconLen : f + k \in 1..p
  BY <1>1, <1>2 DEF IconLen
<1>4. \A k \in 1..IconLen : w.out[f + k] = <<"img", r.img>>
  BY <1>1, <1>2, <1>3
<1>5. f + IconLen <= q
  BY <1>1, <1>2 DEF IconLen
<1> QED BY <1>1, <1>4, <1>5 DEF Marked

LEMMA KeptInPlace ==
  ASSUME NEW v, Sound(v), NEW ds, NEW ws, GoesOn(ds, ws), InPlace(v, ds),
         NEW w, NEW cs, Kept(v, w, cs), Imageless(cs)
  PROVE  InPlace(w, ws)
<1>1. /\ Here(v) \in Nat /\ Here(w) \in Nat /\ Here(v) <= Here(w) /\ w.icons = v.icons
      /\ OutCap \in Nat
      /\ \A k \in 1..Here(v) : w.out[k] = v.out[k]
      /\ \A k \in (Here(v) + 1)..Here(w) : w.out[k] \in cs
  BY HereFacts, CapFacts DEF Kept, Sound, Grown
<1>2. \A i \in 1..Len(w.icons) : IsIcon(w.icons[i], ws) /\ w.icons[i].from \in Nat
  BY <1>1, IconsLater DEF InPlace, IsIcon
<1>3. ASSUME Roomy(w) PROVE Roomy(v)
  BY <1>1, <1>3 DEF Roomy
<1>4. ASSUME Roomy(w), NEW i \in 1..Len(w.icons) PROVE Marked(w, w.icons[i])
  <2>1. PICK r : r = w.icons[i]
    OBVIOUS
  <2>2. Marked(v, r) /\ r.from \in Nat
    BY <1>1, <1>2, <1>3, <1>4, <2>1 DEF InPlace
  <2>3. Marked(w, r)
    BY <1>1, <2>2, MarkedOn
  <2> QED BY <2>1, <2>3
<1>5. ASSUME Roomy(w), Len(w.icons) < MaxIcons, NEW k \in 1..Here(w), NEW n,
             w.out[k] = <<"img", n>>
      PROVE  Listed(w, k, n)
  <2>1. k \in 1..Here(v)
    <3>1. ~(k \in (Here(v) + 1)..Here(w))
      BY <1>1, <1>5 DEF Imageless
    <3> QED BY <1>1, <3>1
  <2>2. Listed(v, k, n)
    BY <1>1, <1>3, <1>5, <2>1 DEF InPlace
  <2> QED BY <1>1, <2>2 DEF Listed
<1>6. \A i, j \in 1..Len(w.icons) : w.icons[i].img = w.icons[j].img => i = j
  BY <1>1 DEF InPlace
<1> QED BY <1>2, <1>4, <1>5, <1>6 DEF InPlace

LEMMA DrewInPlace ==
  ASSUME NEW v, Sound(v), NEW ds, NEW ws, GoesOn(ds, ws), InPlace(v, ds),
         NEW n, n = Len(ds) + 1, n <= Len(ws), ws[n].kind = "img",
         NEW w, Drew(v, w, n)
  PROVE  InPlace(w, ws)
<1>1. PICK f \in Nat, m \in 0..IconLen :
          /\ Here(v) <= f /\ f + m <= Here(w)
          /\ \A k \in 1..Here(v) : w.out[k] = v.out[k]
          /\ \A k \in (f + 1)..(f + m) : w.out[k] = <<"img", n>>
          /\ \A k \in (Here(v) + 1)..Here(w) : k \in (f + 1)..(f + m) \/ w.out[k] \in Layout
          /\ Here(w) + 1 < OutCap => m = IconLen
          /\ w.icons = IF Len(v.icons) < MaxIcons
                       THEN Append(v.icons, [from |-> f, to |-> f + IconLen, img |-> n])
                       ELSE v.icons
  BY DEF Drew
<1>2. PICK r : r = [from |-> f, to |-> f + IconLen, img |-> n]
  OBVIOUS
<1>3. PICK c : c = Len(v.icons)
  OBVIOUS
<1>4. r.from = f /\ r.to = f + IconLen /\ r.img = n
  BY <1>2
<1>5. /\ Here(v) \in Nat /\ Here(w) \in Nat /\ Here(v) <= Here(w) /\ OutCap \in Nat
      /\ Sequence(v.icons) /\ c \in Nat /\ MaxIcons \in Nat
      /\ Len(ds) \in Nat /\ Len(ws) \in Nat /\ DOMAIN ws = 1..Len(ws)
  <2>1. Proper(v) /\ Proper(w) /\ Sequence(v.icons)
    BY DEF Drew, Sound, Proper
  <2>2. Here(v) \in Nat /\ Here(w) \in Nat /\ OutCap \in Nat /\ MaxIcons \in Nat
    BY <2>1, HereFacts, CapFacts, HtmlAssumption
  <2>3. m \in Nat
    BY DEF IconLen
  <2> QED BY <1>1, <1>3, <2>1, <2>2, <2>3, SequenceFacts, SMTT(30) DEF GoesOn
<1>6. IsIcon(r, ws)
  BY <1>1, <1>4, <1>5 DEF IsIcon
<1>7. \A i \in 1..c : IsIcon(v.icons[i], ws) /\ v.icons[i].img \in 1..Len(ds)
  BY <1>3, IconsLater DEF InPlace
<1>8. \/ c < MaxIcons /\ Len(w.icons) = c + 1 /\ w.icons[c + 1] = r
      \/ ~(c < MaxIcons) /\ Len(w.icons) = c
  BY <1>1, <1>2, <1>3, <1>5, AppendFacts
<1>9. \A i \in 1..c : w.icons[i] = v.icons[i]
  BY <1>1, <1>2, <1>3, <1>5, AppendFacts
<1>10. \A i \in 1..Len(w.icons) : i \in 1..c \/ (i = c + 1 /\ w.icons[i] = r)
  BY <1>5, <1>8
<1>11. \A i \in 1..Len(w.icons) : IsIcon(w.icons[i], ws)
  BY <1>6, <1>7, <1>9, <1>10
<1>12. ASSUME NEW i \in 1..Len(w.icons), NEW j \in 1..Len(w.icons),
              w.icons[i].img = w.icons[j].img
       PROVE  i = j
  <2>1. CASE i \in 1..c /\ j \in 1..c
    BY <1>3, <1>9, <1>12, <2>1 DEF InPlace
  <2>2. CASE ~(i \in 1..c /\ j \in 1..c)
    <3>1. \A l \in 1..c : w.icons[l].img # n
      <4>1. n \notin 1..Len(ds)
        BY <1>5
      <4> QED BY <1>7, <1>9, <4>1
    <3> QED BY <1>4, <1>10, <1>12, <2>2, <3>1
  <2> QED BY <2>1, <2>2
<1>13. ASSUME Roomy(w) PROVE Roomy(v) /\ m = IconLen
  BY <1>1, <1>5, <1>13 DEF Roomy
<1>14. ASSUME Roomy(w), NEW i \in 1..Len(w.icons) PROVE Marked(w, w.icons[i])
  <2>1. CASE i \in 1..c
    <3>1. PICK q : q = v.icons[i]
      OBVIOUS
    <3>2. Marked(v, q) /\ q.from \in Nat
      BY <1>3, <1>7, <1>13, <1>14, <2>1, <3>1 DEF InPlace, IsIcon
    <3>3. Marked(w, q)
      BY <1>1, <1>5, <3>2, MarkedOn
    <3> QED BY <1>9, <2>1, <3>1, <3>3
  <2>2. CASE w.icons[i] = r
    <3>1. f + IconLen <= Here(w) /\ \A k \in 1..IconLen : f + k \in (f + 1)..(f + m)
      BY <1>1, <1>13, <1>14 DEF IconLen
    <3>2. Marked(w, r)
      BY <1>1, <1>4, <3>1 DEF Marked
    <3> QED BY <2>2, <3>2
  <2> QED BY <1>10, <2>1, <2>2
<1>15. ASSUME Roomy(w), Len(w.icons) < MaxIcons, NEW k \in 1..Here(w), NEW l,
              w.out[k] = <<"img", l>>
       PROVE  Listed(w, k, l)
  <2>1. c < MaxIcons /\ Len(w.icons) = c + 1 /\ w.icons[c + 1] = r
    BY <1>8, <1>15
  <2>2. CASE k <= Here(v)
    <3>1. k \in 1..Here(v)
      BY <1>5, <2>2
    <3>2. Listed(v, k, l)
      BY <1>1, <1>3, <1>13, <1>15, <2>1, <3>1 DEF InPlace
    <3>3. PICK i \in 1..c : /\ v.icons[i].img = l /\ v.icons[i].from < k
                            /\ k <= v.icons[i].from + IconLen
      BY <1>3, <3>2 DEF Listed
    <3>4. i \in 1..Len(w.icons) /\ w.icons[i] = v.icons[i]
      BY <1>5, <1>9, <2>1, <3>3
    <3> QED BY <3>3, <3>4 DEF Listed
  <2>3. CASE ~(k <= Here(v))
    <3>1. k \in (Here(v) + 1)..Here(w)
      BY <1>5, <2>3
    <3>2. k \in (f + 1)..(f + m)
      BY <1>1, <1>15, <3>1, LayoutImageless DEF Imageless
    <3>3. w.out[k] = <<"img", n>>
      BY <1>1, <3>2
    <3>4. l = n
      <4>1. <<"img", l>> = <<"img", n>>
        BY <1>15, <3>3
      <4> QED BY <4>1
    <3>5. c + 1 \in 1..Len(w.icons) /\ f < k /\ k <= f + IconLen
      BY <1>1, <1>5, <1>13, <1>15, <2>1, <3>2 DEF IconLen
    <3> QED BY <1>4, <2>1, <3>4, <3>5 DEF Listed
  <2> QED BY <2>2, <2>3
<1> QED BY <1>11, <1>12, <1>14, <1>15 DEF InPlace

\* main drops the text, but there is no image yet.
LEMMA DroppedInPlace ==
  ASSUME NEW v, Sound(v), NEW ds, InPlace(v, ds), \A n \in DOMAIN ds : ds[n].kind # "img",
         NEW d, Dropped(v, d)
  PROVE  InPlace(d, ds)
<1>1. d.icons = v.icons /\ Here(d) = 0 /\ Len(v.icons) \in Nat
  BY SequenceFacts DEF Dropped, Sound, Proper
<1>2. Len(v.icons) = 0
  <2>1. ~(1 \in 1..Len(v.icons))
    BY DEF InPlace, IsIcon
  <2> QED BY <1>1, <2>1
<1> QED BY <1>1, <1>2 DEF InPlace

-----------------------------------------------------------------------------
(***************************************************************************)
(* The inductive invariant of IconsInPlace.                                *)

(***************************************************************************)
IconsListed == Extracted /\ InPlace(x, written)

LEMMA MoreGoesOn ==
  ASSUME NEW ds, NEW ws, Sequence(ds), Sequence(ws), Len(ws) = Len(ds) + 1,
         \A k \in 1..Len(ds) : ws[k] = ds[k]
  PROVE  GoesOn(ds, ws)
<1>1. PICK n : n = Len(ds)
  OBVIOUS
<1>2. n \in Nat /\ n <= n + 1
  BY <1>1, SequenceFacts
<1> QED BY <1>1, <1>2 DEF GoesOn

LEMMA IconsStep ==
  ASSUME IconsListed, [Next]_vars, ImagesFollowMain
  PROVE  InPlace(x, written)'
<1>1. /\ Sound(x) /\ Sequence(written) /\ InPlace(x, written) /\ This = Len(written) + 1
      /\ Len(written) \in Nat /\ GoesOn(written, written)
  <2>1. Sound(x) /\ Sequence(written) /\ InPlace(x, written) /\ This = Len(written) + 1
    BY DEF IconsListed, Extracted, This
  <2>2. PICK n : n = Len(written)
    OBVIOUS
  <2>3. n \in Nat
    BY <2>1, <2>2, SequenceFacts
  <2>4. GoesOn(written, written)
    BY <2>1, <2>2, <2>3 DEF GoesOn
  <2> QED BY <2>1, <2>2, <2>3, <2>4
\* A step that puts no image into the text.
<1>2. ASSUME NEW cs, Kept(x, x', cs), Imageless(cs), GoesOn(written, written')
      PROVE  InPlace(x, written)'
  BY <1>1, <1>2, KeptInPlace
<1>3. ASSUME written' = written, Kept(x, x', Layout) PROVE InPlace(x, written)'
  BY <1>1, <1>2, <1>3, LayoutImageless
<1>4. ASSUME NEW place, Write("char", place), Kept(x, x', {<<"char", This>>})
      PROVE  InPlace(x, written)'
  <2>1. GoesOn(written, written')
    BY <1>1, <1>4, WriteFacts, MoreGoesOn
  <2> QED BY <1>2, <1>4, <2>1, LayoutImageless
<1>5. CASE WriteChar
  <2>1. Kept(x, x', {<<"char", This>>})
    BY <1>1, <1>5, CharKept DEF WriteChar
  <2> QED BY <1>4, <1>5, <2>1 DEF WriteChar
<1>6. CASE WriteEntity
  <2>1. Kept(x, x', {<<"char", This>>})
    BY <1>1, <1>6, CharKept DEF WriteEntity
  <2> QED BY <1>4, <1>6, <2>1 DEF WriteEntity
<1>7. CASE WriteBlank
  <2>1. Kept(x, x', Layout)
    BY <1>1, <1>7, CharKept DEF WriteBlank
  <2> QED BY <1>3, <1>7, <2>1 DEF WriteBlank
<1>8. CASE WriteComment
  <2>1. Kept(x, x', Layout)
    BY <1>1, <1>8, CommentKept DEF WriteComment
  <2> QED BY <1>3, <1>8, <2>1 DEF WriteComment
<1>9. ASSUME NEW e \in Elements, WriteTag(e) PROVE InPlace(x, written)'
  <2>1. Started(x, x', e, This)
    BY <1>1, <1>9, WriteTagFacts, StartTagFacts, ElementAssumption
  <2>2. CASE e.tag # "img"
    <3>1. written' = written
      BY <1>1, <1>9, <2>2, WriteTagFacts
    <3>2. CASE Kept(x, x', Layout)
      BY <1>3, <3>1, <3>2
    <3>3. CASE e.tag \in {"main", "article"} /\ \E d : Dropped(x, d) /\ Kept(d, x', Layout)
      <4>1. PICK d : Dropped(x, d) /\ Kept(d, x', Layout)
        BY <3>3
      <4>2. \A n \in DOMAIN written : written[n].kind # "img"
        BY <1>1, <1>9, <3>3, WriteTagFacts
      <4>3. Sound(d) /\ InPlace(d, written)
        BY <1>1, <4>1, <4>2, DroppedInPlace DEF Dropped
      <4>4. InPlace(x', written)
        BY <1>1, <4>1, <4>3, KeptInPlace, LayoutImageless
      <4> QED BY <3>1, <4>4
    <3> QED BY <2>1, <2>2, <3>2, <3>3 DEF Started, Shaped
  <2>3. CASE e.tag = "img"
    <3>1. /\ Sequence(written') /\ Len(written') = This /\ GoesOn(written, written')
          /\ written'[This].kind = IF e.icon THEN "img" ELSE "marker"
      BY <1>1, <1>9, <2>3, WriteTagFacts, MoreGoesOn
    <3>2. CASE Kept(x, x', Layout)
      BY <1>2, <3>1, <3>2, LayoutImageless
    <3>3. CASE ~e.icon /\ Kept(x, x', Marker(This))
      BY <1>2, <3>1, <3>3, LayoutImageless
    <3>4. CASE e.icon /\ Drew(x, x', This)
      <4>1. This <= Len(written') /\ written'[This].kind = "img"
        <5>1. PICK n : n = This
          OBVIOUS
        <5>2. n \in Nat
          BY <1>1, <5>1
        <5> QED BY <3>1, <3>4, <5>1, <5>2
      <4> QED BY <1>1, <3>1, <3>4, <4>1, DrewInPlace
    <3> QED BY <2>1, <2>3, <3>2, <3>3, <3>4 DEF Started, Shaped
  <2> QED BY <2>2, <2>3
<1>10. CASE CloseTag
  <2>1. Kept(x, x', Layout)
    BY <1>1, <1>10, EndTagKept DEF CloseTag
  <2> QED BY <1>3, <1>10, <2>1 DEF CloseTag
<1>11. ASSUME NEW b \in Blocks, WriteBlock(b) PROVE InPlace(x, written)'
  <2>1. Kept(x, x', Layout)
    BY <1>1, <1>11, RawTextKept DEF WriteBlock
  <2> QED BY <1>3, <1>11, <2>1 DEF WriteBlock
<1>12. CASE UNCHANGED vars
  <2>1. x' = x /\ written' = written
    BY <1>12 DEF vars
  <2> QED BY <1>1, <1>3, <2>1, KeptNothing
<1> QED BY <1>5, <1>6, <1>7, <1>8, <1>9, <1>10, <1>11, <1>12 DEF Next

\* The ranges are those of the markers.
LEMMA IconsListedInPlace ==
  ASSUME IconsListed
  PROVE  IconsInPlace
<1>1. PICK t : t = TrimmedText(x.out)
  OBVIOUS
<1>2. PICK h, l, c : h = Here(x) /\ l = Len(t) /\ c = Len(x.icons)
  OBVIOUS
<1>3. Sound(x) /\ Proper(x) /\ Sequence(x.out) /\ Sequence(x.icons) /\ Len(x.out) = h
  BY <1>2 DEF IconsListed, Extracted, Sound, Proper, Here
<1>4. /\ Page.text = t /\ Page.icons = x.icons /\ DOMAIN x.icons = 1..c /\ c \in Nat
      /\ h \in Nat /\ l \in Nat /\ l <= h
      /\ \A k \in 1..l : t[k] = x.out[k]
      /\ \A k \in 1..h : x.out[k] \notin {Space, Newline} => k <= l
  BY <1>1, <1>2, <1>3, HereFacts, SequenceFacts, TrimmedFacts, FinishedFacts DEF Page
<1> DEFINE At(f) == [k \in 1..IconLen |-> f + k]
           Ranges == {At(Page.icons[i].from) : i \in DOMAIN Page.icons}
           Markers == {ks \in {At(f) : f \in 0..(Len(Page.text) - IconLen)} :
                         \E n \in DOMAIN written :
                            \A k \in 1..IconLen : Page.text[ks[k]] = <<"img", n>>}
<1> SUFFICES ASSUME NotFull, Len(Page.icons) < MaxIcons
             PROVE  Ranges = Markers
  BY DEF IconsInPlace
<1> HIDE DEF At, Ranges, Markers
<1>5. Roomy(x)
  BY DEF NotFull, Roomy
<1>6. \A i \in 1..c : IsIcon(x.icons[i], written) /\ Marked(x, x.icons[i])
  BY <1>2, <1>5 DEF IconsListed, InPlace
<1>7. \A k \in 1..h : \A n : x.out[k] = <<"img", n>> => Listed(x, k, n)
  BY <1>2, <1>4, <1>5 DEF IconsListed, InPlace
<1>8. \A i, j \in 1..c : x.icons[i].img = x.icons[j].img => i = j
  BY <1>2 DEF IconsListed, InPlace
\* A range is a marker.
<1>9. ASSUME NEW i \in 1..c
      PROVE  /\ x.icons[i].from \in 0..(l - IconLen)
             /\ \E n \in DOMAIN written :
                   \A k \in 1..IconLen : t[x.icons[i].from + k] = <<"img", n>>
  <2>1. PICK r, f : r = x.icons[i] /\ f = r.from
    OBVIOUS
  <2>2. /\ r.img \in DOMAIN written /\ f \in Nat /\ f + IconLen <= h
        /\ \A k \in 1..IconLen : x.out[f + k] = <<"img", r.img>>
    BY <1>2, <1>6, <2>1 DEF IsIcon, Marked
  <2>3. IconLen \in 1..IconLen /\ f + IconLen \in 1..h
    BY <1>4, <2>2 DEF IconLen
  <2>4. x.out[f + IconLen] \notin {Space, Newline}
    <3>1. x.out[f + IconLen] = <<"img", r.img>>
      BY <2>2, <2>3
    <3> QED BY <3>1, LayoutImageless, SpaceAndNewline DEF Imageless
  <2>5. f + IconLen <= l
    BY <1>4, <2>3, <2>4
  <2>6. f \in 0..(l - IconLen) /\ \A k \in 1..IconLen : f + k \in 1..l
    BY <1>4, <2>2, <2>5 DEF IconLen
  <2>7. \A k \in 1..IconLen : t[f + k] = <<"img", r.img>>
    BY <1>4, <2>2, <2>6
  <2> QED BY <2>1, <2>2, <2>6, <2>7
\* A marker has a range.
<1>10. ASSUME NEW f \in 0..(l - IconLen), NEW n,
              \A k \in 1..IconLen : t[f + k] = <<"img", n>>
       PROVE  \E i \in 1..c : x.icons[i].from = f
  <2>1. /\ f \in Nat /\ f + 1 \in 1..l /\ f + 5 \in 1..l /\ f + 1 \in 1..h /\ f + 5 \in 1..h
        /\ 1 \in 1..IconLen /\ 5 \in 1..IconLen
    BY <1>4 DEF IconLen
  <2>2. x.out[f + 1] = <<"img", n>> /\ x.out[f + 5] = <<"img", n>>
    BY <1>4, <1>10, <2>1
  <2>3. PICK i \in 1..c : x.icons[i].img = n /\ x.icons[i].from < f + 1
    BY <1>2, <1>7, <2>1, <2>2 DEF Listed
  <2>4. PICK j \in 1..c : x.icons[j].img = n /\ f + 5 <= x.icons[j].from + IconLen
    BY <1>2, <1>7, <2>1, <2>2 DEF Listed
  <2>5. i = j
    BY <1>8, <2>3, <2>4
  <2>6. x.icons[i].from \in Nat
    BY <1>6 DEF IsIcon
  <2>7. PICK p : p = x.icons[i].from
    OBVIOUS
  <2>8. p \in Nat /\ p < f + 1 /\ f + 5 <= p + 5
    BY <2>3, <2>4, <2>5, <2>6, <2>7 DEF IconLen
  <2>9. p = f
    BY <2>1, <2>8
  <2> QED BY <2>7, <2>9
<1>11. ASSUME NEW ks \in Ranges PROVE ks \in Markers
  <2>1. PICK i \in 1..c : ks = At(x.icons[i].from)
    BY <1>4 DEF Ranges
  <2>2. PICK f : f = x.icons[i].from
    OBVIOUS
  <2>3. \A k \in 1..IconLen : At(f)[k] = f + k
    BY DEF At
  <2>4. f \in 0..(l - IconLen) /\ \E n \in DOMAIN written :
                                     \A k \in 1..IconLen : t[At(f)[k]] = <<"img", n>>
    BY <1>9, <2>2, <2>3
  <2> QED BY <1>2, <1>4, <2>1, <2>2, <2>4 DEF Markers
<1>12. ASSUME NEW ks \in Markers PROVE ks \in Ranges
  <2>1. \E f \in 0..(l - IconLen) : \E n :
           ks = At(f) /\ \A k \in 1..IconLen : t[ks[k]] = <<"img", n>>
    BY <1>2, <1>4 DEF Markers
  <2>2. PICK f \in 0..(l - IconLen) : \E n :
           ks = At(f) /\ \A k \in 1..IconLen : t[ks[k]] = <<"img", n>>
    BY <2>1
  <2>3. PICK n : ks = At(f) /\ \A k \in 1..IconLen : t[ks[k]] = <<"img", n>>
    BY <2>2
  <2>4. \A k \in 1..IconLen : At(f)[k] = f + k
    BY DEF At
  <2>5. PICK i \in 1..c : x.icons[i].from = f
    BY <1>10, <2>3, <2>4
  <2> QED BY <1>4, <2>3, <2>5 DEF Ranges
<1> QED BY <1>11, <1>12 DEF Ranges, Markers

LEMMA IconsInit ==
  ASSUME Init
  PROVE  IconsListed
<1>1. x = Fresh /\ Fresh.icons = <<>> /\ Fresh.out = <<>> /\ Len(<<>>) = 0
  BY NothingFacts DEF Init, Fresh
<1>2. Len(x.icons) = 0 /\ Here(x) = 0
  BY <1>1 DEF Here
<1>3. InPlace(x, written)
  BY <1>2 DEF InPlace
<1> QED BY <1>3, ExtractedInit DEF IconsListed

\* While there is room in the buffer and in the list, the browser keeps a range for
\* every inline image whose marker is on the page, and it is where the marker is: as
\* long as no image stands in front of main.
THEOREM DocIconsInPlace ==
  ASSUME "icon before main" \notin Awkward
  PROVE  Spec => []IconsInPlace
<1>1. Init => IconsListed
  BY IconsInit
<1>2. IconsListed /\ [Next]_vars => IconsListed'
  <2>1. ImagesFollowMain
    BY Zenon DEF ImagesFollowMain
  <2> QED BY <2>1, ExtractedStep, IconsStep, Zenon DEF IconsListed
<1>3. IconsListed => IconsInPlace
  BY IconsListedInPlace
<1> QED BY <1>1, <1>2, <1>3, PTL DEF Spec
-----------------------------------------------------------------------------
(***************************************************************************)
(* The flags that decide whether text goes to the page, and which tags     *)
(* change them.                                                            *)
(***************************************************************************)
Flags == {"hid", "raw", "main", "article"}

Same(v, w) == \A f \in Flags : w[f] = v[f]

LEMMA SameOn ==
  ASSUME NEW v, NEW w, NEW u, Same(v, w), Same(w, u)
  PROVE  Same(v, u)
BY DEF Same

LEMMA ButSame ==
  ASSUME NEW v, NEW w, NEW fs, But(v, w, fs), fs \cap Flags = {}
  PROVE  Same(v, w)
BY DEF But, Same, Flags, Fields

LEMMA LaidSame ==
  ASSUME NEW v, NEW w, NEW cs, Wrote(v, w, cs)
  PROVE  Same(v, w)
<1>1. {"out", "space", "cell"} \cap Flags = {}
  BY DEF Flags
<1> QED BY <1>1, ButSame DEF Wrote

LEMMA SetSame ==
  ASSUME NEW v, Sound(v), NEW f \in Fields \ Flags, NEW s
  PROVE  Same(v, [v EXCEPT ![f] = s])
<1>1. v = [g \in Fields |-> v[g]] /\ Flags \subseteq Fields
  BY DEF Sound, Proper, Flags, Fields
<1> QED BY <1>1 DEF Same

\* Tables, lists, ancestors.
LEMMA StacksSame ==
  ASSUME NEW v, Sound(v), NEW e, NEW tag
  PROVE  /\ Same(v, TableStart(v, e)) /\ Same(v, TableEnd(v, tag))
         /\ Same(v, ListStart(v, e)) /\ Same(v, ListEnd(v, tag))
         /\ Same(v, PushAncestor(v, e)) /\ Same(v, PopAncestor(v, tag))
<1>1. Same(v, v)
  BY DEF Same
<1>2. {"tables", "navs", "anc"} \subseteq Fields \ Flags
  BY DEF Fields, Flags
<1>3. \A s : /\ Same(v, [v EXCEPT !.tables = s]) /\ Same(v, [v EXCEPT !.navs = s])
             /\ Same(v, [v EXCEPT !.anc = s])
  BY <1>2, SetSame
<1>4. /\ TableStart(v, e) = v \/ \E s : TableStart(v, e) = [v EXCEPT !.tables = s]
      /\ TableEnd(v, tag) = v \/ \E s : TableEnd(v, tag) = [v EXCEPT !.tables = s]
  BY DEF TableStart, TableEnd
<1>5. /\ ListStart(v, e) = v \/ \E s : ListStart(v, e) = [v EXCEPT !.navs = s]
      /\ ListEnd(v, tag) = v \/ \E s : ListEnd(v, tag) = [v EXCEPT !.navs = s]
  BY DEF ListStart, ListEnd
<1>6. /\ PushAncestor(v, e) = v \/ \E s : PushAncestor(v, e) = [v EXCEPT !.anc = s]
      /\ PopAncestor(v, tag) = v \/ \E s : PopAncestor(v, tag) = [v EXCEPT !.anc = s]
  BY DEF PushAncestor, PopAncestor
<1>7. Same(v, TableStart(v, e)) /\ Same(v, TableEnd(v, tag))
  BY <1>1, <1>3, <1>4, Zenon
<1>8. Same(v, ListStart(v, e)) /\ Same(v, ListEnd(v, tag))
  BY <1>1, <1>3, <1>5, Zenon
<1>9. Same(v, PushAncestor(v, e)) /\ Same(v, PopAncestor(v, tag))
  BY <1>1, <1>3, <1>6, Zenon
<1> QED BY <1>7, <1>8, <1>9

\* Links and styles.

LEMMA LinkSame ==
  ASSUME NEW v, Sound(v), NEW e, NEW style, NEW tag
  PROVE  Same(v, LinkStart(v, e, style)) /\ Same(v, LinkEnd(v, tag))
<1>1. v = [g \in Fields |-> v[g]] /\ Flags \subseteq Fields
  BY DEF Sound, Proper, Flags, Fields
<1>2. \A s : Same(v, [v EXCEPT !.a = s])
  BY <1>1 DEF Same, Flags
<1>3. Same(v, v)
  BY DEF Same
<1>4. LinkStart(v, e, style) = v \/ \E s : LinkStart(v, e, style) = [v EXCEPT !.a = s]
  BY DEF LinkStart
<1>5. LinkEnd(v, tag) = v \/ \E r, s : LinkEnd(v, tag) = [v EXCEPT !.a = s, !.links = r]
  BY DEF LinkEnd
<1>6. Same(v, LinkStart(v, e, style))
  BY <1>2, <1>3, <1>4, Zenon
<1>7. Same(v, LinkEnd(v, tag))
  <2>1. ASSUME NEW r, NEW s, LinkEnd(v, tag) = [v EXCEPT !.a = s, !.links = r]
        PROVE  Same(v, LinkEnd(v, tag))
    <3>1. PICK w : w = [v EXCEPT !.a = s, !.links = r]
      OBVIOUS
    <3>2. Same(v, w)
      BY <1>1, <3>1 DEF Same, Flags
    <3> QED BY <2>1, <3>1, <3>2
  <2> QED BY <1>3, <1>5, <2>1, Zenon
<1> QED BY <1>6, <1>7

LEMMA StyleSame ==
  ASSUME NEW v, Sound(v), NEW e, NEW style, NEW tag
  PROVE  Same(v, StyleStart(v, e, style)) /\ Same(v, StyleEnd(v, tag))
<1>1. v = [g \in Fields |-> v[g]] /\ Flags \subseteq Fields
  BY DEF Sound, Proper, Flags, Fields
<1>2. \A s, c : Same(v, SwitchSpan([v EXCEPT !.styles = s, !.cur = c]))
  <2> SUFFICES ASSUME NEW s, NEW c PROVE Same(v, SwitchSpan([v EXCEPT !.styles = s, !.cur = c]))
    OBVIOUS
  <2>1. PICK w : w = [v EXCEPT !.styles = s, !.cur = c]
    OBVIOUS
  <2>2. w = [g \in Fields |-> w[g]] /\ Same(v, w)
    BY <1>1, <2>1 DEF Same, Flags
  <2>3. PICK u : u = SwitchSpan(w)
    OBVIOUS
  <2>4. ASSUME NEW r, NEW t, u = [w EXCEPT !.spans = r, !.span = t] \/ u = [w EXCEPT !.span = t]
        PROVE  Same(w, u)
    BY <1>1, <2>2, <2>4 DEF Same, Flags
  <2>5. \/ u = w
        \/ \E r, t : u = [w EXCEPT !.spans = r, !.span = t] \/ u = [w EXCEPT !.span = t]
    BY <2>3 DEF SwitchSpan
  <2>6. Same(w, u)
    BY <2>4, <2>5 DEF Same
  <2> QED BY <2>1, <2>2, <2>3, <2>6, SameOn
<1>3. \A s, c : [v EXCEPT !.cur = c, !.styles = s] = [v EXCEPT !.styles = s, !.cur = c]
  BY <1>1
<1>4. Same(v, v)
  BY DEF Same
<1>5. \/ StyleStart(v, e, style) = v
      \/ \E s, c : StyleStart(v, e, style) = SwitchSpan([v EXCEPT !.styles = s, !.cur = c])
  BY DEF StyleStart
<1>6. \/ StyleEnd(v, tag) = v
      \/ \E s, c : StyleEnd(v, tag) = SwitchSpan([v EXCEPT !.cur = c, !.styles = s])
  BY DEF StyleEnd
<1>7. \/ StyleEnd(v, tag) = v
      \/ \E s, c : StyleEnd(v, tag) = SwitchSpan([v EXCEPT !.styles = s, !.cur = c])
  <2>1. ASSUME NEW s, NEW c, StyleEnd(v, tag) = SwitchSpan([v EXCEPT !.cur = c, !.styles = s])
        PROVE  StyleEnd(v, tag) = SwitchSpan([v EXCEPT !.styles = s, !.cur = c])
    BY <1>3, <2>1, Zenon
  <2> QED BY <1>6, <2>1, Zenon
<1>8. Same(v, StyleStart(v, e, style))
  BY <1>2, <1>4, <1>5, Zenon
<1>9. Same(v, StyleEnd(v, tag))
  BY <1>2, <1>4, <1>7, Zenon
<1> QED BY <1>8, <1>9
\* What a tag sets of the flags, and the tag beginning or ending main and article.
Sets(v, w, hid, raw, main, article) ==
    w.hid = hid /\ w.raw = raw /\ w.main = main /\ w.article = article

LEMMA SameSets ==
  ASSUME NEW v, NEW w, Same(v, w)
  PROVE  /\ w.hid = v.hid /\ w.raw = v.raw /\ w.main = v.main /\ w.article = v.article
         /\ Allowed(w) = Allowed(v)
BY DEF Same, Flags, Allowed

LEMMA SetFlag ==
  ASSUME NEW v, Sound(v), NEW s
  PROVE  /\ Sets(v, [v EXCEPT !.hid = s], s, v.raw, v.main, v.article)
         /\ Sets(v, [v EXCEPT !.raw = s], v.hid, s, v.main, v.article)
         /\ Sets(v, [v EXCEPT !.main = s], v.hid, v.raw, s, v.article)
         /\ Sets(v, [v EXCEPT !.article = s], v.hid, v.raw, v.main, s)
<1>1. v = [g \in Fields |-> v[g]] /\ Flags \subseteq Fields
  BY DEF Sound, Proper, Flags, Fields
<1> QED BY <1>1 DEF Sets, Flags

\* The tag makes main or article the part that is shown, for the first time.
TurnsTo(v, tag) ==
    /\ v.main = "unseen"
    /\ tag = "main" \/ (tag = "article" /\ v.article = "unseen")

MainSet(v, tag)    == IF tag = "main" THEN "in" ELSE v.main
ArticleSet(v, tag) == IF tag = "article" /\ v.main = "unseen" THEN "in" ELSE v.article

LEMMA DiscardSame ==
  ASSUME NEW v, Sound(v)
  PROVE  Same(v, Discard(v))
<1>1. v = [g \in Fields |-> v[g]] /\ Flags \subseteq Fields
  BY DEF Sound, Proper, Flags, Fields
<1> QED BY <1>1 DEF Same, Flags, Discard

LEMMA DroppedFlag ==
  ASSUME NEW v, Sound(v), NEW f \in {"main", "article"}, NEW s, NEW d, Dropped(v, d)
  PROVE  Dropped(v, [d EXCEPT ![f] = s])
<1>1. PICK w : w = [d EXCEPT ![f] = s]
  OBVIOUS
<1>2. Kept(d, w, {}) /\ Here(d) = 0
  <2>1. Kept(d, [d EXCEPT ![f] = s], {})
    BY SettingKept DEF Dropped
  <2> QED BY <1>1, <2>1, Zenon DEF Dropped
<1>3. Sound(w) /\ w.icons = d.icons /\ \A k \in (Here(d) + 1)..Here(w) : w.out[k] \in {}
  BY <1>2 DEF Kept, Grown
<1>4. Here(w) \in Nat
  BY <1>3, HereFacts DEF Sound
<1>5. Here(w) # 0 => 1 \in (Here(d) + 1)..Here(w)
  BY <1>2, <1>4
<1>6. Dropped(v, w)
  BY <1>3, <1>5 DEF Dropped
<1> QED BY <1>1, <1>6, Zenon

LEMMA MainStartIs ==
  ASSUME NEW v, Sound(v), NEW tag, NEW m, m = MainStart(v, tag)
  PROVE  /\ Sets(v, m, v.hid, v.raw, MainSet(v, tag), ArticleSet(v, tag))
         /\ IF TurnsTo(v, tag) THEN Dropped(v, m) ELSE Kept(v, m, Layout)
<1>1. PICK d : d = Discard(v)
  OBVIOUS
<1>2. Dropped(v, d) /\ Sound(d) /\ Same(v, d)
  BY <1>1, DiscardFacts, DiscardSame DEF Dropped
<1>3. d.hid = v.hid /\ d.raw = v.raw /\ d.main = v.main /\ d.article = v.article
  BY <1>2, SameSets
<1>4. CASE tag = "main" /\ v.main = "unseen"
  <2>1. m = [d EXCEPT !.main = "in"]
    BY <1>1, <1>4 DEF MainStart
  <2>2. Dropped(v, m)
    BY <1>2, <2>1, DroppedFlag
  <2>3. Sets(d, m, d.hid, d.raw, "in", d.article)
    <3>1. \A s : Sets(d, [d EXCEPT !.main = s], d.hid, d.raw, s, d.article)
      BY <1>2, SetFlag, Zenon
    <3> QED BY <2>1, <3>1, SMT
  <2> QED BY <1>3, <1>4, <2>2, <2>3 DEF Sets, TurnsTo, MainSet, ArticleSet
<1>5. CASE tag = "main" /\ v.main # "unseen"
  <2>1. m = [v EXCEPT !.main = "in"]
    BY <1>5 DEF MainStart
  <2>2. Kept(v, m, Layout)
    BY <2>1, SettingKept
  <2>3. Sets(v, m, v.hid, v.raw, "in", v.article)
    <3>1. \A s : Sets(v, [v EXCEPT !.main = s], v.hid, v.raw, s, v.article)
      BY SetFlag, Zenon
    <3> QED BY <2>1, <3>1, SMT
  <2> QED BY <1>5, <2>2, <2>3 DEF Sets, TurnsTo, MainSet, ArticleSet
<1>6. CASE tag = "article" /\ v.main = "unseen" /\ v.article = "unseen"
  <2>1. m = [d EXCEPT !.article = "in"]
    BY <1>1, <1>6 DEF MainStart
  <2>2. Dropped(v, m)
    BY <1>2, <2>1, DroppedFlag
  <2>3. Sets(d, m, d.hid, d.raw, d.main, "in")
    BY <1>2, <2>1, SetFlag, Zenon
  <2> QED BY <1>3, <1>6, <2>2, <2>3 DEF Sets, TurnsTo, MainSet, ArticleSet
<1>7. CASE tag = "article" /\ v.main = "unseen" /\ v.article # "unseen"
  <2>1. m = [v EXCEPT !.article = "in"]
    BY <1>7 DEF MainStart
  <2>2. Kept(v, m, Layout)
    BY <2>1, SettingKept
  <2>3. Sets(v, m, v.hid, v.raw, v.main, "in")
    <3>1. \A s : Sets(v, [v EXCEPT !.article = s], v.hid, v.raw, v.main, s)
      BY SetFlag, Zenon
    <3> QED BY <2>1, <3>1, SMT
  <2> QED BY <1>7, <2>2, <2>3 DEF Sets, TurnsTo, MainSet, ArticleSet
<1>8. CASE ~(tag = "main" \/ (tag = "article" /\ v.main = "unseen"))
  <2>1. m = v
    BY <1>8 DEF MainStart
  <2> QED BY <1>8, <2>1, KeptNothing DEF Sets, TurnsTo, MainSet, ArticleSet
<1> QED BY <1>4, <1>5, <1>6, <1>7, <1>8

LEMMA RawStartIs ==
  ASSUME NEW v, Sound(v), NEW tag, NEW r, r = RawStart(v, tag)
  PROVE  Sets(v, r, v.hid, IF tag \in RawTags THEN tag ELSE v.raw, v.main, v.article)
<1>1. v = [g \in Fields |-> v[g]] /\ Flags \subseteq Fields
  BY DEF Sound, Proper, Flags, Fields
<1>2. CASE tag \in RawTags
  <2>1. r = [v EXCEPT !.raw = tag, !.css = <<>>]
    BY <1>2 DEF RawStart
  <2> QED BY <1>1, <1>2, <2>1 DEF Sets, Flags
<1>3. CASE tag \notin RawTags
  BY <1>3 DEF Sets, RawStart
<1> QED BY <1>2, <1>3

LEMMA MainEndIs ==
  ASSUME NEW v, Sound(v), NEW tag, NEW m, m = MainEnd(v, tag)
  PROVE  Sets(v, m, v.hid, v.raw,
              IF tag = "main" /\ v.main # "unseen" THEN "out" ELSE v.main,
              IF tag = "article" /\ v.main = "unseen" /\ v.article # "unseen" THEN "out"
              ELSE v.article)
<1>1. /\ Sets(v, [v EXCEPT !.main = "out"], v.hid, v.raw, "out", v.article)
      /\ Sets(v, [v EXCEPT !.article = "out"], v.hid, v.raw, v.main, "out")
  BY SetFlag
<1>2. CASE tag = "main" /\ v.main # "unseen"
  BY <1>1, <1>2 DEF Sets, MainEnd
<1>3. CASE tag = "article" /\ v.main = "unseen" /\ v.article # "unseen"
  BY <1>1, <1>3 DEF Sets, MainEnd
<1>4. CASE ~(tag = "main" /\ v.main # "unseen") /\ ~(tag = "article" /\ v.main = "unseen" /\ v.article # "unseen")
  BY <1>4 DEF Sets, MainEnd
<1> QED BY <1>2, <1>3, <1>4

LEMMA EndRawIs ==
  ASSUME NEW v, Sound(v), NEW w, w = EndRaw(v)
  PROVE  Sets(v, w, v.hid, "", v.main, v.article)
<1>1. v = [g \in Fields |-> v[g]] /\ Flags \subseteq Fields
  BY DEF Sound, Proper, Flags, Fields
<1>2. PICK s : s = IF v.raw = "style" THEN AddRules(v.sheet, v.css) ELSE v.sheet
  OBVIOUS
<1>3. PICK y : y = [v EXCEPT !.raw = "", !.sheet = s]
  OBVIOUS
<1>4. w = Blank(y)
  BY <1>2, <1>3 DEF EndRaw
<1>5. /\ y = [g \in Fields |-> y[g]] /\ \A g \in Fields \ {"raw", "sheet"} : y[g] = v[g]
      /\ y.raw = ""
  <2>1. "raw" \in Fields /\ "sheet" \in Fields
    BY DEF Fields
  <2> QED BY <1>1, <1>3, <2>1
<1>6. Proper(y)
  BY <1>5 DEF Sound, Proper, Fields
<1>7. Same(y, w)
  BY <1>4, <1>6, BlankFacts, LaidSame DEF Laid
<1>8. Sets(v, y, v.hid, "", v.main, v.article)
  BY <1>5 DEF Sets, Fields
<1> QED BY <1>7, <1>8, SameSets DEF Sets

LEMMA HiddenStartIs ==
  ASSUME NEW v, Sound(v), NEW e, NEW w, w = HiddenStart(v, e)
  PROVE  Sets(v, w, IF ~e.void /\ Len(v.hid) < StackCap THEN Append(v.hid, e.tag) ELSE v.hid,
              v.raw, v.main, v.article)
<1>1. CASE ~e.void /\ Len(v.hid) < StackCap
  <2>1. PICK s : s = Append(v.hid, e.tag)
    OBVIOUS
  <2>2. w = [v EXCEPT !.hid = s]
    BY <1>1, <2>1 DEF HiddenStart
  <2>3. Sets(v, w, s, v.raw, v.main, v.article)
    BY <2>2, SetFlag
  <2> QED BY <1>1, <2>1, <2>3
<1>2. CASE ~(~e.void /\ Len(v.hid) < StackCap)
  BY <1>2 DEF HiddenStart, Sets
<1> QED BY <1>1, <1>2

LEMMA HiddenEndIs ==
  ASSUME NEW v, Sound(v), v.hid # <<>>, NEW tag, Top(v.hid) = tag, NEW w, w = HiddenEnd(v, tag)
  PROVE  Sets(v, w, Pop(v.hid), v.raw, v.main, v.article)
<1>1. PICK s : s = Pop(v.hid)
  OBVIOUS
<1>2. PICK y : y = [v EXCEPT !.hid = s]
  OBVIOUS
<1>3. Sound(y)
  BY <1>1, <1>2, PopBound, StackParts, StackFacts DEF Kept, Stacks
<1>4. Sets(v, y, s, v.raw, v.main, v.article)
  BY <1>2, SetFlag
<1>5. Same(y, Blank(y))
  BY <1>3, BlankFacts, LaidSame DEF Laid, Sound
<1>6. w = y \/ w = Blank(y)
  BY <1>1, <1>2 DEF HiddenEnd
<1> QED BY <1>1, <1>4, <1>5, <1>6, SameSets DEF Sets
-----------------------------------------------------------------------------
(***************************************************************************)
(* A character, a marker or an image goes to the page: behind the text,    *)
(* with layout around it, unless there is no room left.                    *)
(***************************************************************************)
Shown(v, w, c) ==
    /\ Sound(w)
    /\ \E f \in Nat, m \in Nat :
          /\ Here(v) <= f /\ f + m <= Here(w)
          /\ \A k \in 1..Here(v) : w.out[k] = v.out[k]
          /\ \A k \in (f + 1)..(f + m) : w.out[k] = c
          /\ \A k \in (Here(v) + 1)..Here(w) : k \in (f + 1)..(f + m) \/ w.out[k] \in Layout
          /\ m = 0 => ~Roomy(w)
          /\ m > 1 => c[1] = "img"

LEMMA KeptShown ==
  ASSUME NEW v, Sound(v), NEW w, Kept(v, w, Layout), NEW u, NEW c, Shown(w, u, c)
  PROVE  Shown(v, u, c)
<1>1. Sound(u) /\ Here(v) \in Nat /\ Here(w) \in Nat /\ Here(u) \in Nat /\ Here(v) <= Here(w)
      /\ (\A k \in 1..Here(v) : w.out[k] = v.out[k])
      /\ (\A k \in (Here(v) + 1)..Here(w) : w.out[k] \in Layout)
  BY HereFacts DEF Kept, Grown, Sound, Shown
<1>2. PICK f \in Nat, m \in Nat :
          /\ Here(w) <= f /\ f + m <= Here(u)
          /\ \A k \in 1..Here(w) : u.out[k] = w.out[k]
          /\ \A k \in (f + 1)..(f + m) : u.out[k] = c
          /\ \A k \in (Here(w) + 1)..Here(u) : k \in (f + 1)..(f + m) \/ u.out[k] \in Layout
          /\ m = 0 => ~Roomy(u)
          /\ m > 1 => c[1] = "img"
  BY DEF Shown
<1>3. \A k \in 1..Here(v) : u.out[k] = v.out[k]
  BY <1>1, <1>2
<1>4. ASSUME NEW k \in (Here(v) + 1)..Here(u)
      PROVE  k \in (f + 1)..(f + m) \/ u.out[k] \in Layout
  <2>1. CASE k <= Here(w)
    <3>1. k \in 1..Here(w) /\ k \in (Here(v) + 1)..Here(w)
      BY <1>1, <2>1
    <3> QED BY <1>1, <1>2, <3>1
  <2>2. CASE ~(k <= Here(w))
    <3>1. k \in (Here(w) + 1)..Here(u)
      BY <1>1, <2>2
    <3> QED BY <1>2, <3>1
  <2> QED BY <2>1, <2>2
<1>5. Here(v) <= f
  BY <1>1, <1>2
<1> QED BY <1>1, <1>2, <1>3, <1>4, <1>5 DEF Shown

LEMMA ShownKept ==
  ASSUME NEW v, Sound(v), NEW w, NEW c, Shown(v, w, c), NEW u, Kept(w, u, Layout)
  PROVE  Shown(v, u, c)
<1>1. /\ Sound(u) /\ Here(v) \in Nat /\ Here(w) \in Nat /\ Here(u) \in Nat /\ Here(w) <= Here(u)
      /\ \A k \in 1..Here(w) : u.out[k] = w.out[k]
      /\ \A k \in (Here(w) + 1)..Here(u) : u.out[k] \in Layout
  BY HereFacts DEF Kept, Grown, Sound, Shown
<1>2. PICK f \in Nat, m \in Nat :
          /\ Here(v) <= f /\ f + m <= Here(w)
          /\ \A k \in 1..Here(v) : w.out[k] = v.out[k]
          /\ \A k \in (f + 1)..(f + m) : w.out[k] = c
          /\ \A k \in (Here(v) + 1)..Here(w) : k \in (f + 1)..(f + m) \/ w.out[k] \in Layout
          /\ m = 0 => ~Roomy(w)
          /\ m > 1 => c[1] = "img"
  BY DEF Shown
<1>3. \A k \in 1..Here(v) : u.out[k] = v.out[k]
  BY <1>1, <1>2
<1>4. \A k \in (f + 1)..(f + m) : u.out[k] = c
  BY <1>1, <1>2
<1>5. ASSUME NEW k \in (Here(v) + 1)..Here(u)
      PROVE  k \in (f + 1)..(f + m) \/ u.out[k] \in Layout
  <2>1. CASE k <= Here(w)
    <3>1. k \in 1..Here(w) /\ k \in (Here(v) + 1)..Here(w)
      BY <1>1, <2>1
    <3> QED BY <1>1, <1>2, <3>1
  <2>2. CASE ~(k <= Here(w))
    <3>1. k \in (Here(w) + 1)..Here(u)
      BY <1>1, <2>2
    <3> QED BY <1>1, <3>1
  <2> QED BY <2>1, <2>2
<1>6. (m = 0 => ~Roomy(u)) /\ f + m <= Here(u)
  BY <1>1, <1>2, CapFacts DEF Roomy
<1> QED BY <1>1, <1>2, <1>3, <1>4, <1>5, <1>6 DEF Shown

LEMMA GlyphShown ==
  ASSUME NEW v, Sound(v), NEW c
  PROVE  Shown(v, Glyph(v, c), c) /\ Shown(v, Put(v, c), c)
<1>1. Proper(v) /\ Here(v) \in Nat /\ DOMAIN v.out = 1..Here(v) /\ Sequence(v.out)
  BY HereFacts DEF Sound, Proper
<1>2. ASSUME NEW w, Wrote(v, w, {c}), Roomy(v) => w.out = Append(v.out, c),
             ~Roomy(v) => w.out = v.out
      PROVE  Shown(v, w, c)
  <2>1. Sound(w) /\ \A k \in 1..Here(v) : w.out[k] = v.out[k]
    BY <1>2, WroteSound DEF Wrote
  <2>2. CASE Roomy(v)
    <3>1. Here(w) = Here(v) + 1 /\ w.out[Here(v) + 1] = c
      BY <1>1, <1>2, <2>2, AppendFacts DEF Here
    <3>2. /\ Here(v) + 1 <= Here(w)
          /\ \A k \in (Here(v) + 1)..(Here(v) + 1) : w.out[k] = c
          /\ \A k \in (Here(v) + 1)..Here(w) : k \in (Here(v) + 1)..(Here(v) + 1)
      BY <1>1, <3>1
    <3> QED BY <1>1, <2>1, <3>2 DEF Shown
  <2>3. CASE ~Roomy(v)
    <3>1. Here(w) = Here(v) /\ ~Roomy(w)
      BY <1>2, <2>3 DEF Here, Roomy
    <3>2. /\ Here(v) + 0 <= Here(w)
          /\ \A k \in (Here(v) + 1)..(Here(v) + 0) : w.out[k] = c
          /\ \A k \in (Here(v) + 1)..Here(w) : k \in (Here(v) + 1)..(Here(v) + 0)
      BY <1>1, <3>1
    <3> QED BY <1>1, <2>1, <3>1, <3>2 DEF Shown
  <2> QED BY <2>2, <2>3
<1>3. Shown(v, Glyph(v, c), c)
  BY <1>1, <1>2, GlyphFacts DEF Roomy
<1>4. Shown(v, Put(v, c), c)
  BY <1>1, <1>2, PutFacts DEF Roomy
<1> QED BY <1>3, <1>4

LEMMA DrewShown ==
  ASSUME NEW v, Sound(v), NEW w, NEW n, Drew(v, w, n)
  PROVE  Shown(v, w, <<"img", n>>)
<1>1. PICK f \in Nat, m \in 0..IconLen :
          /\ Here(v) <= f /\ f + m <= Here(w)
          /\ \A k \in 1..Here(v) : w.out[k] = v.out[k]
          /\ \A k \in (f + 1)..(f + m) : w.out[k] = <<"img", n>>
          /\ \A k \in (Here(v) + 1)..Here(w) : k \in (f + 1)..(f + m) \/ w.out[k] \in Layout
          /\ Here(w) + 1 < OutCap => m = IconLen
  BY DEF Drew
<1>2. m \in Nat /\ (m = 0 => ~Roomy(w)) /\ <<"img", n>>[1] = "img"
  BY <1>1 DEF Roomy, IconLen
<1> QED BY <1>1, <1>2 DEF Shown, Drew

LEMMA PlaceholderShown ==
  ASSUME NEW v, Sound(v), NEW e, e.rows \in Nat, NEW n
  PROVE  Shown(v, Placeholder(v, e, n), <<"marker", n>>) /\ Same(v, Placeholder(v, e, n))
<1>1. PICK b, y, p, q : /\ b = Break(v) /\ y = Put(b, <<"marker", n>>)
                        /\ p = PutAll(y, [k \in 1..e.rows |-> Newline])
                        /\ q = [p EXCEPT !.space = TRUE]
  OBVIOUS
<1>2. Kept(v, b, Layout) /\ Sound(b) /\ Same(v, b)
  BY <1>1, BreakFacts, KeptLaid, LaidSame DEF Sound, Kept, Laid
<1>3. Shown(b, y, <<"marker", n>>) /\ Sound(y) /\ Same(b, y)
  BY <1>1, <1>2, GlyphShown, PutFacts, LaidSame, ZenonT(60) DEF Shown, Sound
<1>4. Laid(y, p)
  <2>1. [k \in 1..e.rows |-> Newline] \in Seq(Layout)
    BY SpaceAndNewline
  <2> QED BY <1>1, <1>3, <2>1, LayoutPutAll DEF Sound
<1>5. Laid(y, q)
  <2>1. Laid(y, [p EXCEPT !.space = TRUE])
    BY <1>4, WroteSpaced DEF Laid
  <2> QED BY <1>1, <2>1, Zenon
<1>6. Laid(y, BlankLine(q))
  BY <1>3, <1>5, LaidProper, BlankLineFacts, LaidOn DEF Sound
<1>7. Kept(y, BlankLine(q), Layout) /\ Same(y, BlankLine(q))
  BY <1>3, <1>6, KeptLaid, LaidSame DEF Laid
<1>8. Placeholder(v, e, n) = BlankLine(q)
  BY <1>1 DEF Placeholder
<1>9. Shown(b, BlankLine(q), <<"marker", n>>)
  BY <1>2, <1>3, <1>7, ShownKept
<1>10. Shown(v, BlankLine(q), <<"marker", n>>)
  BY <1>2, <1>9, KeptShown
<1>11. Same(v, BlankLine(q))
  BY <1>2, <1>3, <1>7, SameOn
<1> QED BY <1>8, <1>10, <1>11

LEMMA IconSame ==
  ASSUME NEW v, Sound(v), NEW n
  PROVE  Same(v, Icon(v, n))
<1>1. PICK y, z, p : /\ y = Blank(v) /\ z = PutAll(y, [k \in 1..IconLen |-> <<"img", n>>])
                     /\ p = Put(z, Nbsp)
  OBVIOUS
<1>2. Laid(v, y) /\ Proper(y)
  BY <1>1, BlankFacts, LaidProper DEF Sound
<1>3. PICK cs : cs = [k \in 1..IconLen |-> <<"img", n>>]
  OBVIOUS
<1>4. Sequence(cs)
  <2>1. cs \in Seq({<<"img", n>>})
    BY <1>3 DEF IconLen
  <2> QED BY <2>1, SequenceOf
<1>5. Wrote(y, z, {cs[k] : k \in DOMAIN cs}) /\ Proper(z)
  <2>1. z = PutAll(y, cs)
    BY <1>1, <1>3
  <2> QED BY <1>2, <1>4, <2>1, PutAllFacts DEF Wrote
<1>6. Laid(z, p) /\ Proper(p)
  BY <1>1, <1>5, LayoutPut, SpaceAndNewline, LaidProper
<1>7. Same(v, p)
  BY <1>2, <1>5, <1>6, LaidSame, SameOn DEF Laid
<1>8. PICK is : Icon(v, n) = [p EXCEPT !.space = TRUE, !.icons = is]
  BY <1>1 DEF Icon
<1>9. PICK w : w = [p EXCEPT !.space = TRUE, !.icons = is]
  OBVIOUS
<1>10. Same(p, w)
  <2>1. p = [g \in Fields |-> p[g]] /\ Flags \subseteq Fields
    BY <1>6 DEF Proper, Flags, Fields
  <2> QED BY <1>9, <2>1 DEF Same, Flags
<1> QED BY <1>7, <1>8, <1>9, <1>10, SameOn

Picture(e, n) == <<IF e.icon THEN "img" ELSE "marker", n>>

LEMMA ShapeIs ==
  ASSUME NEW v, Sound(v), NEW e, e.rows \in Nat, NEW n, NEW display,
         NEW s, s = Shape(v, e, n, display)
  PROVE  /\ Same(v, s)
         /\ IF e.tag = "img" /\ Allowed(v) THEN Shown(v, s, Picture(e, n)) ELSE Kept(v, s, Layout)
<1>1. CASE e.tag = "img" /\ Allowed(v) /\ e.icon
  <2>1. s = Icon(v, n) /\ Picture(e, n) = <<"img", n>>
    BY <1>1 DEF Shape, Picture
  <2> QED BY <1>1, <2>1, IconFacts, DrewShown, IconSame
<1>2. CASE e.tag = "img" /\ Allowed(v) /\ ~e.icon
  <2>1. s = Placeholder(v, e, n) /\ Picture(e, n) = <<"marker", n>>
    BY <1>2 DEF Shape, Picture
  <2> QED BY <1>2, <2>1, PlaceholderShown
<1>3. CASE ~(e.tag = "img" /\ Allowed(v))
  <2>1. PICK b : b = BreakAt(v, e.tag, display)
    OBVIOUS
  <2>2. s = Bullet(b, e.tag, display)
    BY <1>3, <2>1 DEF Shape
  <2>3. Kept(v, b, Layout) /\ Same(v, b) /\ Sound(b)
    BY <2>1, BreakAtLaid, KeptLaid, LaidSame DEF Sound, Laid, Kept
  <2>4. Kept(b, s, Layout) /\ Same(b, s)
    BY <2>2, <2>3, BulletLaid, KeptLaid, LaidSame DEF Sound, Laid
  <2> QED BY <1>3, <2>3, <2>4, KeptOn, SameOn
<1> QED BY <1>1, <1>2, <1>3
-----------------------------------------------------------------------------
(***************************************************************************)
(* Start tags and end tags.                                                *)
(***************************************************************************)
Hides(v, e) == Computed(v, NodeOf(e), e.style).display = "none"

\* Where an element is hidden, its start tag only counts.
LEMMA StartInHidden ==
  ASSUME NEW v, Sound(v), v.raw = "", v.hid # <<>>, NEW e, NEW n, NEW w, w = StartTag(v, e, n)
  PROVE  /\ Sets(v, w, IF ~e.void /\ Len(v.hid) < StackCap THEN Append(v.hid, e.tag) ELSE v.hid,
                 v.raw, v.main, v.article)
         /\ Kept(v, w, Layout)
<1>1. w = HiddenStart(v, e)
  BY DEF StartTag
<1> QED BY <1>1, HiddenStartIs, HiddenKept

LEMMA CapPositive == 0 < StackCap
BY CapFacts

LEMMA StartHides ==
  ASSUME NEW v, Sound(v), v.raw = "", v.hid = <<>>, NEW e, Hides(v, e), NEW n,
         NEW w, w = StartTag(v, e, n)
  PROVE  /\ Sets(v, w, Append(v.hid, e.tag), v.raw, v.main, v.article)
         /\ Kept(v, w, Layout)
<1>1. PICK s : s = Append(v.hid, e.tag)
  OBVIOUS
<1>2. w = [v EXCEPT !.hid = s]
  BY <1>1 DEF StartTag, VisibleStart, Hides
<1>3. Len(v.hid) < StackCap
  <2>1. Sequence(v.hid)
    BY StackParts
  <2>2. v.hid = <<>> <=> Len(v.hid) = 0
    BY <2>1, SequenceFacts
  <2>3. Len(v.hid) = 0
    BY <2>2, Zenon
  <2>4. 0 < StackCap
    BY CapPositive
  <2> QED BY <2>3, <2>4, Zenon
<1>4. Kept(v, w, Layout)
  <2>1. Sequence(s) /\ Len(s) <= StackCap
    BY <1>1, <1>3, StackParts, PushFacts
  <2>2. Kept(v, [v EXCEPT !.hid = s], Layout)
    BY <2>1, StackFacts DEF Stacks
  <2> QED BY <1>2, <2>2, Zenon
<1>5. Sets(v, w, s, v.raw, v.main, v.article)
  BY <1>2, SetFlag
<1> QED BY <1>1, <1>4, <1>5

\* What a start tag does to the text.
StartText(v, w, e, n) ==
    IF TurnsTo(v, e.tag) THEN \E d : Dropped(v, d) /\ Kept(d, w, Layout)
    ELSE IF e.tag = "img" /\ Allowed(v) THEN Shown(v, w, Picture(e, n))
    ELSE Kept(v, w, Layout)

LEMMA StartShows ==
  ASSUME NEW v, Sound(v), v.raw = "", v.hid = <<>>, NEW e, e.rows \in Nat, ~Hides(v, e), NEW n,
         NEW w, w = StartTag(v, e, n)
  PROVE  /\ Sets(v, w, v.hid, IF e.tag \in RawTags THEN e.tag ELSE "",
                 MainSet(v, e.tag), ArticleSet(v, e.tag))
         /\ StartText(v, w, e, n)
<1>1. PICK c : c = Computed(v, NodeOf(e), e.style)
  OBVIOUS
<1>2. PICK t, y : t = TableStart(v, e) /\ y = ListStart(t, e)
  OBVIOUS
<1>3. PICK b, p, l, z : /\ b = Cell(y, e) /\ p = PushAncestor(b, e)
                        /\ l = LinkStart(p, e, c.style) /\ z = StyleStart(l, e, c.style)
  OBVIOUS
<1>4. PICK m, r : m = MainStart(z, e.tag) /\ r = RawStart(m, e.tag)
  OBVIOUS
<1>5. Kept(v, y, Layout) /\ Sound(y) /\ Same(v, y)
  <2>1. Kept(v, t, Layout) /\ Sound(t) /\ Same(v, t)
    BY <1>2, TableKept, StacksSame DEF Kept
  <2>2. Kept(t, y, Layout) /\ Sound(y) /\ Same(t, y)
    BY <1>2, <2>1, ListKept, StacksSame DEF Kept
  <2> QED BY <2>1, <2>2, KeptOn, SameOn
<1>6. Kept(v, z, Layout) /\ Sound(z) /\ Same(v, z)
  <2>1. Kept(y, b, Layout) /\ Sound(b) /\ Same(y, b)
    BY <1>3, <1>5, CellLaid, KeptLaid, LaidSame DEF Sound, Kept, Laid
  <2>2. Kept(b, p, Layout) /\ Sound(p) /\ Same(b, p)
    BY <1>3, <2>1, AncestorKept, StacksSame DEF Kept
  <2>3. Kept(p, l, Layout) /\ Sound(l) /\ Same(p, l)
    BY <1>3, <2>2, LinkStartKept, LinkSame DEF Kept
  <2>4. Kept(l, z, Layout) /\ Sound(z) /\ Same(l, z)
    BY <1>3, <2>3, StyleStartKept, StyleSame DEF Kept
  <2>5. Kept(v, b, Layout) /\ Same(v, b)
    BY <1>5, <2>1, KeptOn, SameOn
  <2>6. Kept(v, p, Layout) /\ Same(v, p)
    BY <2>2, <2>5, KeptOn, SameOn
  <2>7. Kept(v, l, Layout) /\ Same(v, l)
    BY <2>3, <2>6, KeptOn, SameOn
  <2> QED BY <2>4, <2>7, KeptOn, SameOn
<1>7. w = IF IsRow(y, e.tag) THEN Row(y) ELSE Shape(r, e, n, c.display)
  BY <1>1, <1>2, <1>3, <1>4 DEF StartTag, VisibleStart, Hides
<1>8. CASE IsRow(y, e.tag)
  <2>1. w = Row(y) /\ e.tag = "tr"
    BY <1>7, <1>8 DEF IsRow
  <2>2. Kept(v, w, Layout) /\ Same(v, w)
    BY <1>5, <2>1, RowLaid, KeptLaid, LaidSame, KeptOn, SameOn DEF Sound, Laid
  <2> QED BY <2>1, <2>2, SameSets DEF Sets, RawTags, MainSet, ArticleSet, StartText, TurnsTo
<1>9. CASE ~IsRow(y, e.tag)
  <2>1. w = Shape(r, e, n, c.display)
    BY <1>7, <1>9
  <2>2. /\ z.hid = v.hid /\ z.raw = v.raw /\ z.main = v.main /\ z.article = v.article
        /\ Allowed(z) = Allowed(v)
    BY <1>6, SameSets
  <2>3. Sets(z, m, z.hid, z.raw, MainSet(z, e.tag), ArticleSet(z, e.tag))
        /\ IF TurnsTo(z, e.tag) THEN Dropped(z, m) ELSE Kept(z, m, Layout)
    BY <1>4, <1>6, MainStartIs
  <2>4. Sound(m)
    BY <2>3 DEF Dropped, Kept
  <2>5. Kept(m, r, Layout) /\ Sound(r)
        /\ Sets(m, r, m.hid, IF e.tag \in RawTags THEN e.tag ELSE m.raw, m.main, m.article)
    BY <1>4, <2>4, RawStartKept, RawStartIs DEF Kept
  <2>6. Same(r, w) /\ IF e.tag = "img" /\ Allowed(r) THEN Shown(r, w, Picture(e, n))
                      ELSE Kept(r, w, Layout)
    BY <2>1, <2>5, ShapeIs
  <2>7. Sets(v, w, v.hid, IF e.tag \in RawTags THEN e.tag ELSE "",
             MainSet(v, e.tag), ArticleSet(v, e.tag))
    BY <2>2, <2>3, <2>5, <2>6, SameSets, ZenonT(60) DEF Sets, MainSet, ArticleSet
  <2>8. CASE TurnsTo(v, e.tag)
    <3>1. e.tag # "img" /\ Dropped(v, m)
      BY <1>6, <2>2, <2>3, <2>8 DEF TurnsTo, Dropped, Kept, Grown
    <3>2. Kept(m, w, Layout)
      BY <2>4, <2>5, <2>6, <3>1, KeptOn
    <3> QED BY <2>7, <2>8, <3>1, <3>2 DEF StartText
  <2>9. CASE ~TurnsTo(v, e.tag)
    <3>1. Kept(v, m, Layout)
      BY <1>6, <2>2, <2>3, <2>9, KeptOn DEF TurnsTo
    <3>2. Kept(v, r, Layout)
      BY <2>4, <2>5, <3>1, KeptOn
    <3>3. e.tag = "img" => Allowed(r) = Allowed(v)
      BY <2>2, <2>3, <2>5 DEF Sets, MainSet, ArticleSet, Allowed
    <3>4. CASE e.tag = "img" /\ Allowed(v)
      BY <2>5, <2>6, <2>7, <2>9, <3>2, <3>3, <3>4, KeptShown DEF StartText
    <3>5. CASE ~(e.tag = "img" /\ Allowed(v))
      BY <2>5, <2>6, <2>7, <2>9, <3>2, <3>3, <3>5, KeptOn DEF StartText
    <3> QED BY <3>4, <3>5
  <2> QED BY <2>8, <2>9
<1> QED BY <1>8, <1>9

\* The end tags: of an element whose text is raw, of one that is hidden, of any other.
LEMMA EndOfRaw ==
  ASSUME NEW v, Sound(v), NEW e, v.raw = e.tag, v.raw # "", NEW w, w = EndTag(v, e)
  PROVE  Sets(v, w, v.hid, "", v.main, v.article)
<1>1. w = EndRaw(v)
  BY DEF EndTag
<1> QED BY <1>1, EndRawIs

LEMMA EndOfHidden ==
  ASSUME NEW v, Sound(v), v.raw = "", v.hid # <<>>, NEW e, Top(v.hid) = e.tag,
         NEW w, w = EndTag(v, e)
  PROVE  Sets(v, w, Pop(v.hid), v.raw, v.main, v.article)
<1>1. w = HiddenEnd(v, e.tag)
  BY DEF EndTag
<1> QED BY <1>1, HiddenEndIs

LEMMA EndOfVisible ==
  ASSUME NEW v, Sound(v), v.raw = "", v.hid = <<>>, NEW e, NEW w, w = EndTag(v, e)
  PROVE  Sets(v, w, v.hid, v.raw,
              IF e.tag = "main" /\ v.main # "unseen" THEN "out" ELSE v.main,
              IF e.tag = "article" /\ v.main = "unseen" /\ v.article # "unseen" THEN "out"
              ELSE v.article)
<1>1. PICK y, c, t, z : /\ y = PopAncestor(v, e.tag) /\ c = Computed(y, BareNode(e), <<>>)
                        /\ t = TableEnd(y, e.tag) /\ z = ListEnd(t, e.tag)
  OBVIOUS
<1>2. PICK l, s, m, b : /\ l = LinkEnd(z, e.tag) /\ s = StyleEnd(l, e.tag)
                        /\ m = MainEnd(s, e.tag) /\ b = BreakAt(m, e.tag, c.display)
  OBVIOUS
<1>3. w = IF IsRow(z, e.tag) THEN Row(z) ELSE b
  BY <1>1, <1>2 DEF EndTag, VisibleEnd
<1>4. Sound(z) /\ Same(v, z)
  <2>1. Sound(y) /\ Same(v, y)
    BY <1>1, AncestorKept, StacksSame DEF Kept
  <2>2. Sound(t) /\ Same(y, t)
    BY <1>1, <2>1, TableKept, StacksSame DEF Kept
  <2>3. Sound(z) /\ Same(t, z)
    BY <1>1, <2>2, ListKept, StacksSame DEF Kept
  <2> QED BY <2>1, <2>2, <2>3, SameOn
<1>5. CASE IsRow(z, e.tag)
  <2>1. e.tag = "tr" /\ Same(z, w)
    BY <1>3, <1>4, <1>5, RowLaid, LaidSame DEF IsRow, Sound, Laid
  <2> QED BY <1>4, <2>1, SameOn, SameSets DEF Sets
<1>6. CASE ~IsRow(z, e.tag)
  <2>1. Sound(s) /\ Same(v, s)
    <3>1. Sound(l) /\ Same(z, l)
      BY <1>2, <1>4, LinkEndKept, LinkSame DEF Kept
    <3>2. Sound(s) /\ Same(l, s)
      BY <1>2, <3>1, StyleEndKept, StyleSame DEF Kept
    <3> QED BY <1>4, <3>1, <3>2, SameOn
  <2>2. Sound(m)
    BY <1>2, <2>1, MainEndKept DEF Kept
  <2>3. Same(m, b)
    BY <1>2, <2>2, BreakAtLaid, LaidSame DEF Sound, Laid
  <2>4. Sets(s, m, s.hid, s.raw,
             IF e.tag = "main" /\ s.main # "unseen" THEN "out" ELSE s.main,
             IF e.tag = "article" /\ s.main = "unseen" /\ s.article # "unseen" THEN "out"
             ELSE s.article)
    BY <1>2, <2>1, MainEndIs
  <2>5. w = b
    BY <1>3, <1>6
  <2> QED BY <2>1, <2>3, <2>4, <2>5, SameSets, ZenonT(60) DEF Sets
<1> QED BY <1>5, <1>6
-----------------------------------------------------------------------------
(***************************************************************************)
(* The text shows the characters and images of the set ms: only those, in  *)
(* order, and all of them unless the text is full.                         *)
(***************************************************************************)
Shows(v, ms) ==
    /\ \A k \in 1..Here(v) : v.out[k][2] = 0 \/ v.out[k][2] \in ms
    /\ \A n \in ms : \/ \E k \in 1..Here(v) : v.out[k][2] = n
                     \/ ~Roomy(v) /\ \A k \in 1..Here(v) : v.out[k][2] < n
    /\ \A k, m \in 1..Here(v) :
          k < m /\ v.out[k][2] # 0 /\ v.out[m][2] # 0 =>
              \/ v.out[k][2] < v.out[m][2]
              \/ \A j \in k..m : v.out[j] = v.out[k] /\ v.out[k][1] = "img"

LEMMA LayoutIds == \A c \in Layout : c[2] = 0
<1>1. \A k : <<k, 0>>[2] = 0
  OBVIOUS
<1> QED BY <1>1, Zenon DEF Layout, Space, Newline, Nbsp

LEMMA KeptShows ==
  ASSUME NEW v, Sound(v), NEW ms, NEW n \in Nat, ms \subseteq 1..n, Shows(v, ms),
         NEW w, Kept(v, w, Layout)
  PROVE  Shows(w, ms)
<1>1. /\ Here(v) \in Nat /\ Here(w) \in Nat /\ Here(v) <= Here(w) /\ OutCap \in Nat
      /\ \A k \in 1..Here(v) : w.out[k] = v.out[k]
  BY HereFacts, CapFacts DEF Kept, Grown, Sound
<1>2. \A k \in (Here(v) + 1)..Here(w) : w.out[k][2] = 0
  BY LayoutIds DEF Kept, Grown
<1>3. \A k \in 1..Here(w) : k \in 1..Here(v) \/ k \in (Here(v) + 1)..Here(w)
  BY <1>1
<1>4. \A k \in 1..Here(w) : w.out[k][2] = 0 \/ w.out[k][2] \in ms
  BY <1>1, <1>2, <1>3 DEF Shows
<1>5. ASSUME NEW p \in ms
      PROVE  \/ \E k \in 1..Here(w) : w.out[k][2] = p
             \/ ~Roomy(w) /\ \A k \in 1..Here(w) : w.out[k][2] < p
  <2>1. CASE \E k \in 1..Here(v) : v.out[k][2] = p
    <3>1. PICK k \in 1..Here(v) : v.out[k][2] = p
      BY <2>1
    <3>2. k \in 1..Here(w) /\ w.out[k][2] = p
      BY <1>1, <3>1
    <3> QED BY <3>2
  <2>2. CASE ~Roomy(v) /\ \A k \in 1..Here(v) : v.out[k][2] < p
    <3>1. ~Roomy(w)
      BY <1>1, <2>2 DEF Roomy
    <3>2. p \in 1..n
      OBVIOUS
    <3>3. \A k \in 1..Here(w) : w.out[k][2] < p
      BY <1>1, <1>2, <1>3, <2>2, <3>2
    <3> QED BY <3>1, <3>3
  <2> QED BY <2>1, <2>2 DEF Shows
<1>6. ASSUME NEW k \in 1..Here(w), NEW m \in 1..Here(w), k < m, w.out[k][2] # 0, w.out[m][2] # 0
      PROVE  \/ w.out[k][2] < w.out[m][2]
             \/ \A j \in k..m : w.out[j] = w.out[k] /\ w.out[k][1] = "img"
  <2>1. k \in 1..Here(v) /\ m \in 1..Here(v)
    BY <1>2, <1>3, <1>6
  <2>2. \A j \in k..m : j \in 1..Here(v)
    BY <1>1, <2>1
  <2>3. w.out[k] = v.out[k] /\ w.out[m] = v.out[m] /\ \A j \in k..m : w.out[j] = v.out[j]
    BY <1>1, <2>1, <2>2
  <2>4. \/ v.out[k][2] < v.out[m][2]
        \/ \A j \in k..m : v.out[j] = v.out[k] /\ v.out[k][1] = "img"
    BY <1>6, <2>1, <2>3 DEF Shows
  <2> QED BY <2>3, <2>4
<1> QED BY <1>4, <1>5, <1>6 DEF Shows

LEMMA ShownShows ==
  ASSUME NEW v, Sound(v), NEW n \in Nat \ {0}, NEW ms, ms \subseteq 1..(n - 1), Shows(v, ms),
         NEW w, NEW c, c[2] = n, Shown(v, w, c)
  PROVE  Shows(w, ms \cup {n})
<1>1. /\ Here(v) \in Nat /\ Here(w) \in Nat /\ OutCap \in Nat /\ Here(w) < OutCap
  BY HereFacts, CapFacts DEF Shown, Sound
<1>2. PICK f \in Nat, l \in Nat :
          /\ Here(v) <= f /\ f + l <= Here(w)
          /\ \A k \in 1..Here(v) : w.out[k] = v.out[k]
          /\ \A k \in (f + 1)..(f + l) : w.out[k] = c
          /\ \A k \in (Here(v) + 1)..Here(w) : k \in (f + 1)..(f + l) \/ w.out[k] \in Layout
          /\ l = 0 => ~Roomy(w)
          /\ l > 1 => c[1] = "img"
  BY DEF Shown
<1>3. ASSUME NEW k \in 1..Here(w)
      PROVE  \/ k \in 1..Here(v) /\ w.out[k] = v.out[k]
             \/ k \in (f + 1)..(f + l) /\ w.out[k] = c
             \/ w.out[k][2] = 0
  <2>1. k \in 1..Here(v) \/ k \in (Here(v) + 1)..Here(w)
    BY <1>1
  <2> QED BY <1>2, <2>1, LayoutIds
<1>4. \A p \in ms : p \in Nat /\ 0 < p /\ p < n
  OBVIOUS
<1>5. ASSUME NEW k \in 1..Here(v)
      PROVE  v.out[k][2] \in Nat /\ v.out[k][2] < n /\ (v.out[k][2] = 0 \/ v.out[k][2] \in ms)
  <2>1. v.out[k][2] = 0 \/ v.out[k][2] \in ms
    BY DEF Shows
  <2>2. 0 \in Nat /\ 0 < n
    OBVIOUS
  <2> QED BY <1>4, <2>1, <2>2
<1>6. \A k \in 1..Here(w) : w.out[k][2] = 0 \/ w.out[k][2] \in ms \cup {n}
  BY <1>3, <1>5
<1>7. ASSUME NEW p \in ms
      PROVE  \/ \E k \in 1..Here(w) : w.out[k][2] = p
             \/ ~Roomy(w) /\ \A k \in 1..Here(w) : w.out[k][2] < p
  <2>1. CASE \E k \in 1..Here(v) : v.out[k][2] = p
    <3>1. PICK k \in 1..Here(v) : v.out[k][2] = p
      BY <2>1
    <3>2. k \in 1..Here(w) /\ w.out[k][2] = p
      BY <1>1, <1>2, <3>1
    <3> QED BY <3>2
  <2>2. CASE ~Roomy(v) /\ \A k \in 1..Here(v) : v.out[k][2] < p
    <3>1. Here(w) = Here(v)
      BY <1>1, <1>2, <2>2 DEF Roomy
    <3>2. ~Roomy(w) /\ \A k \in 1..Here(w) : w.out[k][2] < p
      BY <1>2, <2>2, <3>1 DEF Roomy
    <3> QED BY <3>2
  <2> QED BY <2>1, <2>2 DEF Shows
<1>8. \/ \E k \in 1..Here(w) : w.out[k][2] = n
      \/ ~Roomy(w) /\ \A k \in 1..Here(w) : w.out[k][2] < n
  <2>1. CASE l = 0
    <3>1. \A k \in 1..Here(w) : w.out[k][2] < n
      BY <1>1, <1>2, <1>3, <1>5, <2>1
    <3> QED BY <1>2, <2>1, <3>1
  <2>2. CASE l # 0
    <3>1. f + 1 \in 1..Here(w) /\ f + 1 \in (f + 1)..(f + l)
      BY <1>1, <1>2, <2>2
    <3>2. w.out[f + 1][2] = n
      BY <1>2, <3>1
    <3> QED BY <3>1, <3>2
  <2> QED BY <2>1, <2>2
<1>9. ASSUME NEW k \in 1..Here(w), NEW m \in 1..Here(w), k < m, w.out[k][2] # 0, w.out[m][2] # 0
      PROVE  \/ w.out[k][2] < w.out[m][2]
             \/ \A j \in k..m : w.out[j] = w.out[k] /\ w.out[k][1] = "img"
  <2>1. CASE m \in 1..Here(v)
    <3>1. k \in 1..Here(v) /\ \A j \in k..m : j \in 1..Here(v)
      BY <1>1, <1>9, <2>1
    <3>2. w.out[k] = v.out[k] /\ w.out[m] = v.out[m] /\ \A j \in k..m : w.out[j] = v.out[j]
      BY <1>2, <2>1, <3>1
    <3>3. \/ v.out[k][2] < v.out[m][2]
          \/ \A j \in k..m : v.out[j] = v.out[k] /\ v.out[k][1] = "img"
      BY <1>9, <2>1, <3>1, <3>2 DEF Shows
    <3> QED BY <3>2, <3>3
  <2>2. CASE m \notin 1..Here(v)
    <3>1. m \in (f + 1)..(f + l) /\ w.out[m] = c
      BY <1>3, <1>9, <2>2
    <3>2. CASE k \in 1..Here(v)
      BY <1>2, <1>5, <3>1, <3>2
    <3>3. CASE k \notin 1..Here(v)
      <4>1. k \in (f + 1)..(f + l) /\ w.out[k] = c
        BY <1>3, <1>9, <3>3
      <4>2. l > 1 /\ \A j \in k..m : j \in (f + 1)..(f + l)
        BY <1>2, <1>9, <3>1, <4>1
      <4> QED BY <1>2, <4>1, <4>2
    <3> QED BY <3>2, <3>3
  <2> QED BY <2>1, <2>2
<1> QED BY <1>6, <1>7, <1>8, <1>9 DEF Shows

LEMMA DroppedShows ==
  ASSUME NEW v, NEW d, Dropped(v, d)
  PROVE  Shows(d, {})
<1>1. \A k \in 1..Here(d) : FALSE
  BY DEF Dropped
<1> QED BY <1>1 DEF Shows

\* What is put on the page once the document ends is still all of it.
LEMMA ShowsVisible ==
  ASSUME Sound(x), Sequence(written), Shows(x, Meant)
  PROVE  VisibleText
<1>1. /\ Sequence(x.out) /\ Here(x) = Len(x.out) /\ Here(x) \in Nat
      /\ DOMAIN written = 1..Len(written) /\ Len(written) \in Nat
  BY HereFacts, SequenceFacts DEF Sound, Proper, Here
<1>2. PICK t : t = Page.text
  OBVIOUS
<1>3. /\ DOMAIN t = 1..Len(t) /\ Len(t) \in Nat /\ Len(t) <= Here(x)
      /\ \A k \in 1..Len(t) : t[k] = x.out[k]
      /\ \A k \in 1..Here(x) : x.out[k] \notin {Space, Newline} => k <= Len(t)
  <2>1. t = TrimmedText(x.out)
    BY <1>2, FinishedFacts DEF Page
  <2> QED BY <1>1, <2>1, TrimmedFacts, SequenceFacts
<1>4. \A k \in 1..Here(x) : x.out[k][2] # 0 => k \in 1..Len(t)
  <2>1. \A k \in 1..Here(x) : x.out[k][2] # 0 => x.out[k] \notin {Space, Newline}
    BY LayoutIds, SpaceAndNewline, Zenon
  <2> QED BY <1>1, <1>3, <2>1
<1>5. \A k \in 1..Len(t) : k \in 1..Here(x)
  BY <1>1, <1>3
<1>6. PICK seen : seen = Ids(t)
  OBVIOUS
<1>7. \A i : i \in seen <=> i # 0 /\ \E k \in 1..Len(t) : t[k][2] = i
  BY <1>3, <1>6 DEF Ids
<1>8. seen \subseteq Meant
  BY <1>3, <1>5, <1>7 DEF Shows
<1>9. Meant \subseteq 1..Len(written)
  BY <1>1 DEF Meant
<1>10. ASSUME NEW n \in Meant \ seen
       PROVE  ~NotFull /\ \A m \in seen : m < n
  <2>1. n # 0
    BY <1>1, <1>9
  <2>2. ~\E k \in 1..Here(x) : x.out[k][2] = n
    BY <1>3, <1>4, <1>7, <1>10, <2>1
  <2>3. ~Roomy(x) /\ \A k \in 1..Here(x) : x.out[k][2] < n
    BY <1>10, <2>2 DEF Shows
  <2>4. \A m \in seen : m < n
    BY <1>3, <1>5, <1>7, <2>3
  <2> QED BY <2>3, <2>4 DEF NotFull, Roomy
<1>11. ASSUME NEW k \in 1..Len(t), NEW m \in 1..Len(t), k < m, t[k][2] # 0, t[m][2] # 0
       PROVE  \/ t[k][2] < t[m][2]
              \/ \A j \in k..m : t[j] = t[k] /\ t[k][1] = "img"
  <2>1. k \in 1..Here(x) /\ m \in 1..Here(x) /\ \A j \in k..m : j \in 1..Len(t)
    BY <1>3, <1>5
  <2>2. t[k] = x.out[k] /\ t[m] = x.out[m] /\ \A j \in k..m : t[j] = x.out[j]
    BY <1>3, <2>1
  <2>3. \/ x.out[k][2] < x.out[m][2]
        \/ \A j \in k..m : x.out[j] = x.out[k] /\ x.out[k][1] = "img"
    BY <1>11, <2>1, <2>2 DEF Shows
  <2> QED BY <2>2, <2>3
<1>12. /\ Ids(t) \subseteq Meant
       /\ \A n \in Meant \ Ids(t) : ~NotFull /\ \A m \in Ids(t) : m < n
       /\ \A k, m \in DOMAIN t :
             k < m /\ t[k][2] # 0 /\ t[m][2] # 0 =>
                 \/ t[k][2] < t[m][2]
                 \/ \A j \in k..m : t[j] = t[k] /\ t[k][1] = "img"
  BY <1>3, <1>6, <1>8, <1>10, <1>11
<1> QED BY <1>2, <1>12, ZenonT(60) DEF VisibleText
-----------------------------------------------------------------------------
(***************************************************************************)
(* Where the extractor is in the document: the elements open of which the  *)
(* outermost n are not hidden, and what its flags say of them.             *)
(***************************************************************************)
\* Outside of every element.
NoTag == ""

Above(o, k) == IF k = 0 THEN Outside ELSE o[k]

\* An element belongs to main or article from its own tag on, and neither is within itself.
Within(in, out) ==
    /\ {"hidden", "main", "article"} \subseteq DOMAIN in
    /\ in.hidden \in BOOLEAN /\ in.main \in BOOLEAN /\ in.article \in BOOLEAN
    /\ in.main <=> (out.main \/ in.e.tag = "main")
    /\ in.article <=> (out.article \/ in.e.tag = "article")
    /\ in.e.tag = "main" => ~out.main
    /\ in.e.tag = "article" => ~out.article

Nest(o, n) ==
    /\ Sequence(o) /\ n \in Nat /\ n <= Len(o)
    /\ \A k \in 1..Len(o) : /\ o[k].hidden <=> k > n
                            /\ k < Len(o) => o[k].e.tag \notin RawTags
                            /\ Within(o[k], Above(o, k - 1))

\* The elements hidden are on the stack, and the raw text is that of the last one open.
Counted(v, o, n) ==
    /\ Sequence(v.hid) /\ Len(v.hid) = Len(o) - n
    /\ \A k \in 1..Len(v.hid) : v.hid[k] = o[n + k].e.tag
    /\ v.raw = IF n = Len(o) /\ Above(o, n).e.tag \in RawTags THEN Above(o, n).e.tag ELSE NoTag

\* What main and article are to the extractor.
Parts(v, part, at) ==
    /\ part \in {"main", "article", "none"}
    /\ part = "main" => v.main = IF at.main THEN "in" ELSE "out"
    /\ part # "main" => v.main = "unseen" /\ ~at.main
    /\ part = "article" => v.article = IF at.article THEN "in" ELSE "out"
    /\ part = "none" => v.article = "unseen" /\ ~at.article

At(v, o, n, part) == Nest(o, n) /\ Counted(v, o, n) /\ Parts(v, part, Above(o, n))

LEMMA OutsideFacts ==
  /\ Outside.e.tag = NoTag /\ Outside.hidden = FALSE /\ Outside.main = FALSE
  /\ Outside.article = FALSE /\ {"hidden", "main", "article"} \subseteq DOMAIN Outside
  /\ NoTag \notin RawTags
BY DEF Outside, RawTags, NoTag

\* Inside what is hidden, and outside of it.
LEMMA AtFacts ==
  ASSUME NEW v, NEW o, NEW n, NEW part, At(v, o, n, part), NEW at, at = Above(o, Len(o))
  PROVE  /\ at.hidden \in BOOLEAN
         /\ at.hidden => /\ v.raw = NoTag /\ v.hid # <<>> /\ Top(v.hid) = at.e.tag /\ o # <<>>
                         /\ n < Len(o)
         /\ ~at.hidden => /\ v.raw = IF at.e.tag \in RawTags THEN at.e.tag ELSE NoTag
                          /\ v.hid = <<>> /\ n = Len(o) /\ Parts(v, part, at)
<1>1. /\ Sequence(o) /\ n \in Nat /\ n <= Len(o) /\ Len(o) \in Nat /\ (o = <<>> <=> Len(o) = 0)
      /\ Sequence(v.hid) /\ Len(v.hid) = Len(o) - n /\ (v.hid = <<>> <=> Len(v.hid) = 0)
  BY SequenceFacts DEF At, Nest, Counted
<1>2. at.hidden \in BOOLEAN /\ (at.hidden <=> n < Len(o))
  <2>1. CASE Len(o) = 0
    <3>1. at.hidden = FALSE
      BY <2>1, OutsideFacts DEF Above
    <3>2. ~(n < Len(o))
      BY <1>1, <2>1
    <3> QED BY <3>1, <3>2
  <2>2. CASE Len(o) # 0
    <3>1. at = o[Len(o)] /\ Len(o) \in 1..Len(o)
      BY <1>1, <2>2 DEF Above
    <3> QED BY <1>1, <3>1 DEF At, Nest, Within
  <2> QED BY <2>1, <2>2
<1>3. CASE at.hidden
  <2>1. n < Len(o) /\ Len(o) # 0 /\ n # Len(o)
    BY <1>1, <1>2, <1>3
  <2>2. v.raw = NoTag
    BY <2>1 DEF At, Counted
  <2>4. v.hid # <<>> /\ o # <<>>
    <3>1. Len(v.hid) # 0
      BY <1>1, <2>1
    <3> QED BY <1>1, <2>1, <3>1
  <2>3. Top(v.hid) = at.e.tag
    <3>1. Len(v.hid) \in 1..Len(v.hid) /\ n + Len(v.hid) = Len(o) /\ at = o[Len(o)]
      BY <1>1, <2>1 DEF Above
    <3> QED BY <3>1 DEF At, Counted, Top
  <2> QED BY <1>2, <1>3, <2>1, <2>2, <2>3, <2>4
<1>4. CASE ~at.hidden
  <2>1. n = Len(o) /\ v.hid = <<>>
    BY <1>1, <1>2, <1>4
  <2> QED BY <1>2, <1>4, <2>1 DEF At, Counted
<1> QED BY <1>2, <1>3, <1>4

\* Text is allowed where it is not aside.
LEMMA AllowedIs ==
  ASSUME NEW v, NEW part, NEW at, Parts(v, part, at)
  PROVE  Allowed(v) <=> ~((part = "main" /\ ~at.main) \/ (part = "article" /\ ~at.article))
BY DEF Parts, Allowed

LEMMA AtSame ==
  ASSUME NEW v, NEW o, NEW n, NEW part, At(v, o, n, part), NEW w, Same(v, w)
  PROVE  At(w, o, n, part)
BY SameSets DEF At, Counted, Parts

\* One more element.
Push(o, in) == Append(o, in)

\* What is in a hidden element is hidden.
Fits(o, n, in)   == n < Len(o) => in.hidden
Grows(n, in, m)  == m = IF in.hidden THEN n ELSE n + 1

LEMMA NestPush ==
  ASSUME NEW o, NEW n, Nest(o, n), NEW in,
         Within(in, Above(o, Len(o))), Above(o, Len(o)).e.tag \notin RawTags,
         Fits(o, n, in), NEW u, u = Push(o, in),
         NEW m, Grows(n, in, m)
  PROVE  /\ Nest(u, m) /\ Len(u) = Len(o) + 1 /\ u[Len(o) + 1] = in
         /\ \A k \in 0..Len(o) : Above(u, k) = Above(o, k)
<1>0. m = IF in.hidden THEN n ELSE n + 1
  BY DEF Grows
<1>1. /\ Sequence(o) /\ n \in Nat /\ n <= Len(o) /\ Len(o) \in Nat
  BY SequenceFacts DEF Nest
<1>2. /\ Sequence(u) /\ Len(u) = Len(o) + 1 /\ u[Len(o) + 1] = in
      /\ \A k \in 1..Len(o) : u[k] = o[k]
  BY <1>1, AppendFacts DEF Push
<1>3. \A k \in 0..Len(o) : Above(u, k) = Above(o, k)
  BY <1>1, <1>2 DEF Above
<1>4. m \in Nat /\ m <= Len(u) /\ (~in.hidden => n = Len(o) /\ m = Len(o) + 1)
        /\ (in.hidden => m = n)
  BY <1>0, <1>1, <1>2 DEF Fits
<1>5. ASSUME NEW k \in 1..Len(u)
      PROVE  /\ u[k].hidden <=> k > m
             /\ k < Len(u) => u[k].e.tag \notin RawTags
             /\ Within(u[k], Above(u, k - 1))
  <2>1. CASE k = Len(o) + 1
    <3>1. u[k] = in /\ Above(u, k - 1) = Above(o, Len(o)) /\ ~(k < Len(u))
      BY <1>1, <1>2, <1>3, <2>1
    <3>2. in.hidden <=> k > m
      BY <1>1, <1>4, <2>1 DEF Within
    <3> QED BY <3>1, <3>2
  <2>2. CASE k # Len(o) + 1
    <3>1. k \in 1..Len(o) /\ u[k] = o[k] /\ Above(u, k - 1) = Above(o, k - 1)
      BY <1>1, <1>2, <1>3, <2>2
    <3>2. k > m <=> k > n
      BY <1>1, <1>4, <3>1
    <3>3. k = Len(o) => u[k] = Above(o, Len(o))
      BY <1>1, <3>1 DEF Above
    <3>4. k < Len(o) \/ k = Len(o)
      BY <1>1, <3>1
    <3>5. u[k].e.tag \notin RawTags
      BY <3>1, <3>3, <3>4 DEF Nest
    <3> QED BY <3>1, <3>2, <3>5 DEF Nest
  <2> QED BY <2>1, <2>2
<1>6. Nest(u, m)
  BY <1>2, <1>4, <1>5 DEF Nest
<1> QED BY <1>0, <1>2, <1>3, <1>6

\* One less.
LEMMA NestPop ==
  ASSUME NEW o, NEW n, Nest(o, n), o # <<>>, NEW u, u = Pop(o),
         NEW m, m = IF n = Len(o) THEN n - 1 ELSE n
  PROVE  /\ Nest(u, m) /\ Len(u) = Len(o) - 1 /\ Above(u, Len(u)).e.tag \notin RawTags
         /\ \A k \in 0..Len(u) : Above(u, k) = Above(o, k)
<1>1. /\ Sequence(o) /\ n \in Nat /\ n <= Len(o) /\ Len(o) \in Nat /\ Len(o) # 0
  BY SequenceFacts DEF Nest
<1>2. /\ Sequence(u) /\ Len(u) = Len(o) - 1
      /\ \A k \in 1..Len(u) : u[k] = o[k]
  BY <1>1, PopFacts
<1>3. \A k \in 0..Len(u) : Above(u, k) = Above(o, k)
  BY <1>1, <1>2 DEF Above
<1>4. m \in Nat /\ m <= Len(u) /\ Len(u) \in Nat
  BY <1>1, <1>2
<1>5. ASSUME NEW k \in 1..Len(u)
      PROVE  /\ u[k].hidden <=> k > m
             /\ u[k].e.tag \notin RawTags
             /\ Within(u[k], Above(u, k - 1))
  <2>1. k \in 1..Len(o) /\ k < Len(o) /\ u[k] = o[k] /\ Above(u, k - 1) = Above(o, k - 1)
    BY <1>1, <1>2, <1>3
  <2>2. k > m <=> k > n
    BY <1>1, <1>2, <2>1
  <2> QED BY <2>1, <2>2 DEF Nest
<1>6. Above(u, Len(u)).e.tag \notin RawTags
  <2>1. CASE Len(u) = 0
    BY <2>1, OutsideFacts DEF Above
  <2>2. CASE Len(u) # 0
    <3>1. Len(u) \in 1..Len(u) /\ Above(u, Len(u)) = u[Len(u)]
      BY <1>4, <2>2 DEF Above
    <3> QED BY <1>5, <3>1
  <2> QED BY <2>1, <2>2
<1> QED BY <1>2, <1>3, <1>4, <1>5, <1>6 DEF Nest

LEMMA RawOf ==
  ASSUME NEW v, NEW o, NEW n, NEW part, At(v, o, n, part), Above(o, Len(o)).e.tag \notin RawTags
  PROVE  v.raw = NoTag
BY DEF At, Counted

\* The start tag of an element that is hidden.
LEMMA AtHidden ==
  ASSUME NEW v, NEW o, NEW n, NEW part, At(v, o, n, part),
         NEW in, in.hidden,
         Within(in, Above(o, Len(o))), Above(o, Len(o)).e.tag \notin RawTags,
         NEW w, Sets(v, w, Push(v.hid, in.e.tag), v.raw, v.main, v.article),
         NEW u, u = Push(o, in)
  PROVE  At(w, u, n, part)
<1>1. /\ Nest(u, n) /\ Len(u) = Len(o) + 1 /\ u[Len(o) + 1] = in
      /\ \A k \in 0..Len(o) : Above(u, k) = Above(o, k)
  <2>1. Nest(o, n) /\ Fits(o, n, in) /\ Grows(n, in, n)
    BY DEF At, Fits, Grows
  <2>2. Nest(u, n) /\ Len(u) = Len(o) + 1 /\ u[Len(o) + 1] = in
    BY <2>1, NestPush
  <2>3. \A k \in 0..Len(o) : Above(u, k) = Above(o, k)
    BY <2>1, NestPush
  <2> QED BY <2>2, <2>3
<1>2. /\ Sequence(o) /\ n \in Nat /\ n <= Len(o) /\ Len(o) \in Nat
      /\ Sequence(v.hid) /\ Len(v.hid) = Len(o) - n
      /\ \A k \in 1..Len(v.hid) : v.hid[k] = o[n + k].e.tag
  BY SequenceFacts DEF At, Nest, Counted
<1>3. PICK h : h = Push(v.hid, in.e.tag)
  OBVIOUS
<1>4. /\ Sequence(h) /\ Len(h) = Len(v.hid) + 1 /\ h[Len(v.hid) + 1] = in.e.tag
      /\ \A k \in 1..Len(v.hid) : h[k] = v.hid[k]
  BY <1>2, <1>3, AppendFacts DEF Push
<1>5. ASSUME NEW k \in 1..Len(h) PROVE h[k] = u[n + k].e.tag
  <2>1. CASE k = Len(v.hid) + 1
    <3>1. n + k = Len(o) + 1
      BY <1>2, <2>1
    <3> QED BY <1>1, <1>4, <2>1, <3>1
  <2>2. CASE k # Len(v.hid) + 1
    <3>1. k \in 1..Len(v.hid) /\ n + k \in 0..Len(o) /\ n + k # 0
      BY <1>2, <1>4, <2>2
    <3>2. u[n + k] = o[n + k]
      BY <1>1, <3>1 DEF Above
    <3> QED BY <1>2, <1>4, <3>1, <3>2
  <2> QED BY <2>1, <2>2
<1>6. w.hid = h /\ w.raw = NoTag /\ w.main = v.main /\ w.article = v.article
  BY <1>3, RawOf DEF Sets
<1>7. Len(h) = Len(u) - n /\ n # Len(u) /\ Above(u, n) = Above(o, n)
  BY <1>1, <1>2, <1>4
<1>8. Counted(w, u, n)
  BY <1>4, <1>5, <1>6, <1>7 DEF Counted
<1>9. Parts(w, part, Above(u, n))
  BY <1>6, <1>7 DEF At, Parts
<1> QED BY <1>1, <1>8, <1>9 DEF At

\* What the page is taken from when a start tag is shown.
Turned(part, tag) ==
    CASE tag = "main" -> "main"
      [] tag = "article" /\ part = "none" -> "article"
      [] OTHER -> part

LEMMA PartsIn ==
  ASSUME NEW v, NEW part, NEW at, Parts(v, part, at), NEW in, Within(in, at), NEW w,
         w.main = MainSet(v, in.e.tag), w.article = ArticleSet(v, in.e.tag)
  PROVE  Parts(w, Turned(part, in.e.tag), in)
<1>1. PICK t : t = in.e.tag
  OBVIOUS
<1>2. w.main = MainSet(v, t) /\ w.article = ArticleSet(v, t)
  BY <1>1
<1>3. (in.main <=> (at.main \/ t = "main")) /\ (in.article <=> (at.article \/ t = "article"))
  BY <1>1 DEF Within
<1>4. CASE t = "main"
  BY <1>2, <1>3, <1>4 DEF Parts, Turned, MainSet, ArticleSet
<1>5. CASE t = "article"
  BY <1>2, <1>3, <1>5 DEF Parts, Turned, MainSet, ArticleSet
<1>6. CASE t # "main" /\ t # "article"
  BY <1>2, <1>3, <1>6 DEF Parts, Turned, MainSet, ArticleSet
<1> QED BY <1>4, <1>5, <1>6

LEMMA AtShown ==
  ASSUME NEW v, NEW o, NEW n, NEW part, At(v, o, n, part), ~(n < Len(o)),
         NEW in, ~in.hidden,
         Within(in, Above(o, Len(o))), Above(o, Len(o)).e.tag \notin RawTags,
         NEW w, Sets(v, w, v.hid, IF in.e.tag \in RawTags THEN in.e.tag ELSE NoTag,
                     MainSet(v, in.e.tag), ArticleSet(v, in.e.tag)),
         NEW u, u = Push(o, in)
  PROVE  At(w, u, n + 1, Turned(part, in.e.tag))
<1>0. /\ Sequence(o) /\ n \in Nat /\ n <= Len(o) /\ Len(o) \in Nat /\ n = Len(o)
      /\ Sequence(v.hid) /\ Len(v.hid) = Len(o) - n
  <2>1. /\ Sequence(o) /\ n \in Nat /\ n <= Len(o) /\ Len(o) \in Nat
        /\ Sequence(v.hid) /\ Len(v.hid) = Len(o) - n
    BY SequenceFacts DEF At, Nest, Counted
  <2> QED BY <2>1
<1>1. Nest(u, n + 1) /\ Len(u) = Len(o) + 1 /\ u[Len(o) + 1] = in
  <2>1. Nest(o, n) /\ Fits(o, n, in) /\ Grows(n, in, n + 1)
    BY DEF At, Fits, Grows
  <2> QED BY <2>1, NestPush
<1>2. Above(u, n + 1) = in /\ n + 1 = Len(u)
  BY <1>0, <1>1 DEF Above
<1>3. Sequence(v.hid) /\ Len(v.hid) = 0
  BY <1>0
<1>4. /\ w.hid = v.hid /\ w.raw = IF in.e.tag \in RawTags THEN in.e.tag ELSE NoTag
      /\ w.main = MainSet(v, in.e.tag) /\ w.article = ArticleSet(v, in.e.tag)
  BY DEF Sets
<1>5. Counted(w, u, n + 1)
  <2>1. Len(w.hid) = Len(u) - (n + 1) /\ \A k \in 1..Len(w.hid) : FALSE
    BY <1>0, <1>1, <1>2, <1>3, <1>4
  <2> QED BY <1>2, <1>3, <1>4, <2>1 DEF Counted
<1>6. Parts(w, Turned(part, in.e.tag), in)
  <2>1. Parts(v, part, Above(o, Len(o)))
    BY <1>0 DEF At
  <2> QED BY <1>4, <2>1, PartsIn
<1> QED BY <1>1, <1>2, <1>5, <1>6 DEF At

\* The end tags.
LEMMA AtHiddenEnd ==
  ASSUME NEW v, NEW o, NEW n, NEW part, At(v, o, n, part), n < Len(o), o # <<>>,
         NEW w, Sets(v, w, Pop(v.hid), v.raw, v.main, v.article), NEW u, u = Pop(o)
  PROVE  At(w, u, n, part)
<1>1. /\ Sequence(o) /\ n \in Nat /\ n <= Len(o) /\ Len(o) \in Nat /\ n # Len(o)
      /\ Sequence(v.hid) /\ Len(v.hid) = Len(o) - n /\ Len(v.hid) # 0
      /\ \A k \in 1..Len(v.hid) : v.hid[k] = o[n + k].e.tag
      /\ v.raw = NoTag
  <2>1. /\ Sequence(o) /\ n \in Nat /\ n <= Len(o) /\ Len(o) \in Nat
        /\ Sequence(v.hid) /\ Len(v.hid) = Len(o) - n
        /\ \A k \in 1..Len(v.hid) : v.hid[k] = o[n + k].e.tag
    BY SequenceFacts DEF At, Nest, Counted
  <2>2. n # Len(o) /\ Len(v.hid) # 0
    BY <2>1
  <2>3. v.raw = NoTag
    BY <2>2 DEF At, Counted
  <2> QED BY <2>1, <2>2, <2>3
<1>2. /\ Nest(u, n) /\ Len(u) = Len(o) - 1 /\ Above(u, Len(u)).e.tag \notin RawTags
      /\ \A k \in 0..Len(u) : Above(u, k) = Above(o, k)
  BY <1>1, NestPop DEF At
<1>3. PICK h : h = Pop(v.hid)
  OBVIOUS
<1>4. /\ Sequence(h) /\ Len(h) = Len(v.hid) - 1
      /\ \A k \in 1..(Len(v.hid) - 1) : h[k] = v.hid[k]
  <2>1. v.hid # <<>>
    BY <1>1, SequenceFacts
  <2> QED BY <1>1, <1>3, <2>1, PopFacts
<1>5. ASSUME NEW k \in 1..Len(h) PROVE h[k] = u[n + k].e.tag
  <2>1. k \in 1..Len(v.hid) /\ k \in 1..(Len(v.hid) - 1) /\ n + k \in 0..Len(u) /\ n + k # 0
    BY <1>1, <1>2, <1>4
  <2>2. u[n + k] = o[n + k]
    BY <1>2, <2>1 DEF Above
  <2> QED BY <1>1, <1>4, <2>1, <2>2
<1>6. w.hid = h /\ w.raw = NoTag /\ w.main = v.main /\ w.article = v.article
  BY <1>1, <1>3 DEF Sets
<1>7. Len(h) = Len(u) - n /\ n \in 0..Len(u)
  BY <1>1, <1>2, <1>4
<1>8. Counted(w, u, n)
  <2>1. ~(n = Len(u) /\ Above(u, n).e.tag \in RawTags)
    BY <1>2
  <2> QED BY <1>4, <1>5, <1>6, <1>7, <2>1 DEF Counted
<1>9. Parts(w, part, Above(u, n))
  BY <1>2, <1>6, <1>7 DEF At, Parts
<1> QED BY <1>2, <1>8, <1>9 DEF At

LEMMA PartsOut ==
  ASSUME NEW v, NEW part, NEW in, Parts(v, part, in), NEW at, Within(in, at), NEW w,
         w.main = IF in.e.tag = "main" /\ v.main # "unseen" THEN "out" ELSE v.main,
         w.article = IF in.e.tag = "article" /\ v.main = "unseen" /\ v.article # "unseen"
                     THEN "out" ELSE v.article
  PROVE  Parts(w, part, at)
<1>1. PICK t : t = in.e.tag
  OBVIOUS
<1>2. /\ w.main = IF t = "main" /\ v.main # "unseen" THEN "out" ELSE v.main
      /\ w.article = IF t = "article" /\ v.main = "unseen" /\ v.article # "unseen" THEN "out"
                     ELSE v.article
  BY <1>1
<1>3. /\ (in.main <=> (at.main \/ t = "main")) /\ (in.article <=> (at.article \/ t = "article"))
      /\ (t = "main" => ~at.main) /\ (t = "article" => ~at.article)
  BY <1>1 DEF Within
<1>4. CASE t = "main"
  BY <1>2, <1>3, <1>4 DEF Parts
<1>5. CASE t = "article"
  BY <1>2, <1>3, <1>5 DEF Parts
<1>6. CASE t # "main" /\ t # "article"
  BY <1>2, <1>3, <1>6 DEF Parts
<1> QED BY <1>4, <1>5, <1>6

LEMMA AtShownEnd ==
  ASSUME NEW v, NEW o, NEW n, NEW part, At(v, o, n, part), ~(n < Len(o)), o # <<>>,
         NEW w, NEW tag, tag = Above(o, Len(o)).e.tag,
         Sets(v, w, v.hid, NoTag,
              IF tag = "main" /\ v.main # "unseen" THEN "out" ELSE v.main,
              IF tag = "article" /\ v.main = "unseen" /\ v.article # "unseen" THEN "out"
              ELSE v.article),
         NEW u, u = Pop(o)
  PROVE  At(w, u, n - 1, part)
<1>1. /\ Sequence(o) /\ n \in Nat /\ Len(o) \in Nat /\ Len(o) # 0 /\ n = Len(o)
      /\ Sequence(v.hid) /\ Len(v.hid) = 0
  <2>1. /\ Sequence(o) /\ n \in Nat /\ n <= Len(o) /\ Len(o) \in Nat /\ Len(o) # 0
        /\ Sequence(v.hid) /\ Len(v.hid) = Len(o) - n
    BY SequenceFacts DEF At, Nest, Counted
  <2> QED BY <2>1
<1>2. /\ Nest(u, n - 1) /\ Len(u) = Len(o) - 1 /\ Above(u, Len(u)).e.tag \notin RawTags
      /\ \A k \in 0..Len(u) : Above(u, k) = Above(o, k)
  <2>1. Nest(o, n) /\ n - 1 = IF n = Len(o) THEN n - 1 ELSE n
    BY <1>1 DEF At
  <2> QED BY <2>1, NestPop
<1>3. w.hid = v.hid /\ w.raw = NoTag
  BY DEF Sets
<1>4. n - 1 = Len(u) /\ Len(w.hid) = Len(u) - (n - 1) /\ \A k \in 1..Len(w.hid) : FALSE
  BY <1>1, <1>2, <1>3
<1>5. Counted(w, u, n - 1)
  BY <1>1, <1>2, <1>3, <1>4 DEF Counted
<1>6. Above(u, n - 1) = Above(o, n - 1) /\ Above(o, n) = o[n] /\ n \in 1..Len(o)
  BY <1>1, <1>2, <1>4 DEF Above
<1>7. Within(o[n], Above(o, n - 1)) /\ Parts(v, part, o[n]) /\ o[n].e.tag = tag
  BY <1>6 DEF At, Nest
<1>8. Parts(w, part, Above(o, n - 1))
  BY <1>7, PartsOut DEF Sets
<1> QED BY <1>2, <1>5, <1>6, <1>8 DEF At
-----------------------------------------------------------------------------
(***************************************************************************)
(* What the document means to be seen, as it grows.                        *)
(***************************************************************************)
IsAside(part, place) == (part = "main" /\ ~place.main) \/ (part = "article" /\ ~place.article)

MeantOf(ws, part) == {k \in DOMAIN ws : ~ws[k].hidden /\ ~IsAside(part, ws[k])}

\* Nothing seen is in main or in an article before the page is taken from one.
Early(r, part) ==
    ~r.hidden => (part # "main" => ~r.main) /\ (part = "none" => ~r.article)

AllEarly(ws, part) == \A k \in DOMAIN ws : Early(ws[k], part)

\* us is ws and r.
OneMore(ws, us, r) ==
    /\ Sequence(us) /\ Len(us) = Len(ws) + 1 /\ us[Len(ws) + 1] = r
    /\ \A k \in 1..Len(ws) : us[k] = ws[k]

LEMMA MeantRange ==
  ASSUME NEW ws, Sequence(ws), NEW part
  PROVE  Len(ws) \in Nat /\ MeantOf(ws, part) \subseteq 1..Len(ws)
BY SequenceFacts DEF MeantOf

LEMMA MeantMore ==
  ASSUME NEW ws, Sequence(ws), NEW us, NEW r, OneMore(ws, us, r), NEW part
  PROVE  /\ r.hidden \/ IsAside(part, r) => MeantOf(us, part) = MeantOf(ws, part)
         /\ ~(r.hidden \/ IsAside(part, r)) =>
                MeantOf(us, part) = MeantOf(ws, part) \cup {Len(ws) + 1}
         /\ AllEarly(ws, part) /\ Early(r, part) => AllEarly(us, part)
<1>1. /\ DOMAIN ws = 1..Len(ws) /\ Len(ws) \in Nat /\ DOMAIN us = 1..(Len(ws) + 1)
      /\ us[Len(ws) + 1] = r /\ \A k \in 1..Len(ws) : us[k] = ws[k]
  BY SequenceFacts DEF OneMore
<1>2. \A k \in DOMAIN us : k \in 1..Len(ws) \/ k = Len(ws) + 1
  BY <1>1
<1>3. \A k \in 1..Len(ws) : k \in DOMAIN us /\ k \in DOMAIN ws
  BY <1>1
<1>4. Len(ws) + 1 \in DOMAIN us
  BY <1>1
<1>5. \A k : k \in MeantOf(ws, part) <=> k \in 1..Len(ws) /\ ~ws[k].hidden /\ ~IsAside(part, ws[k])
  BY <1>1 DEF MeantOf
<1>6. \A k : k \in MeantOf(us, part) <=> k \in DOMAIN us /\ ~us[k].hidden /\ ~IsAside(part, us[k])
  BY DEF MeantOf
<1>7. ASSUME r.hidden \/ IsAside(part, r) PROVE MeantOf(us, part) = MeantOf(ws, part)
  <2>1. \A k : k \in MeantOf(us, part) <=> k \in MeantOf(ws, part)
    BY <1>1, <1>2, <1>3, <1>5, <1>6, <1>7
  <2> QED BY <2>1
<1>8. ASSUME ~(r.hidden \/ IsAside(part, r))
      PROVE  MeantOf(us, part) = MeantOf(ws, part) \cup {Len(ws) + 1}
  <2>1. \A k : k \in MeantOf(us, part) <=> k \in MeantOf(ws, part) \/ k = Len(ws) + 1
    BY <1>1, <1>2, <1>3, <1>4, <1>5, <1>6, <1>8
  <2> QED BY <2>1
<1>9. ASSUME AllEarly(ws, part), Early(r, part) PROVE AllEarly(us, part)
  BY <1>1, <1>2, <1>3, <1>9 DEF AllEarly
<1> QED BY <1>7, <1>8, <1>9

\* When the page is taken from another part, nothing so far is meant to be seen.
LEMMA MeantTurned ==
  ASSUME NEW ws, NEW part, AllEarly(ws, part), NEW tag,
         part \in {"main", "article", "none"},
         \/ tag = "main" /\ part # "main"
         \/ tag = "article" /\ part = "none"
  PROVE  MeantOf(ws, Turned(part, tag)) = {} /\ AllEarly(ws, Turned(part, tag))
<1>1. CASE tag = "main" /\ part # "main"
  BY <1>1 DEF MeantOf, IsAside, AllEarly, Early, Turned
<1>2. CASE tag = "article" /\ part = "none"
  BY <1>2 DEF MeantOf, IsAside, AllEarly, Early, Turned
<1> QED BY <1>1, <1>2

-----------------------------------------------------------------------------
(***************************************************************************)
(* The extractor follows the document.                                     *)
(***************************************************************************)
Followed(v, ws, o, part) ==
    /\ Sound(v) /\ Sequence(ws)
    /\ \E n : At(v, o, n, part)
    /\ AllEarly(ws, part)
    /\ Shows(v, MeantOf(ws, part))

\* A step that only writes layout.
LEMMA FollowedLaid ==
  ASSUME NEW v, NEW ws, NEW o, NEW part, Followed(v, ws, o, part),
         NEW w, Kept(v, w, Layout), NEW u, \E m : At(w, u, m, part)
  PROVE  Followed(w, ws, u, part)
<1>1. PICK n, ms : n = Len(ws) /\ ms = MeantOf(ws, part)
  OBVIOUS
<1>2. n \in Nat /\ ms \subseteq 1..n /\ Sound(v) /\ Shows(v, ms)
  BY <1>1, MeantRange DEF Followed
<1>3. Shows(w, ms)
  BY <1>2, KeptShows
<1>4. Sound(w)
  BY DEF Kept
<1> QED BY <1>1, <1>3, <1>4 DEF Followed

\* A step that adds to the document what is not meant to be seen.
LEMMA FollowedUnseen ==
  ASSUME NEW v, NEW ws, NEW o, NEW part, Followed(v, ws, o, part),
         NEW w, Kept(v, w, Layout), NEW u, \E m : At(w, u, m, part),
         NEW us, NEW r, OneMore(ws, us, r), r.hidden \/ IsAside(part, r), Early(r, part)
  PROVE  Followed(w, us, u, part)
<1>1. Followed(w, ws, u, part)
  BY FollowedLaid
<1>2. MeantOf(us, part) = MeantOf(ws, part) /\ AllEarly(us, part) /\ Sequence(us)
  BY <1>1, MeantMore DEF Followed, OneMore
<1> QED BY <1>1, <1>2 DEF Followed

\* A step that adds to the document what is, and shows it.
LEMMA FollowedShown ==
  ASSUME NEW v, NEW ws, NEW o, NEW part, Followed(v, ws, o, part),
         NEW w, NEW c, c[2] = Len(ws) + 1, Shown(v, w, c), NEW u, \E m : At(w, u, m, part),
         NEW us, NEW r, OneMore(ws, us, r), ~(r.hidden \/ IsAside(part, r)), Early(r, part)
  PROVE  Followed(w, us, u, part)
<1>1. PICK n, ms : n = Len(ws) + 1 /\ ms = MeantOf(ws, part)
  OBVIOUS
<1>2. n \in Nat \ {0} /\ ms \subseteq 1..(n - 1) /\ Sound(v) /\ Shows(v, ms) /\ c[2] = n
  <2>1. Len(ws) \in Nat /\ ms \subseteq 1..Len(ws) /\ Sound(v) /\ Shows(v, ms)
    BY <1>1, MeantRange DEF Followed
  <2>2. n - 1 = Len(ws) /\ n \in Nat \ {0}
    BY <1>1, <2>1
  <2> QED BY <1>1, <2>1, <2>2
<1>3. Shows(w, ms \cup {n})
  BY <1>2, ShownShows
<1>4. MeantOf(us, part) = ms \cup {n} /\ AllEarly(us, part) /\ Sequence(us)
  BY <1>1, MeantMore DEF Followed, OneMore
<1>5. Sound(w)
  BY DEF Shown
<1> QED BY <1>3, <1>4, <1>5 DEF Followed

\* A start tag that turns the page to another part of the document.
LEMMA FollowedTurned ==
  ASSUME NEW v, NEW ws, NEW o, NEW part, Followed(v, ws, o, part), NEW tag,
         part \in {"main", "article", "none"},
         \/ tag = "main" /\ part # "main"
         \/ tag = "article" /\ part = "none",
         NEW d, Dropped(v, d), NEW w, Kept(d, w, Layout),
         NEW u, \E m : At(w, u, m, Turned(part, tag))
  PROVE  Followed(w, ws, u, Turned(part, tag))
<1>1. MeantOf(ws, Turned(part, tag)) = {} /\ AllEarly(ws, Turned(part, tag))
  BY MeantTurned DEF Followed
<1>2. Sound(d) /\ Shows(d, {})
  BY DroppedShows DEF Dropped
<1>3. Shows(w, {})
  <2>1. {} \subseteq 1..0 /\ 0 \in Nat
    OBVIOUS
  <2> QED BY <1>2, <2>1, KeptShows
<1>4. Sound(w)
  BY DEF Kept
<1> QED BY <1>1, <1>3, <1>4 DEF Followed
-----------------------------------------------------------------------------
(***************************************************************************)
(* The steps.                                                              *)
(***************************************************************************)
\* The kinds of document that would be shown wrongly are left out.
Tame == Awkward \cap {"hidden void", "comment in hidden", "deep", "entity outside",
                      "article in article"} = {}

\* Neither main nor raw text is written without an end tag.
Closed == \A e \in Elements : e.void => e.tag \notin RawTags \cup {"main", "article"}

LEMMA AroundIs ==
  ASSUME Sequence(open)
  PROVE  Around = Above(open, Len(open))
<1>1. open = <<>> <=> Len(open) = 0
  BY SequenceFacts
<1> QED BY <1>1 DEF Around, Above, Top

\* Where characters stand.
LEMMA PlaceIs ==
  ASSUME NEW n, NEW part, At(x, open, n, part)
  PROVE  /\ Sequence(open) /\ Around = Above(open, Len(open))
         /\ Place.hidden <=> Around.hidden \/ InRaw
         /\ Place.main = Around.main /\ Place.article = Around.article
<1>1. Sequence(open) /\ Len(open) \in Nat
  BY SequenceFacts DEF At, Nest
<1>2. Around = Above(open, Len(open))
  BY <1>1, AroundIs
<1>3. {"hidden", "main", "article"} \subseteq DOMAIN Around
  <2>1. CASE Len(open) = 0
    BY <1>2, <2>1, OutsideFacts DEF Above
  <2>2. CASE Len(open) # 0
    <3>1. Len(open) \in 1..Len(open) /\ Around = open[Len(open)]
      BY <1>1, <1>2, <2>2 DEF Above
    <3> QED BY <3>1 DEF At, Nest, Within
  <2> QED BY <2>1, <2>2
<1>4. PICK h : h = (Around.hidden \/ InRaw)
  OBVIOUS
<1>5. Place = [Around EXCEPT !.hidden = h]
  BY <1>4 DEF Place
<1>6. Place.hidden = h /\ Place.main = Around.main /\ Place.article = Around.article
  BY <1>3, <1>5
<1> QED BY <1>1, <1>2, <1>4, <1>6

\* What the extractor reads, and what it lets through.
LEMMA ReadingIs ==
  ASSUME NEW n, NEW part, At(x, open, n, part)
  PROVE  /\ Reading(x) <=> ~Place.hidden
         /\ Reading(x) => /\ Allowed(x) <=> ~IsAside(part, Place)
                          /\ part # "main" => ~Place.main
                          /\ part = "none" => ~Place.article
<1>1. PICK at : at = Around
  OBVIOUS
<1>2. at = Above(open, Len(open)) /\ (Place.hidden <=> at.hidden \/ InRaw)
      /\ Place.main = at.main /\ Place.article = at.article
      /\ (InRaw <=> at.e.tag \in RawTags)
  BY <1>1, PlaceIs DEF InRaw
<1>3. /\ at.hidden => x.hid # <<>>
      /\ ~at.hidden => /\ x.raw = IF at.e.tag \in RawTags THEN at.e.tag ELSE NoTag
                       /\ x.hid = <<>> /\ Parts(x, part, at)
  BY <1>2, AtFacts
<1>4. Reading(x) <=> x.raw = NoTag /\ x.hid = <<>>
  BY DEF Reading, NoTag
<1>5. Reading(x) <=> ~Place.hidden
  BY <1>2, <1>3, <1>4, OutsideFacts
<1>6. ASSUME Reading(x)
      PROVE  /\ Allowed(x) <=> ~IsAside(part, Place)
             /\ part # "main" => ~Place.main
             /\ part = "none" => ~Place.article
  <2>1. Parts(x, part, at)
    BY <1>2, <1>3, <1>5, <1>6
  <2>2. Allowed(x) <=> ~IsAside(part, at)
    BY <2>1, AllowedIs DEF IsAside
  <2> QED BY <1>2, <2>1, <2>2 DEF Parts, IsAside
<1> QED BY <1>5, <1>6

LEMMA WriteIs ==
  ASSUME NEW kind, NEW place, Write(kind, place), Sequence(written)
  PROVE  \E r : /\ OneMore(written, written', r)
                /\ r.hidden = place.hidden /\ r.main = place.main /\ r.article = place.article
<1>1. PICK r : /\ r = [kind |-> kind, hidden |-> place.hidden, style |-> place.style,
                       href |-> place.href, main |-> place.main, article |-> place.article]
               /\ written' = Append(written, r)
  BY DEF Write
<1>2. r.hidden = place.hidden /\ r.main = place.main /\ r.article = place.article
  BY <1>1
<1>3. OneMore(written, written', r)
  BY <1>1, AppendFacts DEF OneMore
<1> QED BY <1>2, <1>3

Following == Followed(x, written, open, primary)

LEMMA SameText ==
  ASSUME NEW v, Sound(v), NEW n
  PROVE  Same(v, Char(v, n)) /\ Same(v, Entity(v, n)) /\ Same(v, White(v))
<1>1. Same(v, v)
  BY DEF Same
<1>2. Same(v, Glyph(v, <<"char", n>>)) /\ Same(v, Blank(v))
  BY GlyphFacts, BlankFacts, LaidSame DEF Sound, Laid
<1> QED BY <1>1, <1>2 DEF Char, Entity, White

\* A character of the document.
LEMMA CharacterStep ==
  ASSUME Following, Write("char", Place), open' = open, primary' = primary,
         Same(x, x'),
         x' = IF Reading(x) /\ ~IsAside(primary, Place) THEN Glyph(x, <<"char", This>>) ELSE x
  PROVE  Following'
<1>1. PICK n : At(x, open, n, primary)
  BY DEF Following, Followed
<1>2. /\ Reading(x) <=> ~Place.hidden
      /\ Reading(x) => /\ primary # "main" => ~Place.main
                       /\ primary = "none" => ~Place.article
  BY <1>1, ReadingIs
<1>3. Sound(x) /\ Sequence(written)
  BY DEF Following, Followed
<1>4. PICK r : /\ OneMore(written, written', r)
               /\ r.hidden = Place.hidden /\ r.main = Place.main /\ r.article = Place.article
  BY <1>3, WriteIs
<1>5. Early(r, primary) /\ (IsAside(primary, r) <=> IsAside(primary, Place))
  BY <1>2, <1>4 DEF Early, IsAside
<1>6. \E m : At(x', open, m, primary)
  BY <1>1, AtSame
<1>7. CASE Reading(x) /\ ~IsAside(primary, Place)
  <2>1. PICK c : c = <<"char", This>>
    OBVIOUS
  <2>2. c[2] = Len(written) + 1 /\ Shown(x, x', c)
    BY <1>3, <1>7, <2>1, GlyphShown DEF This
  <2>3. ~(r.hidden \/ IsAside(primary, r))
    BY <1>2, <1>4, <1>5, <1>7
  <2>4. Followed(x', written', open, primary)
    BY <1>4, <1>5, <1>6, <2>2, <2>3, FollowedShown DEF Following
  <2> QED BY <2>4 DEF Following
<1>8. CASE ~(Reading(x) /\ ~IsAside(primary, Place))
  <2>1. Kept(x, x', Layout)
    BY <1>3, <1>8, KeptNothing
  <2>2. r.hidden \/ IsAside(primary, r)
    BY <1>2, <1>4, <1>5, <1>8
  <2>3. Followed(x', written', open, primary)
    BY <1>4, <1>5, <1>6, <2>1, <2>2, FollowedUnseen DEF Following
  <2> QED BY <2>3 DEF Following
<1> QED BY <1>7, <1>8

LEMMA CharStep ==
  ASSUME Following, WriteChar
  PROVE  Following'
<1>1. PICK n : At(x, open, n, primary)
  BY DEF Following, Followed
<1>2. Reading(x) => (Allowed(x) <=> ~IsAside(primary, Place))
  BY <1>1, ReadingIs
<1>3. Write("char", Place) /\ open' = open /\ primary' = primary /\ x' = Char(x, This)
  BY DEF WriteChar
<1>4. Same(x, x')
  BY <1>3, SameText DEF Following, Followed
<1>5. x' = IF Reading(x) /\ ~IsAside(primary, Place) THEN Glyph(x, <<"char", This>>) ELSE x
  BY <1>2, <1>3 DEF Char
<1> QED BY <1>3, <1>4, <1>5, CharacterStep

LEMMA EntityStep ==
  ASSUME Following, WriteEntity, Tame
  PROVE  Following'
<1>1. Write("char", Place) /\ open' = open /\ primary' = primary /\ x' = Entity(x, This)
  BY DEF WriteEntity
<1>2. ~Aside(Place)
  BY Zenon DEF WriteEntity, Tame, Unless
<1>3. ~IsAside(primary, Place)
  BY <1>2 DEF Aside, IsAside
<1>4. Same(x, x')
  BY <1>1, SameText DEF Following, Followed
<1>5. x' = IF Reading(x) /\ ~IsAside(primary, Place) THEN Glyph(x, <<"char", This>>) ELSE x
  BY <1>1, <1>3 DEF Entity
<1> QED BY <1>1, <1>4, <1>5, CharacterStep

\* A step of the document that the extractor takes without a change to its flags.
LEMMA QuietStep ==
  ASSUME Following, Same(x, x'), Kept(x, x', Layout), open' = open, written' = written,
         primary' = primary
  PROVE  Following'
<1>1. \E m : At(x', open, m, primary)
  BY AtSame DEF Following, Followed
<1>2. Followed(x', written, open, primary)
  BY <1>1, FollowedLaid DEF Following
<1> QED BY <1>2 DEF Following

LEMMA BlankStep ==
  ASSUME Following, WriteBlank
  PROVE  Following'
<1>1. x' = White(x) /\ open' = open /\ written' = written /\ primary' = primary
  BY DEF WriteBlank
<1>2. Same(x, x') /\ Kept(x, x', Layout)
  BY <1>1, SameText, CharKept DEF Following, Followed
<1> QED BY <1>1, <1>2, QuietStep

LEMMA CommentStep ==
  ASSUME Following, WriteComment, Tame
  PROVE  Following'
<1>1. x' = Comment(x) /\ open' = open /\ written' = written /\ primary' = primary /\ ~InRaw
  BY DEF WriteComment
<1>2. ~Around.hidden
  BY Zenon DEF WriteComment, Tame, Unless
<1>3. PICK n : At(x, open, n, primary)
  BY DEF Following, Followed
<1>4. Reading(x)
  BY <1>1, <1>2, <1>3, ReadingIs, PlaceIs
<1>5. x' = Blank(x)
  BY <1>1, <1>4 DEF Reading, Comment
<1>6. Same(x, x') /\ Kept(x, x', Layout)
  BY <1>5, BlankFacts, LaidSame, KeptLaid DEF Following, Followed, Sound, Laid
<1> QED BY <1>1, <1>6, QuietStep

LEMMA BlockStep ==
  ASSUME Following, NEW b \in Blocks, WriteBlock(b)
  PROVE  Following'
<1>1. x' = RawText(x, b.text) /\ open' = open /\ written' = written /\ primary' = primary
  BY DEF WriteBlock
<1>2. Kept(x, x', Layout)
  BY <1>1, RawTextKept DEF Following, Followed
<1>3. Same(x, x')
  <2>1. "css" \in Fields \ Flags
    BY DEF Fields, Flags
  <2>2. \A s : Same(x, [x EXCEPT !.css = s])
    BY <2>1, SetSame DEF Following, Followed
  <2>3. x' = x \/ \E s : x' = [x EXCEPT !.css = s]
    BY <1>1 DEF RawText
  <2>4. Same(x, x)
    BY DEF Same
  <2> QED BY <2>2, <2>3, <2>4, Zenon
<1> QED BY <1>1, <1>2, <1>3, QuietStep

LEMMA CloseStep ==
  ASSUME Following, CloseTag
  PROVE  Following'
<1>1. /\ open # <<>> /\ x' = EndTag(x, Around.e) /\ open' = Pop(open) /\ written' = written
      /\ primary' = primary /\ Sound(x)
  BY DEF CloseTag, Following, Followed
<1>2. Kept(x, x', Layout)
  BY <1>1, EndTagKept
<1>3. PICK n : At(x, open, n, primary)
  BY DEF Following, Followed
<1>4. PICK at, tag : at = Around /\ tag = at.e.tag
  OBVIOUS
<1>5. at = Above(open, Len(open)) /\ (InRaw <=> tag \in RawTags)
  BY <1>3, <1>4, PlaceIs DEF InRaw
<1>6. /\ at.hidden \in BOOLEAN
      /\ at.hidden => x.raw = NoTag /\ x.hid # <<>> /\ Top(x.hid) = tag /\ n < Len(open)
      /\ ~at.hidden => /\ x.raw = IF tag \in RawTags THEN tag ELSE NoTag
                       /\ x.hid = <<>> /\ n = Len(open)
  BY <1>3, <1>4, <1>5, AtFacts
<1>7. n \in Nat /\ Len(open) \in Nat
  BY <1>3, SequenceFacts DEF At, Nest
<1>8. \E m : At(x', open', m, primary)
  <2>1. CASE at.hidden
    <3>1. x.raw = "" /\ x.hid # <<>> /\ Top(x.hid) = at.e.tag /\ x' = EndTag(x, at.e)
      BY <1>1, <1>4, <1>6, <2>1 DEF NoTag
    <3>2. Sets(x, x', Pop(x.hid), x.raw, x.main, x.article)
      BY <1>1, <3>1, EndOfHidden
    <3>3. n < Len(open)
      BY <1>6, <2>1
    <3>4. At(x', open', n, primary)
      BY <1>1, <1>3, <3>2, <3>3, AtHiddenEnd
    <3> QED BY <3>4
  <2>2. CASE ~at.hidden
    <3>1. Sets(x, x', x.hid, NoTag,
               IF tag = "main" /\ x.main # "unseen" THEN "out" ELSE x.main,
               IF tag = "article" /\ x.main = "unseen" /\ x.article # "unseen" THEN "out"
               ELSE x.article)
      <4>1. CASE tag \in RawTags
        <5>1. x.raw = at.e.tag /\ x.raw # "" /\ x' = EndTag(x, at.e)
          BY <1>1, <1>4, <1>6, <2>2, <4>1 DEF RawTags
        <5>2. Sets(x, x', x.hid, "", x.main, x.article)
          BY <1>1, <5>1, EndOfRaw
        <5>3. tag # "main" /\ tag # "article"
          BY <4>1 DEF RawTags
        <5> QED BY <5>2, <5>3 DEF NoTag
      <4>2. CASE tag \notin RawTags
        <5>1. x.raw = "" /\ x.hid = <<>> /\ x' = EndTag(x, at.e) /\ tag = at.e.tag
          BY <1>1, <1>4, <1>6, <2>2, <4>2 DEF NoTag
        <5>2. Sets(x, x', x.hid, x.raw,
                   IF at.e.tag = "main" /\ x.main # "unseen" THEN "out" ELSE x.main,
                   IF at.e.tag = "article" /\ x.main = "unseen" /\ x.article # "unseen" THEN "out"
                   ELSE x.article)
          BY <1>1, <5>1, EndOfVisible
        <5> QED BY <5>1, <5>2 DEF NoTag
      <4> QED BY <4>1, <4>2
    <3>2. ~(n < Len(open)) /\ tag = Above(open, Len(open)).e.tag
      BY <1>4, <1>5, <1>6, <1>7, <2>2
    <3>3. At(x', open', n - 1, primary)
      BY <1>1, <1>3, <3>1, <3>2, AtShownEnd
    <3> QED BY <3>3
  <2> QED BY <2>1, <2>2
<1>9. Followed(x', written, open', primary)
  BY <1>2, <1>8, FollowedLaid DEF Following
<1> QED BY <1>1, <1>9 DEF Following

\* What a start tag is to the document.
LEMMA TagIs ==
  ASSUME NEW e \in Elements, WriteTag(e), Tame, NEW in, in = Inside(e)
  PROVE  /\ ~InRaw /\ x' = StartTag(x, e, This)
         /\ e.void => ~in.hidden \/ Around.hidden
         /\ ~e.void => ~(Len(open) + Stuck >= StackCap)
         /\ e.tag = "main" => ~Around.main
         /\ e.tag = "article" => ~Around.article
         /\ IF e.tag = "img" THEN Write(IF e.icon THEN "img" ELSE "marker", in)
                             ELSE written' = written
         /\ open' = IF e.void THEN open ELSE Append(open, in)
         /\ primary' = IF in.hidden THEN primary ELSE Turned(primary, e.tag)
<1>1. MayStart(e, in)
  BY DEF WriteTag
<1>2. e.void => ~in.hidden \/ Around.hidden
  BY <1>1, Zenon DEF MayStart, Tame, Unless
<1>3. ~e.void => ~(Len(open) + Stuck >= StackCap)
  BY <1>1, Zenon DEF MayStart, Tame, Unless
<1>4. (e.tag = "main" => ~Around.main) /\ (e.tag = "article" => ~Around.article)
  BY <1>1, Zenon DEF MayStart, Tame, Unless
<1>5. /\ IF e.tag = "img" THEN Write(IF e.icon THEN "img" ELSE "marker", in)
                          ELSE written' = written
      /\ open' = IF e.void THEN open ELSE Append(open, in)
  BY DEF WriteTag
<1>6. primary' = IF in.hidden THEN primary ELSE Turned(primary, e.tag)
  <2>1. primary' = CASE ~in.hidden /\ e.tag = "main" -> "main"
                     [] ~in.hidden /\ e.tag = "article" /\ primary = "none" -> "article"
                     [] OTHER -> primary
    BY DEF WriteTag
  <2>2. CASE e.tag = "main"
    BY <2>1, <2>2 DEF Turned
  <2>3. CASE e.tag # "main"
    BY <2>1, <2>3 DEF Turned
  <2> QED BY <2>2, <2>3
<1> QED BY <1>2, <1>3, <1>4, <1>5, <1>6 DEF WriteTag

LEMMA InsideIs ==
  ASSUME NEW e, NEW in, in = Inside(e),
         e.tag = "main" => ~Around.main, e.tag = "article" => ~Around.article
  PROVE  /\ in.e = e /\ Within(in, Around)
         /\ in.hidden <=> Around.hidden \/ OwnDisplay(e) = "none"
<1>1. PICK own, style, href :
          in = [e       |-> e,
                hidden  |-> Around.hidden \/ OwnDisplay(e) = "none",
                own     |-> own,
                style   |-> style,
                href    |-> href,
                main    |-> Around.main \/ e.tag = "main",
                article |-> Around.article \/ e.tag = "article"]
  BY DEF Inside
<1>2. /\ in.e = e /\ in.hidden = (Around.hidden \/ OwnDisplay(e) = "none")
      /\ in.main = (Around.main \/ e.tag = "main")
      /\ in.article = (Around.article \/ e.tag = "article")
      /\ {"hidden", "main", "article"} \subseteq DOMAIN in
  BY <1>1
<1>3. in.hidden \in BOOLEAN /\ in.main \in BOOLEAN /\ in.article \in BOOLEAN
  BY <1>2, Zenon
<1>4. /\ in.hidden <=> (Around.hidden \/ OwnDisplay(e) = "none")
      /\ in.main <=> (Around.main \/ e.tag = "main")
      /\ in.article <=> (Around.article \/ e.tag = "article")
  BY <1>2, Zenon
<1>5. Within(in, Around)
  BY <1>2, <1>3, <1>4, Zenon DEF Within
<1> QED BY <1>2, <1>4, <1>5

LEMMA StuckIs ==
  ASSUME Sequence(x.anc)
  PROVE  Stuck \in Nat
<1>1. PICK S : S = {k \in DOMAIN x.anc : x.anc[k].tag \in RawTags}
  OBVIOUS
<1>2. S \subseteq 1..Len(x.anc) /\ Len(x.anc) \in Nat
  BY <1>1, SequenceFacts
<1>3. IsFiniteSet(1..Len(x.anc))
  BY <1>2, FS_Interval
<1>4. IsFiniteSet(S)
  BY <1>2, <1>3, FS_Subset
<1>5. Cardinality(S) \in Nat
  BY <1>4, FS_CardinalityType
<1> QED BY <1>1, <1>5 DEF Stuck

LEMMA SetsSame ==
  ASSUME NEW v, NEW w, Sets(v, w, v.hid, v.raw, v.main, v.article)
  PROVE  Same(v, w)
BY DEF Sets, Same, Flags

\* A start tag inside what is hidden, or of what is hidden itself.
LEMMA HiddenTagStep ==
  ASSUME Following, NEW e, NEW in, in.e = e, in.hidden, Within(in, Around), ~InRaw,
         IF e.tag = "img" THEN Write(IF e.icon THEN "img" ELSE "marker", in)
                          ELSE written' = written,
         open' = IF e.void THEN open ELSE Append(open, in), primary' = primary,
         Kept(x, x', Layout),
         IF e.void THEN Same(x, x')
         ELSE Sets(x, x', Append(x.hid, e.tag), x.raw, x.main, x.article)
  PROVE  Following'
<1>1. PICK n : At(x, open, n, primary)
  BY DEF Following, Followed
<1>2. Around = Above(open, Len(open)) /\ Above(open, Len(open)).e.tag \notin RawTags
  BY <1>1, PlaceIs DEF InRaw
<1>3. \E m : At(x', open', m, primary)
  <2>1. CASE e.void
    BY <1>1, <2>1, AtSame
  <2>2. CASE ~e.void
    <3>1. open' = Push(open, in) /\ Sets(x, x', Push(x.hid, in.e.tag), x.raw, x.main, x.article)
      BY <2>2 DEF Push
    <3>2. Within(in, Above(open, Len(open)))
      BY <1>2
    <3>3. At(x', open', n, primary)
      BY <1>1, <1>2, <3>1, <3>2, AtHidden
    <3> QED BY <3>3
  <2> QED BY <2>1, <2>2
<1>4. CASE e.tag = "img"
  <2>1. PICK r : OneMore(written, written', r) /\ r.hidden = in.hidden
    BY <1>4, WriteIs DEF Following, Followed
  <2>2. r.hidden /\ Early(r, primary)
    BY <2>1 DEF Early
  <2>3. Followed(x', written', open', primary)
    BY <1>3, <2>1, <2>2, FollowedUnseen DEF Following
  <2> QED BY <2>3 DEF Following
<1>5. CASE e.tag # "img"
  <2>1. Followed(x', written, open', primary)
    BY <1>3, FollowedLaid DEF Following
  <2> QED BY <1>5, <2>1 DEF Following
<1> QED BY <1>4, <1>5

\* A start tag that is shown.
LEMMA ShownTagStep ==
  ASSUME Following, NEW e, NEW in, in.e = e, ~in.hidden, Within(in, Around),
         ~InRaw, ~Around.hidden, e.void => e.tag \notin RawTags \cup {"main", "article"},
         IF e.tag = "img" THEN Write(IF e.icon THEN "img" ELSE "marker", in)
                          ELSE written' = written,
         open' = IF e.void THEN open ELSE Append(open, in),
         primary' = Turned(primary, e.tag),
         Sets(x, x', x.hid, IF e.tag \in RawTags THEN e.tag ELSE NoTag,
              MainSet(x, e.tag), ArticleSet(x, e.tag)),
         StartText(x, x', e, This)
  PROVE  Following'
<1>1. PICK n : At(x, open, n, primary)
  BY DEF Following, Followed
<1>2. Around = Above(open, Len(open)) /\ Above(open, Len(open)).e.tag \notin RawTags
  BY <1>1, PlaceIs DEF InRaw
<1>3. /\ x.raw = NoTag /\ x.hid = <<>> /\ n = Len(open) /\ Parts(x, primary, Around)
  BY <1>1, <1>2, AtFacts
<1>4. n \in Nat /\ Len(open) \in Nat
  BY <1>1, SequenceFacts DEF At, Nest
<1>5. primary \in {"main", "article", "none"}
  BY <1>3 DEF Parts
<1>6. PICK part : part = Turned(primary, e.tag)
  OBVIOUS
<1>7. \E m : At(x', open', m, part)
  <2>1. CASE e.void
    <3>1. part = primary
      BY <1>6, <2>1 DEF Turned
    <3>2. Sets(x, x', x.hid, x.raw, x.main, x.article)
      BY <1>3, <2>1 DEF Sets, MainSet, ArticleSet, NoTag
    <3> QED BY <1>1, <2>1, <3>1, <3>2, SetsSame, AtSame
  <2>2. CASE ~e.void
    <3>1. /\ open' = Push(open, in)
          /\ Sets(x, x', x.hid, IF in.e.tag \in RawTags THEN in.e.tag ELSE NoTag,
                  MainSet(x, in.e.tag), ArticleSet(x, in.e.tag))
          /\ part = Turned(primary, in.e.tag)
      BY <1>6, <2>2 DEF Push
    <3>2. Within(in, Above(open, Len(open))) /\ ~(n < Len(open))
      BY <1>2, <1>3, <1>4
    <3>3. At(x', open', n + 1, Turned(primary, in.e.tag))
      BY <1>1, <1>2, <3>1, <3>2, AtShown
    <3> QED BY <3>1, <3>3
  <2> QED BY <2>1, <2>2
<1>8. CASE TurnsTo(x, e.tag)
  <2>1. \/ e.tag = "main" /\ primary # "main"
        \/ e.tag = "article" /\ primary = "none"
    BY <1>3, <1>8 DEF TurnsTo, Parts
  <2>2. PICK d : Dropped(x, d) /\ Kept(d, x', Layout)
    BY <1>8 DEF StartText
  <2>3. written' = written
    BY <2>1
  <2>4. Followed(x', written, open', part)
    BY <1>5, <1>6, <1>7, <2>1, <2>2, FollowedTurned DEF Following
  <2> QED BY <1>6, <2>3, <2>4 DEF Following
<1>9. CASE ~TurnsTo(x, e.tag)
  <2>1. part = primary
    BY <1>3, <1>6, <1>9 DEF TurnsTo, Parts, Turned
  <2>2. CASE e.tag = "img"
    <3>1. PICK r : /\ OneMore(written, written', r)
                   /\ r.hidden = in.hidden /\ r.main = in.main /\ r.article = in.article
      BY <2>2, WriteIs DEF Following, Followed
    <3>2. (in.main <=> Around.main) /\ (in.article <=> Around.article)
      BY <2>2 DEF Within
    <3>3. Allowed(x) <=> ~IsAside(primary, r)
      BY <1>3, <3>1, <3>2, AllowedIs DEF IsAside
    <3>4. ~r.hidden /\ Early(r, primary)
      BY <1>3, <3>1, <3>2 DEF Early, Parts
    <3>5. CASE Allowed(x)
      <4>1. Shown(x, x', Picture(e, This)) /\ Picture(e, This)[2] = Len(written) + 1
        BY <1>9, <2>2, <3>5 DEF StartText, Picture, This
      <4>2. Followed(x', written', open', primary)
        BY <1>7, <2>1, <3>1, <3>3, <3>4, <3>5, <4>1, FollowedShown DEF Following
      <4> QED BY <1>6, <2>1, <4>2 DEF Following
    <3>6. CASE ~Allowed(x)
      <4>1. Kept(x, x', Layout)
        BY <1>9, <3>6 DEF StartText
      <4>2. Followed(x', written', open', primary)
        BY <1>7, <2>1, <3>1, <3>3, <3>4, <3>6, <4>1, FollowedUnseen DEF Following
      <4> QED BY <1>6, <2>1, <4>2 DEF Following
    <3> QED BY <3>5, <3>6
  <2>3. CASE e.tag # "img"
    <3>1. Kept(x, x', Layout) /\ written' = written
      BY <1>9, <2>3 DEF StartText
    <3>2. Followed(x', written, open', primary)
      BY <1>7, <2>1, <3>1, FollowedLaid DEF Following
    <3> QED BY <1>6, <2>1, <3>1, <3>2 DEF Following
  <2> QED BY <2>2, <2>3
<1> QED BY <1>8, <1>9

LEMMA TagStep ==
  ASSUME Following, HidesAsMeant, Tame, Closed, NEW e \in Elements, WriteTag(e)
  PROVE  Following'
<1>1. PICK in : in = Inside(e)
  OBVIOUS
<1>2. /\ ~InRaw /\ x' = StartTag(x, e, This)
      /\ e.void => ~in.hidden \/ Around.hidden
      /\ ~e.void => ~(Len(open) + Stuck >= StackCap)
      /\ IF e.tag = "img" THEN Write(IF e.icon THEN "img" ELSE "marker", in)
                          ELSE written' = written
      /\ open' = IF e.void THEN open ELSE Append(open, in)
      /\ primary' = IF in.hidden THEN primary ELSE Turned(primary, e.tag)
  BY <1>1, TagIs
<1>3. /\ in.e = e /\ Within(in, Around)
      /\ in.hidden <=> Around.hidden \/ OwnDisplay(e) = "none"
  BY <1>1, TagIs, InsideIs
<1>4. PICK n : At(x, open, n, primary)
  BY DEF Following, Followed
<1>5. Sound(x) /\ e.rows \in Nat
  BY ElementAssumption DEF Following, Followed
<1>6. Around = Above(open, Len(open)) /\ Around.e.tag \notin RawTags
  BY <1>2, <1>4, PlaceIs DEF InRaw
<1>7. /\ Around.hidden => x.raw = NoTag /\ x.hid # <<>>
      /\ ~Around.hidden => x.raw = NoTag /\ x.hid = <<>>
  BY <1>4, <1>6, AtFacts
<1>8. CASE Around.hidden
  <2>1. /\ Sets(x, x', IF ~e.void /\ Len(x.hid) < StackCap THEN Append(x.hid, e.tag) ELSE x.hid,
                x.raw, x.main, x.article)
        /\ Kept(x, x', Layout)
    BY <1>2, <1>5, <1>7, <1>8, StartInHidden DEF NoTag
  <2>2. ~e.void => Len(x.hid) < StackCap
    <3>1. Len(x.hid) = Len(open) - n /\ n \in Nat /\ Len(open) \in Nat /\ StackCap \in Nat
      BY <1>4, SequenceFacts, CapFacts DEF At, Nest, Counted
    <3>2. Stuck \in Nat
      BY <1>5, StackParts, StuckIs
    <3> QED BY <1>2, <3>1, <3>2
  <2>3. IF e.void THEN Same(x, x')
        ELSE Sets(x, x', Append(x.hid, e.tag), x.raw, x.main, x.article)
    <3>1. CASE e.void
      BY <2>1, <3>1, SetsSame
    <3>2. CASE ~e.void
      BY <2>1, <2>2, <3>2
    <3> QED BY <3>1, <3>2
  <2>4. in.hidden /\ primary' = primary
    BY <1>2, <1>3, <1>8
  <2> QED BY <1>2, <1>3, <2>1, <2>3, <2>4, HiddenTagStep
<1>9. CASE ~Around.hidden
  <2>1. Reading(x) /\ x.raw = "" /\ x.hid = <<>>
    BY <1>7, <1>9 DEF Reading, NoTag
  <2>2. Hides(x, e) <=> in.hidden
    BY <1>3, <1>9, <2>1 DEF HidesAsMeant, Hides
  <2>3. CASE in.hidden
    <3>1. Sets(x, x', Append(x.hid, e.tag), x.raw, x.main, x.article) /\ Kept(x, x', Layout)
      BY <1>2, <1>5, <2>1, <2>2, <2>3, StartHides
    <3>2. ~e.void /\ primary' = primary
      BY <1>2, <1>9, <2>3
    <3> QED BY <1>2, <1>3, <2>3, <3>1, <3>2, HiddenTagStep
  <2>4. CASE ~in.hidden
    <3>1. /\ Sets(x, x', x.hid, IF e.tag \in RawTags THEN e.tag ELSE NoTag,
                  MainSet(x, e.tag), ArticleSet(x, e.tag))
          /\ StartText(x, x', e, This)
      BY <1>2, <1>5, <2>1, <2>2, <2>4, StartShows DEF NoTag
    <3>2. e.void => e.tag \notin RawTags \cup {"main", "article"}
      BY DEF Closed
    <3>3. primary' = Turned(primary, e.tag)
      BY <1>2, <2>4
    <3> QED BY <1>2, <1>3, <1>9, <2>4, <3>1, <3>2, <3>3, ShownTagStep
  <2> QED BY <2>3, <2>4
<1> QED BY <1>8, <1>9

-----------------------------------------------------------------------------
(***************************************************************************)
(* The extractor follows every document from its first character on.       *)
(***************************************************************************)
LEMMA FollowingInit ==
  ASSUME Init
  PROVE  Following
<1>1. PICK v : v = Fresh
  OBVIOUS
<1>2. /\ x = v /\ written = <<>> /\ open = <<>> /\ primary = "none"
  BY <1>1 DEF Init
<1>3. /\ v.out = <<>> /\ v.hid = <<>> /\ v.raw = NoTag
      /\ v.main = "unseen" /\ v.article = "unseen"
  BY <1>1 DEF Fresh, NoTag
<1>4. Sequence(<<>>) /\ Len(<<>>) = 0 /\ 0 \in Nat
  BY NothingFacts
<1>5. Sound(v)
  BY <1>2, ExtractedInit DEF Extracted
<1>6. At(v, <<>>, 0, "none")
  <2>1. Above(<<>>, 0) = Outside
    BY DEF Above
  <2>2. Nest(<<>>, 0)
    BY <1>4 DEF Nest
  <2>3. Counted(v, <<>>, 0)
    BY <1>3, <1>4, <2>1, OutsideFacts DEF Counted
  <2>4. Parts(v, "none", Outside)
    BY <1>3, OutsideFacts DEF Parts
  <2> QED BY <2>1, <2>2, <2>3, <2>4 DEF At
<1>7. AllEarly(<<>>, "none") /\ MeantOf(<<>>, "none") = {}
  BY DEF AllEarly, MeantOf
<1>8. Shows(v, {})
  BY <1>3, <1>4 DEF Shows, Here
<1> QED BY <1>2, <1>4, <1>5, <1>6, <1>7, <1>8 DEF Following, Followed

LEMMA FollowingStep ==
  ASSUME Following, HidesAsMeant, Tame, Closed, [Next]_vars
  PROVE  Following'
<1>1. CASE WriteChar
  BY <1>1, CharStep
<1>2. CASE WriteEntity
  BY <1>2, EntityStep
<1>3. CASE WriteBlank
  BY <1>3, BlankStep
<1>4. CASE WriteComment
  BY <1>4, CommentStep
<1>5. ASSUME NEW e \in Elements, WriteTag(e)
      PROVE  Following'
  BY <1>5, TagStep
<1>6. CASE CloseTag
  BY <1>6, CloseStep
<1>7. ASSUME NEW b \in Blocks, WriteBlock(b)
      PROVE  Following'
  BY <1>7, BlockStep
<1>8. CASE UNCHANGED vars
  <2>1. x' = x /\ open' = open /\ written' = written /\ primary' = primary
    BY <1>8 DEF vars
  <2>2. Same(x, x') /\ Kept(x, x', Layout)
    BY <2>1, KeptNothing DEF Same, Following, Followed
  <2> QED BY <2>1, <2>2, QuietStep
<1> QED BY <1>1, <1>2, <1>3, <1>4, <1>5, <1>6, <1>7, <1>8 DEF Next

LEMMA FollowingVisible ==
  ASSUME Following
  PROVE  VisibleText
<1>1. Meant = MeantOf(written, primary)
  BY DEF Meant, MeantOf, Aside, IsAside
<1>2. Sound(x) /\ Sequence(written) /\ Shows(x, Meant)
  BY <1>1 DEF Following, Followed
<1> QED BY <1>2, ShowsVisible

-----------------------------------------------------------------------------
(***************************************************************************)
(* The stack of ancestors: only the start and the end tag of what is shown *)
(* touch it.                                                               *)
(***************************************************************************)
LEMMA ButAncestors ==
  ASSUME NEW v, NEW w, NEW cs, Wrote(v, w, cs)
  PROVE  w.anc = v.anc
BY DEF Wrote, But, Fields

LEMMA AncestorsAfterText ==
  ASSUME NEW v, Sound(v), NEW c, NEW e, NEW tag, NEW display
  PROVE  /\ Glyph(v, c).anc = v.anc /\ Blank(v).anc = v.anc /\ Row(v).anc = v.anc
         /\ Cell(v, e).anc = v.anc /\ BreakAt(v, tag, display).anc = v.anc
<1>1. Proper(v)
  BY DEF Sound
<1> QED BY <1>1, ButAncestors, GlyphFacts, BlankFacts, RowLaid, CellLaid, BreakAtLaid DEF Laid

LEMMA SetAncestors ==
  ASSUME NEW v, Sound(v), NEW f \in Fields \ {"anc"}, NEW s
  PROVE  [v EXCEPT ![f] = s].anc = v.anc
<1>1. v = [g \in Fields |-> v[g]] /\ "anc" \in Fields
  BY DEF Sound, Proper, Fields
<1> QED BY <1>1

LEMMA AncestorsOfStacks ==
  ASSUME NEW v, Sound(v), NEW e, NEW tag
  PROVE  /\ TableStart(v, e).anc = v.anc /\ TableEnd(v, tag).anc = v.anc
         /\ ListStart(v, e).anc = v.anc /\ ListEnd(v, tag).anc = v.anc
<1>1. {"tables", "navs"} \subseteq Fields \ {"anc"}
  BY DEF Fields
<1>2. \A s : [v EXCEPT !.tables = s].anc = v.anc /\ [v EXCEPT !.navs = s].anc = v.anc
  BY <1>1, SetAncestors
<1>3. /\ TableStart(v, e) = v \/ \E s : TableStart(v, e) = [v EXCEPT !.tables = s]
      /\ TableEnd(v, tag) = v \/ \E s : TableEnd(v, tag) = [v EXCEPT !.tables = s]
  BY DEF TableStart, TableEnd
<1>4. /\ ListStart(v, e) = v \/ \E s : ListStart(v, e) = [v EXCEPT !.navs = s]
      /\ ListEnd(v, tag) = v \/ \E s : ListEnd(v, tag) = [v EXCEPT !.navs = s]
  BY DEF ListStart, ListEnd
<1>5. TableStart(v, e).anc = v.anc /\ TableEnd(v, tag).anc = v.anc
  BY <1>2, <1>3, Zenon
<1>6. ListStart(v, e).anc = v.anc /\ ListEnd(v, tag).anc = v.anc
  BY <1>2, <1>4, Zenon
<1> QED BY <1>5, <1>6

LEMMA AncestorsAfterLinkStart ==
  ASSUME NEW v, Sound(v), NEW e, NEW style
  PROVE  LinkStart(v, e, style).anc = v.anc
<1>1. v = [g \in Fields |-> v[g]] /\ "anc" \in Fields
  BY DEF Sound, Proper, Fields
<1>2. \A s : [v EXCEPT !.a = s].anc = v.anc
  BY <1>1
<1>3. LinkStart(v, e, style) = v \/ \E s : LinkStart(v, e, style) = [v EXCEPT !.a = s]
  BY DEF LinkStart
<1> QED BY <1>2, <1>3, Zenon

LEMMA AncestorsAfterLinkEnd ==
  ASSUME NEW v, Sound(v), NEW tag
  PROVE  LinkEnd(v, tag).anc = v.anc
<1>1. v = [g \in Fields |-> v[g]] /\ "anc" \in Fields
  BY DEF Sound, Proper, Fields
<1>2. \A r, s : [v EXCEPT !.a = s, !.links = r].anc = v.anc
  BY <1>1
<1>3. LinkEnd(v, tag) = v \/ \E r, s : LinkEnd(v, tag) = [v EXCEPT !.a = s, !.links = r]
  BY DEF LinkEnd
<1> QED BY <1>2, <1>3, Zenon

LEMMA AncestorsAfterSwitch ==
  ASSUME NEW w, w = [g \in Fields |-> w[g]]
  PROVE  SwitchSpan(w).anc = w.anc
<1>1. PICK u : u = SwitchSpan(w)
  OBVIOUS
<1>2. ASSUME NEW r, NEW t, u = [w EXCEPT !.spans = r, !.span = t] \/ u = [w EXCEPT !.span = t]
      PROVE  u.anc = w.anc
  BY <1>2 DEF Fields
<1>3. \/ u = w
      \/ \E r, t : u = [w EXCEPT !.spans = r, !.span = t] \/ u = [w EXCEPT !.span = t]
  BY <1>1 DEF SwitchSpan
<1>4. u.anc = w.anc
  BY <1>2, <1>3
<1> QED BY <1>1, <1>4

LEMMA AncestorsAfterStyleStart ==
  ASSUME NEW v, Sound(v), NEW e, NEW style
  PROVE  StyleStart(v, e, style).anc = v.anc
<1>1. v = [g \in Fields |-> v[g]] /\ "anc" \in Fields
  BY DEF Sound, Proper, Fields
<1>2. ASSUME NEW s, NEW c PROVE SwitchSpan([v EXCEPT !.styles = s, !.cur = c]).anc = v.anc
  <2>1. PICK w : w = [v EXCEPT !.styles = s, !.cur = c]
    OBVIOUS
  <2>2. w = [g \in Fields |-> w[g]] /\ w.anc = v.anc
    BY <1>1, <2>1
  <2> QED BY <2>1, <2>2, AncestorsAfterSwitch
<1>3. \/ StyleStart(v, e, style) = v
      \/ \E s, c : StyleStart(v, e, style) = SwitchSpan([v EXCEPT !.styles = s, !.cur = c])
  BY DEF StyleStart
<1> QED BY <1>2, <1>3, Zenon

LEMMA AncestorsAfterStyleEnd ==
  ASSUME NEW v, Sound(v), NEW tag
  PROVE  StyleEnd(v, tag).anc = v.anc
<1>1. v = [g \in Fields |-> v[g]] /\ "anc" \in Fields
  BY DEF Sound, Proper, Fields
<1>2. ASSUME NEW s, NEW c PROVE SwitchSpan([v EXCEPT !.cur = c, !.styles = s]).anc = v.anc
  <2>1. PICK w : w = [v EXCEPT !.cur = c, !.styles = s]
    OBVIOUS
  <2>2. w = [g \in Fields |-> w[g]] /\ w.anc = v.anc
    BY <1>1, <2>1
  <2> QED BY <2>1, <2>2, AncestorsAfterSwitch
<1>3. \/ StyleEnd(v, tag) = v
      \/ \E s, c : StyleEnd(v, tag) = SwitchSpan([v EXCEPT !.cur = c, !.styles = s])
  BY DEF StyleEnd
<1> QED BY <1>2, <1>3, Zenon

LEMMA AncestorsOfMain ==
  ASSUME NEW v, Sound(v), NEW tag
  PROVE  MainStart(v, tag).anc = v.anc /\ MainEnd(v, tag).anc = v.anc
<1>1. v = [g \in Fields |-> v[g]] /\ "anc" \in Fields
  BY DEF Sound, Proper, Fields
<1>2. PICK d : d = Discard(v)
  OBVIOUS
<1>3. d = [g \in Fields |-> d[g]] /\ d.anc = v.anc
  BY <1>1, <1>2 DEF Discard
<1>4. /\ [v EXCEPT !.main = "in"].anc = v.anc /\ [v EXCEPT !.article = "in"].anc = v.anc
      /\ [v EXCEPT !.main = "out"].anc = v.anc /\ [v EXCEPT !.article = "out"].anc = v.anc
      /\ [d EXCEPT !.main = "in"].anc = v.anc /\ [d EXCEPT !.article = "in"].anc = v.anc
  BY <1>1, <1>3
<1>5. MainStart(v, tag) \in {v, [v EXCEPT !.main = "in"], [v EXCEPT !.article = "in"],
                             [d EXCEPT !.main = "in"], [d EXCEPT !.article = "in"]}
  BY <1>2 DEF MainStart
<1>6. MainEnd(v, tag) \in {v, [v EXCEPT !.main = "out"], [v EXCEPT !.article = "out"]}
  BY DEF MainEnd
<1>7. MainStart(v, tag).anc = v.anc
  BY <1>4, <1>5, Zenon
<1>8. MainEnd(v, tag).anc = v.anc
  BY <1>4, <1>6, Zenon
<1> QED BY <1>7, <1>8

LEMMA AncestorsAfterRawStart ==
  ASSUME NEW v, Sound(v), NEW tag
  PROVE  RawStart(v, tag).anc = v.anc
<1>1. v = [g \in Fields |-> v[g]] /\ "anc" \in Fields
  BY DEF Sound, Proper, Fields
<1>2. [v EXCEPT !.raw = tag, !.css = <<>>].anc = v.anc
  BY <1>1
<1> QED BY <1>2 DEF RawStart

LEMMA AncestorsAfterRawText ==
  ASSUME NEW v, Sound(v), NEW text
  PROVE  RawText(v, text).anc = v.anc
<1>1. v = [g \in Fields |-> v[g]] /\ "anc" \in Fields
  BY DEF Sound, Proper, Fields
<1>2. \A s : [v EXCEPT !.css = s].anc = v.anc
  BY <1>1
<1>3. RawText(v, text) = v \/ \E s : RawText(v, text) = [v EXCEPT !.css = s]
  BY DEF RawText
<1> QED BY <1>2, <1>3, Zenon

LEMMA AncestorsAfterRaw ==
  ASSUME NEW v, Sound(v)
  PROVE  EndRaw(v).anc = v.anc
<1>1. v = [g \in Fields |-> v[g]] /\ "anc" \in Fields
  BY DEF Sound, Proper, Fields
<1>2. PICK s : s = IF v.raw = "style" THEN AddRules(v.sheet, v.css) ELSE v.sheet
  OBVIOUS
<1>3. PICK y : y = [v EXCEPT !.raw = "", !.sheet = s]
  OBVIOUS
<1>4. EndRaw(v) = Blank(y)
  BY <1>2, <1>3 DEF EndRaw
<1>5. y = [g \in Fields |-> y[g]] /\ \A g \in Fields \ {"raw", "sheet"} : y[g] = v[g]
  BY <1>1, <1>3
<1>6. Proper(y)
  BY <1>5 DEF Sound, Proper, Fields
<1>7. Blank(y).anc = y.anc
  BY <1>6, BlankFacts, ButAncestors DEF Laid
<1> QED BY <1>4, <1>5, <1>7 DEF Fields

LEMMA AncestorsAfterHiddenStart ==
  ASSUME NEW v, Sound(v), NEW e
  PROVE  HiddenStart(v, e).anc = v.anc
<1>1. v = [g \in Fields |-> v[g]] /\ "anc" \in Fields
  BY DEF Sound, Proper, Fields
<1>2. \A s : [v EXCEPT !.hid = s].anc = v.anc
  BY <1>1
<1>3. HiddenStart(v, e) = v \/ \E s : HiddenStart(v, e) = [v EXCEPT !.hid = s]
  BY DEF HiddenStart
<1> QED BY <1>2, <1>3, Zenon

LEMMA AncestorsAfterHiddenEnd ==
  ASSUME NEW v, Sound(v), v.hid # <<>>, NEW tag
  PROVE  HiddenEnd(v, tag).anc = v.anc
<1>1. v = [g \in Fields |-> v[g]] /\ "anc" \in Fields
  BY DEF Sound, Proper, Fields
<1>2. PICK s : s = Pop(v.hid)
  OBVIOUS
<1>3. PICK y : y = [v EXCEPT !.hid = s]
  OBVIOUS
<1>4. Proper(y)
  BY <1>2, <1>3, PopBound, StackParts, StackFacts DEF Kept, Sound, Stacks
<1>5. Blank(y).anc = y.anc
  BY <1>4, BlankFacts, ButAncestors DEF Laid
<1>6. y.anc = v.anc
  BY <1>1, <1>3
<1>7. HiddenEnd(v, tag) \in {v, y, Blank(y)}
  BY <1>2, <1>3 DEF HiddenEnd
<1> QED BY <1>5, <1>6, <1>7

LEMMA AncestorsAfterBreak ==
  ASSUME NEW v, Sound(v), NEW tag, NEW display
  PROVE  BreakAt(v, tag, display).anc = v.anc
BY ButAncestors, BreakAtLaid DEF Laid, Sound

LEMMA AncestorsAfterShape ==
  ASSUME NEW v, Sound(v), NEW e, e.rows \in Nat, NEW n, NEW display
  PROVE  Shape(v, e, n, display).anc = v.anc
<1>1. CASE e.tag = "img" /\ Allowed(v) /\ e.icon
  <2>1. PICK y, z, p : /\ y = Blank(v) /\ z = PutAll(y, [k \in 1..IconLen |-> <<"img", n>>])
                       /\ p = Put(z, Nbsp)
    OBVIOUS
  <2>2. PICK cs : cs = [k \in 1..IconLen |-> <<"img", n>>]
    OBVIOUS
  <2>3. Sequence(cs)
    <3>1. cs \in Seq({<<"img", n>>})
      BY <2>2 DEF IconLen
    <3> QED BY <3>1, SequenceOf
  <2>4. Laid(v, y) /\ Proper(y)
    BY <2>1, BlankFacts, LaidProper DEF Sound
  <2>5. Wrote(y, z, {cs[k] : k \in DOMAIN cs}) /\ Proper(z)
    <3>1. z = PutAll(y, cs)
      BY <2>1, <2>2
    <3> QED BY <2>3, <2>4, <3>1, PutAllFacts DEF Wrote
  <2>6. Laid(z, p) /\ Proper(p)
    BY <2>1, <2>5, LayoutPut, SpaceAndNewline, LaidProper
  <2>7. p.anc = v.anc
    BY <2>4, <2>5, <2>6, ButAncestors DEF Laid
  <2>8. PICK is : Icon(v, n) = [p EXCEPT !.space = TRUE, !.icons = is]
    BY <2>1 DEF Icon
  <2>9. p = [g \in Fields |-> p[g]] /\ "anc" \in Fields
    BY <2>6 DEF Proper, Fields
  <2>10. [p EXCEPT !.space = TRUE, !.icons = is].anc = p.anc
    BY <2>9
  <2>11. Shape(v, e, n, display) = Icon(v, n)
    BY <1>1 DEF Shape
  <2> QED BY <2>7, <2>8, <2>10, <2>11
<1>2. CASE e.tag = "img" /\ Allowed(v) /\ ~e.icon
  <2>1. PICK b, y, p, q : /\ b = Break(v) /\ y = Put(b, <<"marker", n>>)
                          /\ p = PutAll(y, [k \in 1..e.rows |-> Newline])
                          /\ q = [p EXCEPT !.space = TRUE]
    OBVIOUS
  <2>2. Laid(v, b) /\ Proper(b)
    BY <2>1, BreakFacts, LaidProper DEF Sound
  <2>3. Wrote(b, y, {<<"marker", n>>}) /\ Proper(y)
    BY <2>1, <2>2, PutFacts DEF Wrote
  <2>4. Laid(y, p)
    <3>1. [k \in 1..e.rows |-> Newline] \in Seq(Layout)
      BY SpaceAndNewline
    <3> QED BY <2>1, <2>3, <3>1, LayoutPutAll
  <2>5. Laid(y, q) /\ Proper(q)
    <3>1. Laid(y, [p EXCEPT !.space = TRUE])
      BY <2>4, WroteSpaced DEF Laid
    <3>2. Laid(y, q)
      BY <2>1, <3>1, Zenon
    <3> QED BY <2>3, <3>2, LaidProper
  <2>6. Laid(q, BlankLine(q))
    BY <2>5, BlankLineFacts
  <2>7. Shape(v, e, n, display) = BlankLine(q)
    BY <1>2, <2>1 DEF Shape, Placeholder
  <2> QED BY <2>2, <2>3, <2>5, <2>6, <2>7, ButAncestors DEF Laid
<1>3. CASE ~(e.tag = "img" /\ Allowed(v))
  <2>1. PICK b : b = BreakAt(v, e.tag, display)
    OBVIOUS
  <2>2. Laid(v, b) /\ Proper(b)
    BY <2>1, BreakAtLaid, LaidProper DEF Sound
  <2>3. Laid(b, Bullet(b, e.tag, display))
    BY <2>2, BulletLaid
  <2>4. Shape(v, e, n, display) = Bullet(b, e.tag, display)
    BY <1>3, <2>1 DEF Shape
  <2> QED BY <2>2, <2>3, <2>4, ButAncestors DEF Laid
<1> QED BY <1>1, <1>2, <1>3

LEMMA AncestorsAfterHiddenTag ==
  ASSUME NEW v, Sound(v), v.raw = NoTag, v.hid # <<>>, NEW e, NEW n, NEW w, w = StartTag(v, e, n)
  PROVE  w.anc = v.anc
<1>1. w = HiddenStart(v, e)
  BY DEF StartTag, NoTag
<1> QED BY <1>1, AncestorsAfterHiddenStart

LEMMA AncestorsAfterHidingTag ==
  ASSUME NEW v, Sound(v), v.raw = NoTag, v.hid = <<>>, NEW e, Hides(v, e), NEW n,
         NEW w, w = StartTag(v, e, n)
  PROVE  w.anc = v.anc
<1>1. PICK s : s = Append(v.hid, e.tag)
  OBVIOUS
<1>2. w = [v EXCEPT !.hid = s]
  BY <1>1 DEF NoTag, StartTag, VisibleStart, Hides
<1>3. "hid" \in Fields \ {"anc"}
  BY DEF Fields
<1>4. [v EXCEPT !.hid = s].anc = v.anc
  BY <1>3, SetAncestors
<1> QED BY <1>2, <1>4

LEMMA AncestorsAfterShownTag ==
  ASSUME NEW v, Sound(v), v.raw = NoTag, v.hid = <<>>, NEW e, ~Hides(v, e), e.rows \in Nat, NEW n,
         NEW w, w = StartTag(v, e, n)
  PROVE  w.anc = PushAncestor(v, e).anc \/ (e.tag = "tr" /\ w.anc = v.anc)
<1>1. PICK c : c = Computed(v, NodeOf(e), e.style)
  OBVIOUS
<1>2. PICK t, y : t = TableStart(v, e) /\ y = ListStart(t, e)
  OBVIOUS
<1>3. PICK b, p, l, z : /\ b = Cell(y, e) /\ p = PushAncestor(b, e)
                        /\ l = LinkStart(p, e, c.style) /\ z = StyleStart(l, e, c.style)
  OBVIOUS
<1>4. PICK m, r : m = MainStart(z, e.tag) /\ r = RawStart(m, e.tag)
  OBVIOUS
<1>5. w = IF IsRow(y, e.tag) THEN Row(y) ELSE Shape(r, e, n, c.display)
  BY <1>1, <1>2, <1>3, <1>4 DEF NoTag, StartTag, VisibleStart, Hides
<1>6. Sound(t) /\ t.anc = v.anc
  BY <1>2, TableKept, AncestorsOfStacks DEF Kept
<1>7. Sound(y) /\ y.anc = v.anc
  BY <1>2, <1>6, ListKept, AncestorsOfStacks DEF Kept
<1>8. CASE IsRow(y, e.tag)
  BY <1>5, <1>7, <1>8, AncestorsAfterText DEF IsRow
<1>9. CASE ~IsRow(y, e.tag)
  <2>1. Sound(b) /\ b.anc = v.anc
    BY <1>3, <1>7, CellLaid, KeptLaid, AncestorsAfterText DEF Sound, Kept, Laid
  <2>2. Sound(p) /\ p.anc = PushAncestor(v, e).anc
    <3>1. Sound(p)
      BY <1>3, <2>1, AncestorKept DEF Kept
    <3>2. "anc" \in DOMAIN b /\ "anc" \in DOMAIN v
      <4>1. /\ b = [g \in Fields |-> b[g]] /\ v = [g \in Fields |-> v[g]] /\ "anc" \in Fields
        BY <2>1 DEF Sound, Proper, Fields
      <4> QED BY <4>1
    <3>3. CASE ~e.void /\ Len(v.anc) < StackCap
      <4>1. PICK s : s = Append(v.anc, [tag |-> e.tag, node |-> NodeOf(e)])
        OBVIOUS
      <4>2. p = [b EXCEPT !.anc = s] /\ PushAncestor(v, e) = [v EXCEPT !.anc = s]
        BY <1>3, <2>1, <3>3, <4>1 DEF PushAncestor
      <4> QED BY <3>1, <3>2, <4>2
    <3>4. CASE ~(~e.void /\ Len(v.anc) < StackCap)
      BY <1>3, <2>1, <3>1, <3>4 DEF PushAncestor
    <3> QED BY <3>3, <3>4
  <2>3. Sound(l) /\ l.anc = p.anc
    <3>1. \A st : Sound(LinkStart(p, e, st)) /\ LinkStart(p, e, st).anc = p.anc
      BY <2>2, LinkStartKept, AncestorsAfterLinkStart DEF Kept
    <3> QED BY <1>3, <3>1, Zenon
  <2>4. Sound(z) /\ z.anc = l.anc
    <3>1. \A st : StyleStart(l, e, st).anc = l.anc /\ Sound(StyleStart(l, e, st))
      BY <2>3, StyleStartKept, AncestorsAfterStyleStart DEF Kept
    <3> QED BY <1>3, <3>1, Zenon
  <2>5. Sound(m) /\ m.anc = z.anc
    BY <1>4, <2>4, MainStartIs, AncestorsOfMain DEF Dropped, Kept
  <2>6. Sound(r) /\ r.anc = m.anc
    BY <1>4, <2>5, RawStartKept, AncestorsAfterRawStart DEF Kept
  <2>7. w.anc = r.anc
    <3>1. w = Shape(r, e, n, c.display)
      BY <1>5, <1>9
    <3>2. \A d : Shape(r, e, n, d).anc = r.anc
      BY <2>6, AncestorsAfterShape
    <3> QED BY <3>1, <3>2, Zenon
  <2> QED BY <2>2, <2>3, <2>4, <2>5, <2>6, <2>7
<1> QED BY <1>8, <1>9

LEMMA AncestorsAfterRawEnd ==
  ASSUME NEW v, Sound(v), v.raw # NoTag, NEW e, NEW w, w = EndTag(v, e)
  PROVE  w.anc = v.anc
BY AncestorsAfterRaw DEF EndTag, NoTag

LEMMA AncestorsAfterHiddenEndTag ==
  ASSUME NEW v, Sound(v), v.raw = NoTag, v.hid # <<>>, NEW e, NEW w, w = EndTag(v, e)
  PROVE  w.anc = v.anc
<1>1. w = HiddenEnd(v, e.tag)
  BY DEF EndTag, NoTag
<1> QED BY <1>1, AncestorsAfterHiddenEnd

LEMMA AncestorsAfterShownEnd ==
  ASSUME NEW v, Sound(v), v.raw = NoTag, v.hid = <<>>, NEW e, NEW w, w = EndTag(v, e)
  PROVE  w.anc = PopAncestor(v, e.tag).anc
<1>1. PICK y, c, t, z : /\ y = PopAncestor(v, e.tag) /\ c = Computed(y, BareNode(e), <<>>)
                        /\ t = TableEnd(y, e.tag) /\ z = ListEnd(t, e.tag)
  OBVIOUS
<1>2. PICK l, s, m, b : /\ l = LinkEnd(z, e.tag) /\ s = StyleEnd(l, e.tag)
                        /\ m = MainEnd(s, e.tag) /\ b = BreakAt(m, e.tag, c.display)
  OBVIOUS
<1>3. w = IF IsRow(z, e.tag) THEN Row(z) ELSE b
  BY <1>1, <1>2 DEF NoTag, EndTag, VisibleEnd
<1>4. Sound(y)
  BY <1>1, AncestorKept DEF Kept
<1>5. Sound(t) /\ t.anc = y.anc
  BY <1>1, <1>4, TableKept, AncestorsOfStacks DEF Kept
<1>6. Sound(z) /\ z.anc = y.anc
  BY <1>1, <1>5, ListKept, AncestorsOfStacks DEF Kept
<1>7. CASE IsRow(z, e.tag)
  BY <1>1, <1>3, <1>6, <1>7, AncestorsAfterText
<1>8. CASE ~IsRow(z, e.tag)
  <2>1. Sound(l) /\ l.anc = z.anc
    BY <1>2, <1>6, LinkEndKept, AncestorsAfterLinkEnd DEF Kept
  <2>2. Sound(s) /\ s.anc = l.anc
    BY <1>2, <2>1, StyleEndKept, AncestorsAfterStyleEnd DEF Kept
  <2>3. Sound(m) /\ m.anc = s.anc
    BY <1>2, <2>2, MainEndKept, AncestorsOfMain DEF Kept
  <2>4. w.anc = m.anc
    <3>1. \A g, st : BreakAt(m, g, st).anc = m.anc
      BY <2>3, AncestorsAfterBreak
    <3>2. w = b /\ b = BreakAt(m, e.tag, c.display)
      BY <1>2, <1>3, <1>8
    <3> QED BY <3>1, <3>2, Zenon
  <2> QED BY <1>1, <1>6, <2>1, <2>2, <2>3, <2>4
<1> QED BY <1>7, <1>8

-----------------------------------------------------------------------------
(***************************************************************************)
(* The ancestors of the style sheet: those on the stack are the elements   *)
(* open, but for the rows of some tables, which are not put there, and for *)
(* the raw elements, which are never taken off.                            *)
(***************************************************************************)
RowTag == "tr"
Entry(e) == [tag |-> e.tag, node |-> NodeOf(e)]

LEMMA RowFacts == RowTag \notin RawTags
BY DEF RowTag, RawTags

LEMMA EntryFacts ==
  ASSUME NEW e
  PROVE  Entry(e).tag = e.tag /\ Entry(e).node = NodeOf(e)
BY DEF Entry

\* The k-th element open stands on top of the others.
Risen(a, o, d, k) == d[k] = d[k - 1] + 1 /\ a[d[k]] = Entry(o[k].e)

Climbs(d, n) == \A j, k \in 0..n : j <= k => d[j] <= d[k]

\* a is the stack of ancestors, o the elements open, n of them shown; d[k] is the
\* height of the stack with k of them, and s the number of raw elements left on it.
Stands(a, o, n, s, d) ==
    /\ Sequence(a) /\ s \in Nat /\ n \in Nat
    /\ \A i \in 1..s : \E e \in Elements : e.tag \in RawTags /\ a[i] = Entry(e)
    /\ d[0] = s /\ d[n] = Len(a) /\ Climbs(d, n)
    /\ \A k \in 0..n : /\ d[k] \in Nat /\ s <= d[k]
                       /\ d[k] <= s + k /\ d[k] <= Len(a)
    /\ \A k \in 1..n : Risen(a, o, d, k) \/ (o[k].e.tag = RowTag /\ d[k] = d[k - 1])
    /\ \A i \in (s + 1)..Len(a) : \E k \in 1..n : d[k] = i /\ Risen(a, o, d, k)

LEMMA StandsBounds ==
  ASSUME NEW a, NEW o, NEW n, NEW s, NEW d, Stands(a, o, n, s, d)
  PROVE  /\ Sequence(a) /\ s \in Nat /\ n \in Nat /\ Len(a) \in Nat
         /\ s <= Len(a) /\ Len(a) <= s + n
BY SequenceFacts DEF Stands

\* Only the elements shown matter.
LEMMA StandsSame ==
  ASSUME NEW a, NEW o, NEW n, NEW s, NEW d, Stands(a, o, n, s, d),
         NEW u, \A k \in 1..n : u[k] = o[k]
  PROVE  Stands(a, u, n, s, d)
<1>1. \A k \in 1..n : Risen(a, u, d, k) <=> Risen(a, o, d, k)
  BY DEF Risen
<1>2. \A k \in 1..n : Risen(a, u, d, k) \/ (u[k].e.tag = RowTag /\ d[k] = d[k - 1])
  BY <1>1 DEF Stands
<1>3. \A i \in (s + 1)..Len(a) : \E k \in 1..n : d[k] = i /\ Risen(a, u, d, k)
  BY <1>1 DEF Stands
<1> QED BY <1>2, <1>3 DEF Stands

\* The heights, with one more.
Higher(d, n, h) == [k \in 0..(n + 1) |-> IF k = n + 1 THEN h ELSE d[k]]

LEMMA HigherFacts ==
  ASSUME NEW d, NEW n \in Nat, NEW h, NEW f, f = Higher(d, n, h)
  PROVE  f[n + 1] = h /\ \A k \in 0..n : f[k] = d[k]
<1>1. n + 1 \in 0..(n + 1) /\ \A k \in 0..n : k \in 0..(n + 1) /\ k # n + 1
  OBVIOUS
<1> QED BY <1>1 DEF Higher

LEMMA HigherClimbs ==
  ASSUME NEW d, NEW n \in Nat, Climbs(d, n), NEW h \in Nat, \A k \in 0..n : d[k] <= h,
         NEW f, f[n + 1] = h, \A k \in 0..n : f[k] = d[k]
  PROVE  Climbs(f, n + 1)
<1>1. ASSUME NEW j \in 0..(n + 1), NEW k \in 0..(n + 1), j <= k PROVE f[j] <= f[k]
  <2>1. CASE k = n + 1
    <3>1. j \in 0..n \/ j = n + 1
      OBVIOUS
    <3>2. h <= h
      OBVIOUS
    <3> QED BY <2>1, <3>1, <3>2
  <2>2. CASE k # n + 1
    <3>1. k \in 0..n /\ j \in 0..n
      BY <1>1, <2>2
    <3> QED BY <1>1, <3>1 DEF Climbs
  <2> QED BY <2>1, <2>2
<1> QED BY <1>1 DEF Climbs

\* An element is shown, and put on the stack.
LEMMA StandsPush ==
  ASSUME NEW a, NEW o, NEW n, NEW s, NEW d, Stands(a, o, n, s, d),
         NEW u, \A k \in 1..n : u[k] = o[k],
         NEW b, b = Push(a, Entry(u[n + 1].e))
  PROVE  \E f : Stands(b, u, n + 1, s, f)
<1>1. /\ Sequence(a) /\ s \in Nat /\ n \in Nat /\ Len(a) \in Nat /\ s <= Len(a)
      /\ Len(a) <= s + n /\ d[0] = s /\ d[n] = Len(a)
  BY StandsBounds DEF Stands
<1>2. /\ Sequence(b) /\ Len(b) = Len(a) + 1 /\ b[Len(a) + 1] = Entry(u[n + 1].e)
      /\ \A i \in 1..Len(a) : b[i] = a[i]
  BY <1>1, AppendFacts DEF Push
<1>3. PICK f : f = Higher(d, n, Len(a) + 1)
  OBVIOUS
<1>4. f[n + 1] = Len(a) + 1 /\ \A k \in 0..n : f[k] = d[k]
  BY <1>1, <1>3, HigherFacts
<1>5. \A k \in 0..n : d[k] \in Nat /\ s <= d[k] /\ d[k] <= s + k /\ d[k] <= Len(a)
  BY DEF Stands
<1>6. \A k \in 0..(n + 1) : f[k] \in Nat /\ s <= f[k] /\ f[k] <= s + k /\ f[k] <= Len(b)
  <2>1. ASSUME NEW k \in 0..(n + 1), k # n + 1
        PROVE  f[k] \in Nat /\ s <= f[k] /\ f[k] <= s + k /\ f[k] <= Len(b)
    <3>1. k \in 0..n
      BY <1>1, <2>1
    <3>2. d[k] \in Nat /\ s <= d[k] /\ d[k] <= s + k /\ d[k] <= Len(a) /\ f[k] = d[k]
      BY <1>4, <1>5, <3>1
    <3>3. d[k] <= Len(b)
      BY <1>1, <1>2, <3>2
    <3> QED BY <3>2, <3>3
  <2>2. /\ f[n + 1] \in Nat /\ s <= f[n + 1] /\ f[n + 1] <= s + (n + 1) /\ f[n + 1] <= Len(b)
    BY <1>1, <1>2, <1>4
  <2> QED BY <2>1, <2>2
<1>7. ASSUME NEW k \in 1..n, Risen(a, o, d, k) PROVE Risen(b, u, f, k)
  <2>1. k \in 0..n /\ k - 1 \in 0..n
    BY <1>1
  <2>2. f[k] = d[k] /\ f[k - 1] = d[k - 1] /\ d[k] \in Nat /\ d[k - 1] \in Nat /\ d[k] <= Len(a)
    BY <1>4, <1>5, <2>1
  <2>3. d[k] = d[k - 1] + 1 /\ a[d[k]] = Entry(o[k].e)
    BY <1>7 DEF Risen
  <2>4. d[k] \in 1..Len(a)
    BY <1>1, <2>2, <2>3
  <2> QED BY <1>2, <2>2, <2>3, <2>4 DEF Risen
<1>8. Risen(b, u, f, n + 1)
  <2>1. n \in 0..n /\ (n + 1) - 1 = n
    BY <1>1
  <2> QED BY <1>1, <1>2, <1>4, <2>1 DEF Risen
<1>9. ASSUME NEW k \in 1..(n + 1)
      PROVE  Risen(b, u, f, k) \/ (u[k].e.tag = RowTag /\ f[k] = f[k - 1])
  <2>1. CASE k = n + 1
    BY <1>8, <2>1
  <2>2. CASE k # n + 1
    <3>1. k \in 1..n /\ k \in 0..n /\ k - 1 \in 0..n
      BY <1>1, <2>2
    <3>2. Risen(a, o, d, k) \/ (o[k].e.tag = RowTag /\ d[k] = d[k - 1])
      BY <3>1 DEF Stands
    <3> QED BY <1>4, <1>7, <3>1, <3>2
  <2> QED BY <2>1, <2>2
<1>10. ASSUME NEW i \in (s + 1)..Len(b)
       PROVE  \E k \in 1..(n + 1) : f[k] = i /\ Risen(b, u, f, k)
  <2>1. CASE i = Len(a) + 1
    BY <1>1, <1>4, <1>8, <2>1
  <2>2. CASE i # Len(a) + 1
    <3>1. i \in (s + 1)..Len(a)
      BY <1>1, <1>2, <2>2
    <3>2. PICK k \in 1..n : d[k] = i /\ Risen(a, o, d, k)
      BY <3>1 DEF Stands
    <3>3. k \in 1..(n + 1) /\ f[k] = d[k]
      BY <1>1, <1>4, <3>2
    <3> QED BY <1>7, <3>2, <3>3
  <2> QED BY <2>1, <2>2
<1>11. \A i \in 1..s : \E e \in Elements : e.tag \in RawTags /\ b[i] = Entry(e)
  <2>1. \A i \in 1..s : \E e \in Elements : e.tag \in RawTags /\ a[i] = Entry(e)
    BY DEF Stands
  <2>2. \A i \in 1..s : i \in 1..Len(a)
    BY <1>1
  <2>3. \A i \in 1..s : b[i] = a[i]
    BY <1>2, <2>2
  <2> QED BY <2>1, <2>3
<1>12. f[0] = s /\ f[n + 1] = Len(b) /\ n + 1 \in Nat
  <2>1. 0 \in 0..n
    BY <1>1
  <2> QED BY <1>1, <1>2, <1>4, <2>1
<1>14. Climbs(f, n + 1)
  <2>1. Climbs(d, n) /\ Len(a) + 1 \in Nat /\ \A k \in 0..n : d[k] <= Len(a) + 1
    BY <1>1, <1>5 DEF Stands
  <2> QED BY <1>1, <1>4, <2>1, HigherClimbs
<1>13. Stands(b, u, n + 1, s, f)
  BY <1>14, <1>1, <1>2, <1>6, <1>9, <1>10, <1>11, <1>12 DEF Stands
<1> QED BY <1>13

\* A row is shown that is not put on the stack.
LEMMA StandsRow ==
  ASSUME NEW a, NEW o, NEW n, NEW s, NEW d, Stands(a, o, n, s, d),
         NEW u, \A k \in 1..n : u[k] = o[k], u[n + 1].e.tag = RowTag
  PROVE  \E f : Stands(a, u, n + 1, s, f)
<1>1. /\ Sequence(a) /\ s \in Nat /\ n \in Nat /\ Len(a) \in Nat /\ s <= Len(a)
      /\ Len(a) <= s + n /\ d[0] = s /\ d[n] = Len(a)
  BY StandsBounds DEF Stands
<1>2. PICK h, f : h = Len(a) /\ f = Higher(d, n, h)
  OBVIOUS
<1>3. f[n + 1] = Len(a) /\ \A k \in 0..n : f[k] = d[k]
  <2>1. f[n + 1] = h /\ \A k \in 0..n : f[k] = d[k]
    BY <1>1, <1>2, HigherFacts
  <2> QED BY <1>2, <2>1
<1>4. \A k \in 0..n : d[k] \in Nat /\ s <= d[k] /\ d[k] <= s + k /\ d[k] <= Len(a)
  BY DEF Stands
<1>5. \A k \in 0..(n + 1) : f[k] \in Nat /\ s <= f[k] /\ f[k] <= s + k /\ f[k] <= Len(a)
  <2>1. ASSUME NEW k \in 0..(n + 1), k # n + 1
        PROVE  f[k] \in Nat /\ s <= f[k] /\ f[k] <= s + k /\ f[k] <= Len(a)
    <3>1. k \in 0..n
      BY <1>1, <2>1
    <3> QED BY <1>1, <1>3, <1>4, <3>1
  <2>2. /\ f[n + 1] \in Nat /\ s <= f[n + 1] /\ f[n + 1] <= s + (n + 1) /\ f[n + 1] <= Len(a)
    BY <1>1, <1>3
  <2> QED BY <2>1, <2>2
<1>6. ASSUME NEW k \in 1..n PROVE Risen(a, u, f, k) <=> Risen(a, o, d, k)
  <2>1. k \in 0..n /\ k - 1 \in 0..n
    BY <1>1
  <2> QED BY <1>3, <2>1 DEF Risen
<1>7. ASSUME NEW k \in 1..(n + 1)
      PROVE  Risen(a, u, f, k) \/ (u[k].e.tag = RowTag /\ f[k] = f[k - 1])
  <2>1. CASE k = n + 1
    <3>1. n \in 0..n /\ k - 1 = n
      BY <1>1, <2>1
    <3> QED BY <1>1, <1>3, <2>1, <3>1
  <2>2. CASE k # n + 1
    <3>1. k \in 1..n /\ k \in 0..n /\ k - 1 \in 0..n
      BY <1>1, <2>2
    <3>2. Risen(a, o, d, k) \/ (o[k].e.tag = RowTag /\ d[k] = d[k - 1])
      BY <3>1 DEF Stands
    <3> QED BY <1>3, <1>6, <3>1, <3>2
  <2> QED BY <2>1, <2>2
<1>8. ASSUME NEW i \in (s + 1)..Len(a)
      PROVE  \E k \in 1..(n + 1) : f[k] = i /\ Risen(a, u, f, k)
  <2>1. PICK k \in 1..n : d[k] = i /\ Risen(a, o, d, k)
    BY DEF Stands
  <2>2. k \in 1..(n + 1) /\ f[k] = d[k]
    BY <1>1, <1>3, <2>1
  <2> QED BY <1>6, <2>1, <2>2
<1>9. f[0] = s /\ f[n + 1] = Len(a) /\ n + 1 \in Nat
  <2>1. 0 \in 0..n
    BY <1>1
  <2> QED BY <1>1, <1>3, <2>1
<1>10. \A i \in 1..s : \E e \in Elements : e.tag \in RawTags /\ a[i] = Entry(e)
  BY DEF Stands
<1>12. Climbs(f, n + 1)
  <2>1. Climbs(d, n) /\ \A k \in 0..n : d[k] <= Len(a)
    BY <1>4 DEF Stands
  <2> QED BY <1>1, <1>3, <2>1, HigherClimbs
<1>11. Stands(a, u, n + 1, s, f)
  BY <1>12, <1>1, <1>5, <1>7, <1>8, <1>9, <1>10 DEF Stands
<1> QED BY <1>11

\* What both ways of taking an element off have in common.
LEMMA StandsShorter ==
  ASSUME NEW a, NEW o, NEW n, NEW s, NEW d, Stands(a, o, n, s, d), n # 0,
         NEW u, \A k \in 1..(n - 1) : u[k] = o[k],
         NEW b, Sequence(b), Len(b) = d[n - 1], \A i \in 1..Len(b) : b[i] = a[i]
  PROVE  Stands(b, u, n - 1, s, d)
<1>1. /\ Sequence(a) /\ s \in Nat /\ n \in Nat /\ Len(a) \in Nat /\ s <= Len(a)
      /\ d[0] = s /\ d[n] = Len(a) /\ Climbs(d, n)
  BY StandsBounds DEF Stands
<1>2. n - 1 \in Nat /\ n - 1 \in 0..n /\ n \in 1..n /\ n \in 0..n
  BY <1>1
<1>3. \A k \in 0..n : d[k] \in Nat /\ s <= d[k] /\ d[k] <= s + k
  BY DEF Stands
<1>4. \A k \in 0..(n - 1) : k \in 0..n /\ d[k] <= d[n - 1]
  BY <1>1, <1>2 DEF Climbs
<1>5. Climbs(d, n - 1)
  BY <1>1, <1>4 DEF Climbs
<1>6. \A k \in 0..(n - 1) : d[k] \in Nat /\ s <= d[k] /\ d[k] <= s + k /\ d[k] <= Len(b)
  BY <1>3, <1>4
<1>7. ASSUME NEW k \in 1..(n - 1), Risen(a, o, d, k) PROVE Risen(b, u, d, k)
  <2>1. k \in 0..(n - 1) /\ k - 1 \in 0..(n - 1)
    BY <1>1
  <2>2. d[k] \in Nat /\ d[k] <= Len(b) /\ d[k - 1] \in Nat /\ d[k] = d[k - 1] + 1
    BY <1>6, <1>7, <2>1 DEF Risen
  <2>3. d[k] \in 1..Len(b)
    BY <1>2, <1>3, <2>2
  <2> QED BY <1>7, <2>3 DEF Risen
<1>8. ASSUME NEW k \in 1..(n - 1)
      PROVE  Risen(b, u, d, k) \/ (u[k].e.tag = RowTag /\ d[k] = d[k - 1])
  <2>1. k \in 1..n
    BY <1>1
  <2>2. Risen(a, o, d, k) \/ (o[k].e.tag = RowTag /\ d[k] = d[k - 1])
    BY <2>1 DEF Stands
  <2> QED BY <1>7, <2>2
<1>9. ASSUME NEW i \in (s + 1)..Len(b)
      PROVE  \E k \in 1..(n - 1) : d[k] = i /\ Risen(b, u, d, k)
  <2>1. d[n - 1] \in Nat /\ d[n - 1] <= d[n]
    BY <1>1, <1>2, <1>3 DEF Climbs
  <2>2. i \in (s + 1)..Len(a) /\ i <= d[n - 1]
    BY <1>1, <2>1
  <2>3. PICK k \in 1..n : d[k] = i /\ Risen(a, o, d, k)
    BY <2>2 DEF Stands
  <2>4. k # n
    <3>1. ASSUME k = n PROVE FALSE
      <4>1. i = d[n - 1] + 1 /\ i \in Nat
        BY <1>1, <2>3, <3>1 DEF Risen
      <4> QED BY <2>1, <2>2, <4>1
    <3> QED BY <3>1
  <2>5. k \in 1..(n - 1)
    BY <1>1, <2>4
  <2> QED BY <1>7, <2>3, <2>5
<1>10. \A i \in 1..s : \E e \in Elements : e.tag \in RawTags /\ b[i] = Entry(e)
  <2>1. \A i \in 1..s : \E e \in Elements : e.tag \in RawTags /\ a[i] = Entry(e)
    BY DEF Stands
  <2>2. s <= Len(b) /\ Len(b) \in Nat
    BY <1>2, <1>3
  <2>3. \A i \in 1..s : i \in 1..Len(b)
    BY <1>1, <2>2
  <2> QED BY <2>1, <2>3
<1>11. d[0] = s /\ d[n - 1] = Len(b) /\ n - 1 \in Nat /\ s \in Nat
  BY <1>1, <1>2
<1> QED BY <1>5, <1>6, <1>8, <1>9, <1>10, <1>11 DEF Stands

\* The heights, none above h.
Lower(d, n, h) == [k \in 0..n |-> IF d[k] = h + 1 THEN h ELSE d[k]]

\* A row goes that was not on the stack, and takes the top of the stack with it,
\* which is that of another row.
LEMMA StandsMistaken ==
  ASSUME NEW a, NEW o, NEW n, NEW s, NEW d, Stands(a, o, n, s, d), n # 0,
         d[n - 1] = Len(a), a # <<>>, Top(a).tag = RowTag,
         NEW u, \A k \in 1..(n - 1) : u[k] = o[k],
         NEW b, b = Pop(a)
  PROVE  \E f : Stands(b, u, n - 1, s, f)
<1>1. /\ Sequence(a) /\ s \in Nat /\ n \in Nat /\ Len(a) \in Nat /\ s <= Len(a)
      /\ d[0] = s /\ d[n] = Len(a) /\ Climbs(d, n)
  BY StandsBounds DEF Stands
<1>2. n - 1 \in Nat /\ n - 1 \in 0..n /\ n \in 1..n /\ Len(a) # 0
  BY <1>1, SequenceFacts
<1>3. PICK h : h = Len(a) - 1
  OBVIOUS
<1>4. h \in Nat /\ Len(a) = h + 1
  BY <1>1, <1>2, <1>3
<1>5. Sequence(b) /\ Len(b) = h /\ \A i \in 1..h : b[i] = a[i]
  BY <1>1, <1>3, PopFacts
<1>6. \A i \in 1..s : \E e \in Elements : e.tag \in RawTags /\ a[i] = Entry(e)
  BY DEF Stands
<1>7. s <= h
  <2>1. ASSUME s = h + 1 PROVE FALSE
    <3>1. s \in 1..s
      BY <1>4, <2>1
    <3>2. PICK e \in Elements : e.tag \in RawTags /\ a[s] = Entry(e)
      BY <1>6, <3>1
    <3>3. a[s].tag = RowTag
      BY <1>4, <2>1 DEF Top
    <3> QED BY <3>2, <3>3, EntryFacts, RowFacts
  <2> QED BY <1>1, <1>4, <2>1
<1>8. PICK f : f = Lower(d, n, h)
  OBVIOUS
<1>9. \A k \in 0..n : f[k] = IF d[k] = h + 1 THEN h ELSE d[k]
  BY <1>8 DEF Lower
<1>10. \A k \in 0..n : d[k] \in Nat /\ s <= d[k] /\ d[k] <= s + k /\ d[k] <= h + 1
  BY <1>4 DEF Stands
<1>11. ASSUME NEW k \in 0..n PROVE f[k] \in Nat /\ s <= f[k] /\ f[k] <= s + k /\ f[k] <= h
  <2>1. d[k] \in Nat /\ s <= d[k] /\ d[k] <= s + k /\ d[k] <= h + 1
    BY <1>10
  <2>2. CASE d[k] = h + 1
    BY <1>1, <1>4, <1>7, <1>9, <2>1, <2>2
  <2>3. CASE d[k] # h + 1
    <3>1. f[k] = d[k]
      BY <1>9, <2>3
    <3> QED BY <1>4, <2>1, <2>3, <3>1
  <2> QED BY <2>2, <2>3
<1>12. Climbs(f, n - 1)
  <2>1. ASSUME NEW j \in 0..(n - 1), NEW k \in 0..(n - 1), j <= k PROVE f[j] <= f[k]
    <3>1. j \in 0..n /\ k \in 0..n
      BY <1>1
    <3>2. d[j] <= d[k] /\ d[j] \in Nat /\ d[k] \in Nat /\ d[k] <= h + 1
      BY <1>1, <1>10, <2>1, <3>1 DEF Climbs
    <3>3. CASE d[k] = h + 1
      <4>1. f[k] = h /\ f[j] <= h
        BY <1>9, <1>11, <3>1, <3>3
      <4> QED BY <4>1
    <3>4. CASE d[k] # h + 1
      <4>1. d[j] # h + 1
        BY <1>4, <3>2, <3>4
      <4> QED BY <1>9, <3>1, <3>2, <3>4, <4>1
    <3> QED BY <3>3, <3>4
  <2> QED BY <2>1 DEF Climbs
<1>13. ASSUME NEW k \in 1..n, Risen(a, o, d, k), d[k] # h + 1
       PROVE  Risen(b, u, f, k) /\ f[k] = d[k] /\ k \in 1..(n - 1)
  <2>1. k \in 0..n /\ k - 1 \in 0..n
    BY <1>1
  <2>2. d[k] = d[k - 1] + 1 /\ d[k] \in Nat /\ d[k - 1] \in Nat /\ d[k] <= h + 1
    BY <1>10, <1>13, <2>1 DEF Risen
  <2>3. d[k - 1] # h + 1 /\ d[k] \in 1..h
    BY <1>4, <1>13, <2>2
  <2>4. f[k] = d[k] /\ f[k - 1] = d[k - 1]
    BY <1>9, <1>13, <2>1, <2>3
  <2>5. k # n
    BY <1>1, <1>4, <1>13
  <2>6. k \in 1..(n - 1)
    BY <1>1, <2>5
  <2> QED BY <1>5, <1>13, <2>2, <2>3, <2>4, <2>6 DEF Risen
<1>14. ASSUME NEW k \in 1..(n - 1)
       PROVE  Risen(b, u, f, k) \/ (u[k].e.tag = RowTag /\ f[k] = f[k - 1])
  <2>1. k \in 1..n /\ k \in 0..n /\ k - 1 \in 0..n
    BY <1>1
  <2>2. Risen(a, o, d, k) \/ (o[k].e.tag = RowTag /\ d[k] = d[k - 1])
    BY <2>1 DEF Stands
  <2>3. CASE Risen(a, o, d, k) /\ d[k] # h + 1
    BY <1>13, <2>1, <2>3
  <2>4. CASE Risen(a, o, d, k) /\ d[k] = h + 1
    <3>1. a[h + 1] = Entry(o[k].e) /\ h + 1 = d[k - 1] + 1 /\ d[k - 1] \in Nat
      BY <1>10, <2>1, <2>4 DEF Risen
    <3>2. o[k].e.tag = RowTag
      BY <1>4, <3>1, EntryFacts DEF Top
    <3>3. d[k - 1] = h /\ d[k - 1] # h + 1
      BY <1>4, <3>1
    <3>4. f[k] = h /\ f[k - 1] = h
      BY <1>9, <2>1, <2>4, <3>3
    <3> QED BY <3>2, <3>4
  <2>5. CASE o[k].e.tag = RowTag /\ d[k] = d[k - 1]
    BY <1>9, <2>1, <2>5
  <2> QED BY <2>2, <2>3, <2>4, <2>5
<1>15. ASSUME NEW i \in (s + 1)..Len(b)
       PROVE  \E k \in 1..(n - 1) : f[k] = i /\ Risen(b, u, f, k)
  <2>1. i \in (s + 1)..Len(a) /\ i # h + 1
    BY <1>1, <1>4, <1>5
  <2>2. PICK k \in 1..n : d[k] = i /\ Risen(a, o, d, k)
    BY <2>1 DEF Stands
  <2> QED BY <1>13, <2>1, <2>2
<1>16. f[0] = s /\ f[n - 1] = Len(b)
  <2>1. 0 \in 0..n /\ s # h + 1
    BY <1>1, <1>4, <1>7
  <2>2. f[n - 1] = h
    BY <1>2, <1>4, <1>9
  <2> QED BY <1>1, <1>5, <1>9, <2>1, <2>2
<1>17. \A i \in 1..s : \E e \in Elements : e.tag \in RawTags /\ b[i] = Entry(e)
  <2>1. \A i \in 1..s : i \in 1..h
    BY <1>1, <1>4, <1>7
  <2> QED BY <1>5, <1>6, <2>1
<1>18. \A k \in 0..(n - 1) : f[k] \in Nat /\ s <= f[k] /\ f[k] <= s + k /\ f[k] <= Len(b)
  <2>1. \A k \in 0..(n - 1) : k \in 0..n
    BY <1>1
  <2> QED BY <1>5, <1>11, <2>1
<1>19. Stands(b, u, n - 1, s, f)
  BY <1>1, <1>2, <1>5, <1>12, <1>14, <1>15, <1>16, <1>17, <1>18 DEF Stands
<1> QED BY <1>19

\* An element that is shown is closed.
LEMMA StandsPop ==
  ASSUME NEW a, NEW o, NEW n, NEW s, NEW d, Stands(a, o, n, s, d), n # 0,
         NEW u, \A k \in 1..(n - 1) : u[k] = o[k],
         NEW b, b = IF a # <<>> /\ Top(a).tag = o[n].e.tag THEN Pop(a) ELSE a
  PROVE  \E f : Stands(b, u, n - 1, s, f)
<1>1. /\ Sequence(a) /\ s \in Nat /\ n \in Nat /\ Len(a) \in Nat /\ d[n] = Len(a)
      /\ (a = <<>> <=> Len(a) = 0)
  BY StandsBounds, SequenceFacts DEF Stands
<1>2. n \in 1..n /\ n - 1 \in 0..n
  BY <1>1
<1>3. Risen(a, o, d, n) \/ (o[n].e.tag = RowTag /\ d[n] = d[n - 1])
  BY <1>2 DEF Stands
<1>4. d[n - 1] \in Nat
  BY <1>2 DEF Stands
<1>5. CASE Risen(a, o, d, n)
  <2>1. Len(a) = d[n - 1] + 1 /\ a[Len(a)] = Entry(o[n].e)
    BY <1>1, <1>5 DEF Risen
  <2>2. a # <<>> /\ Top(a).tag = o[n].e.tag
    <3>1. Len(a) # 0
      BY <1>4, <2>1
    <3> QED BY <1>1, <2>1, <3>1, EntryFacts DEF Top
  <2>3. b = Pop(a)
    BY <2>2
  <2>4. Sequence(b) /\ Len(b) = Len(a) - 1 /\ \A i \in 1..(Len(a) - 1) : b[i] = a[i]
    BY <1>1, <2>2, <2>3, PopFacts
  <2>5. Len(b) = d[n - 1]
    BY <1>4, <2>1, <2>4
  <2>6. \A i \in 1..Len(b) : b[i] = a[i]
    BY <2>4
  <2>7. Stands(b, u, n - 1, s, d)
    BY <2>4, <2>5, <2>6, StandsShorter
  <2> QED BY <2>7
<1>6. CASE o[n].e.tag = RowTag /\ d[n] = d[n - 1]
  <2>1. CASE a # <<>> /\ Top(a).tag = RowTag
    <3>1. b = Pop(a) /\ d[n - 1] = Len(a)
      BY <1>1, <1>6, <2>1
    <3> QED BY <2>1, <3>1, StandsMistaken
  <2>2. CASE ~(a # <<>> /\ Top(a).tag = RowTag)
    <3>1. b = a /\ Len(b) = d[n - 1]
      BY <1>1, <1>6, <2>2
    <3>2. Stands(b, u, n - 1, s, d)
      BY <1>1, <3>1, StandsShorter
    <3> QED BY <3>2
  <2> QED BY <2>1, <2>2
<1> QED BY <1>3, <1>5, <1>6

\* The end of raw text leaves its element on the stack.
LEMMA StandsRaw ==
  ASSUME NEW a, NEW o, NEW s, NEW d, Stands(a, o, 1, s, d), NEW e \in Elements,
         o[1].e = e, e.tag \in RawTags, NEW u
  PROVE  \E f : Stands(a, u, 0, s + 1, f)
<1>1. /\ Sequence(a) /\ s \in Nat /\ Len(a) \in Nat /\ d[1] = Len(a) /\ d[0] = s
  BY StandsBounds DEF Stands
<1>2. Risen(a, o, d, 1)
  <2>1. Risen(a, o, d, 1) \/ o[1].e.tag = RowTag
    BY DEF Stands
  <2> QED BY <2>1, RowFacts
<1>3. Len(a) = s + 1 /\ a[s + 1] = Entry(e)
  BY <1>1, <1>2 DEF Risen
<1>4. PICK f : f = [k \in 0..0 |-> s + 1]
  OBVIOUS
<1>5. f[0] = s + 1 /\ \A k \in 0..0 : k = 0
  BY <1>4
<1>6. Climbs(f, 0)
  <2>1. s + 1 <= s + 1
    BY <1>1
  <2> QED BY <1>5, <2>1 DEF Climbs
<1>7. \A i \in 1..(s + 1) : \E g \in Elements : g.tag \in RawTags /\ a[i] = Entry(g)
  <2>1. \A i \in 1..s : \E g \in Elements : g.tag \in RawTags /\ a[i] = Entry(g)
    BY DEF Stands
  <2>2. \A i \in 1..(s + 1) : i \in 1..s \/ i = s + 1
    BY <1>1
  <2> QED BY <1>3, <2>1, <2>2
<1>8. ASSUME NEW k \in 0..0
      PROVE  f[k] \in Nat /\ s + 1 <= f[k] /\ f[k] <= (s + 1) + k /\ f[k] <= Len(a)
  BY <1>1, <1>3, <1>5
<1>9. /\ \A k \in 1..0 : FALSE
      /\ \A i \in ((s + 1) + 1)..Len(a) : FALSE
  BY <1>1, <1>3
<1>10. Stands(a, u, 0, s + 1, f)
  BY <1>1, <1>3, <1>5, <1>6, <1>7, <1>8, <1>9 DEF Stands
<1> QED BY <1>10

-----------------------------------------------------------------------------
(***************************************************************************)
(* What is on the stack of ancestors, as the document grows.               *)
(***************************************************************************)
\* Raw text is not written inside other elements.
RawAlone == "raw inside" \notin Awkward

Lone(o) == \A k \in 1..Len(o) : /\ o[k].e \in Elements
                                /\ o[k].e.tag \in RawTags => Len(o) = 1

Rooted ==
    /\ Lone(open)
    /\ \E n, s, d : Nest(open, n) /\ Stands(x.anc, open, n, s, d)

LEMMA NestOnce ==
  ASSUME NEW o, NEW n, Nest(o, n), NEW m, Nest(o, m)
  PROVE  n = m
<1>1. n \in Nat /\ m \in Nat /\ n <= Len(o) /\ m <= Len(o) /\ Len(o) \in Nat
  BY SequenceFacts DEF Nest
<1>2. \A k \in 1..Len(o) : k > n <=> k > m
  BY DEF Nest
<1>3. ASSUME n < m PROVE FALSE
  <2>1. m \in 1..Len(o) /\ m > n /\ ~(m > m)
    BY <1>1, <1>3
  <2> QED BY <1>2, <2>1
<1>4. ASSUME m < n PROVE FALSE
  <2>1. n \in 1..Len(o) /\ n > m /\ ~(n > n)
    BY <1>1, <1>4
  <2> QED BY <1>2, <2>1
<1> QED BY <1>1, <1>3, <1>4

LEMMA RootedQuiet ==
  ASSUME Rooted, x'.anc = x.anc, open' = open
  PROVE  Rooted'
BY DEF Rooted

\* The raw elements that stay on the stack count against the elements open.
LEMMA StuckCounts ==
  ASSUME NEW o, NEW n, NEW s, NEW d, Stands(x.anc, o, n, s, d)
  PROVE  s <= Stuck /\ Stuck \in Nat
<1>1. Sequence(x.anc) /\ s \in Nat /\ Len(x.anc) \in Nat /\ s <= Len(x.anc)
  BY StandsBounds
<1>2. PICK S : S = {k \in DOMAIN x.anc : x.anc[k].tag \in RawTags}
  OBVIOUS
<1>3. S \subseteq 1..Len(x.anc)
  BY <1>1, <1>2, SequenceFacts
<1>4. IsFiniteSet(S)
  <2>1. IsFiniteSet(1..Len(x.anc))
    BY <1>1, FS_Interval
  <2> QED BY <1>3, <2>1, FS_Subset
<1>5. 1..s \subseteq S
  <2>1. ASSUME NEW i \in 1..s PROVE i \in S
    <3>1. PICK e \in Elements : e.tag \in RawTags /\ x.anc[i] = Entry(e)
      BY DEF Stands
    <3>2. i \in DOMAIN x.anc
      BY <1>1, SequenceFacts
    <3> QED BY <1>2, <3>1, <3>2, EntryFacts
  <2> QED BY <2>1
<1>6. Cardinality(1..s) <= Cardinality(S) /\ Cardinality(S) \in Nat
  BY <1>4, <1>5, FS_Subset, FS_CardinalityType
<1>7. Cardinality(1..s) = s
  <2>1. Cardinality(1..s) = IF 1 > s THEN 0 ELSE s - 1 + 1
    BY <1>1, FS_Interval
  <2> QED BY <1>1, <2>1
<1> QED BY <1>2, <1>6, <1>7 DEF Stuck

LEMMA LonePush ==
  ASSUME NEW o, Sequence(o), Lone(o), Above(o, Len(o)).e.tag \notin RawTags,
         NEW in, in.e \in Elements, in.e.tag \in RawTags => o = <<>>, NEW u, u = Push(o, in)
  PROVE  Lone(u)
<1>1. Len(o) \in Nat /\ (o = <<>> <=> Len(o) = 0)
  BY SequenceFacts
<1>2. /\ Len(u) = Len(o) + 1 /\ u[Len(o) + 1] = in
      /\ \A k \in 1..Len(o) : u[k] = o[k]
  BY AppendFacts DEF Push
<1>3. ASSUME NEW k \in 1..Len(u)
      PROVE  u[k].e \in Elements /\ (u[k].e.tag \in RawTags => Len(u) = 1)
  <2>1. CASE k = Len(o) + 1
    BY <1>1, <1>2, <2>1
  <2>2. CASE k # Len(o) + 1
    <3>1. k \in 1..Len(o) /\ u[k] = o[k]
      BY <1>1, <1>2, <2>2
    <3>2. o[k].e.tag \notin RawTags
      <4>1. ASSUME o[k].e.tag \in RawTags PROVE FALSE
        <5>1. Len(o) = 1
          BY <3>1, <4>1 DEF Lone
        <5>2. k = Len(o) /\ Above(o, Len(o)) = o[Len(o)]
          BY <3>1, <5>1 DEF Above
        <5> QED BY <4>1, <5>2
      <4> QED BY <4>1
    <3> QED BY <3>1, <3>2 DEF Lone
  <2> QED BY <2>1, <2>2
<1> QED BY <1>3 DEF Lone

LEMMA RootedTag ==
  ASSUME Following, Rooted, HidesAsMeant, Tame, Closed, RawAlone, NEW e \in Elements, WriteTag(e)
  PROVE  Rooted'
<1>1. PICK in : in = Inside(e)
  OBVIOUS
<1>2. /\ ~InRaw /\ x' = StartTag(x, e, This)
      /\ ~e.void => ~(Len(open) + Stuck >= StackCap)
      /\ open' = IF e.void THEN open ELSE Append(open, in)
  BY <1>1, TagIs
<1>3. /\ in.e = e /\ Within(in, Around)
      /\ in.hidden <=> Around.hidden \/ OwnDisplay(e) = "none"
  BY <1>1, TagIs, InsideIs
<1>4. PICK m : At(x, open, m, primary)
  BY DEF Following, Followed
<1>5. PICK n, s, d : Nest(open, n) /\ Stands(x.anc, open, n, s, d)
  BY DEF Rooted
<1>6. n = m
  BY <1>4, <1>5, NestOnce DEF At
<1>7. Sound(x) /\ e.rows \in Nat
  BY ElementAssumption DEF Following, Followed
<1>8. Around = Above(open, Len(open)) /\ Around.e.tag \notin RawTags
  BY <1>2, <1>4, PlaceIs DEF InRaw
<1>9. /\ Around.hidden => x.raw = NoTag /\ x.hid # <<>>
      /\ ~Around.hidden => x.raw = NoTag /\ x.hid = <<>> /\ n = Len(open)
  BY <1>4, <1>6, <1>8, AtFacts
<1>10. ~Around.hidden => (Hides(x, e) <=> in.hidden)
  <2>1. ASSUME ~Around.hidden PROVE Hides(x, e) <=> in.hidden
    <3>1. Reading(x)
      BY <1>9, <2>1 DEF Reading, NoTag
    <3> QED BY <1>3, <2>1, <3>1 DEF HidesAsMeant, Hides
  <2> QED BY <2>1
<1>11. /\ x.hid # <<>> => x'.anc = x.anc
       /\ x.hid = <<>> /\ Hides(x, e) => x'.anc = x.anc
       /\ x.hid = <<>> /\ ~Hides(x, e) =>
              x'.anc = PushAncestor(x, e).anc \/ (e.tag = RowTag /\ x'.anc = x.anc)
  <2>2. x.raw = NoTag /\ x' = StartTag(x, e, This)
    BY <1>2, <1>9
  <2>0. Sound(x)
    BY <1>7
  <2>3. ASSUME x.hid # <<>> PROVE x'.anc = x.anc
    BY <2>0, <2>2, <2>3, AncestorsAfterHiddenTag
  <2>4. ASSUME x.hid = <<>>, Hides(x, e) PROVE x'.anc = x.anc
    BY <2>0, <2>2, <2>4, AncestorsAfterHidingTag
  <2>5. ASSUME x.hid = <<>>, ~Hides(x, e)
        PROVE  x'.anc = PushAncestor(x, e).anc \/ (e.tag = RowTag /\ x'.anc = x.anc)
    BY <1>7, <2>2, <2>5, AncestorsAfterShownTag DEF RowTag
  <2> QED BY <2>3, <2>4, <2>5
<1>12. CASE e.void
  <2>1. PushAncestor(x, e).anc = x.anc
    BY <1>12 DEF PushAncestor
  <2>2. x'.anc = x.anc
    BY <1>11, <2>1
  <2> QED BY <1>2, <1>12, <2>2, RootedQuiet
<1>13. CASE ~e.void
  <2>1. open' = Push(open, in)
    BY <1>2, <1>13 DEF Push
  <2>2. Sequence(open) /\ Lone(open) /\ Len(open) \in Nat /\ n \in Nat /\ n <= Len(open)
    BY <1>5, SequenceFacts DEF Nest, Rooted
  <2>3. /\ Len(open') = Len(open) + 1 /\ open'[Len(open) + 1] = in
        /\ \A k \in 1..Len(open) : open'[k] = open[k]
    BY <2>1, <2>2, AppendFacts DEF Push
  <2>4. \A k \in 1..n : open'[k] = open[k]
    BY <2>2, <2>3
  <2>5. Lone(open')
    <3>1. e.tag \in RawTags => open = <<>>
      <4>1. MayStart(e, in)
        BY <1>1 DEF WriteTag
      <4> QED BY <4>1, Zenon DEF MayStart, Unless, RawAlone
    <3> QED BY <1>3, <1>8, <2>1, <2>2, <3>1, LonePush
  <2>6. CASE in.hidden
    <3>1. x'.anc = x.anc
      BY <1>9, <1>10, <1>11, <2>6, <1>3 DEF Within
    <3>2. Fits(open, n, in) /\ Grows(n, in, n)
      BY <2>6 DEF Fits, Grows
    <3>3. Nest(open', n)
      BY <1>3, <1>5, <1>8, <2>1, <3>2, NestPush
    <3>4. Stands(x'.anc, open', n, s, d)
      BY <1>5, <2>4, <3>1, StandsSame
    <3> QED BY <2>5, <3>3, <3>4 DEF Rooted
  <2>7. CASE ~in.hidden
    <3>1. ~Around.hidden /\ ~Hides(x, e) /\ x.hid = <<>> /\ n = Len(open)
      BY <1>3, <1>9, <1>10, <2>7
    <3>2. Fits(open, n, in) /\ Grows(n, in, n + 1)
      BY <2>2, <2>7, <3>1 DEF Fits, Grows
    <3>3. Nest(open', n + 1)
      BY <1>3, <1>5, <1>8, <2>1, <3>2, NestPush
    <3>4. open'[n + 1].e = e
      BY <1>3, <2>3, <3>1
    <3>5. CASE x'.anc = PushAncestor(x, e).anc
      <4>1. Len(x.anc) < StackCap
        <5>1. Len(x.anc) <= s + n /\ Len(x.anc) \in Nat /\ s \in Nat /\ s <= Stuck /\ Stuck \in Nat
          BY <1>5, StandsBounds, StuckCounts
        <5>2. StackCap \in Nat
          BY CapFacts
        <5> QED BY <1>2, <1>13, <2>2, <3>1, <5>1, <5>2
      <4>2. PICK b : b = Push(x.anc, Entry(e))
        OBVIOUS
      <4>3. PushAncestor(x, e) = [x EXCEPT !.anc = b]
        BY <1>13, <4>1, <4>2 DEF PushAncestor, Push, Entry
      <4>4. "anc" \in DOMAIN x
        <5>1. x = [g \in Fields |-> x[g]] /\ "anc" \in Fields
          BY <1>7 DEF Sound, Proper, Fields
        <5> QED BY <5>1
      <4>5. x'.anc = b
        BY <3>5, <4>3, <4>4
      <4>6. b = Push(x.anc, Entry(open'[n + 1].e))
        BY <3>4, <4>2
      <4>7. \E f : Stands(b, open', n + 1, s, f)
        BY <1>5, <2>4, <4>6, StandsPush
      <4> QED BY <2>5, <3>3, <4>5, <4>7 DEF Rooted
    <3>6. CASE e.tag = RowTag /\ x'.anc = x.anc
      <4>1. open'[n + 1].e.tag = RowTag
        BY <3>4, <3>6
      <4>2. \E f : Stands(x.anc, open', n + 1, s, f)
        BY <1>5, <2>4, <4>1, StandsRow
      <4> QED BY <2>5, <3>3, <3>6, <4>2 DEF Rooted
    <3> QED BY <1>11, <3>1, <3>5, <3>6
  <2> QED BY <2>6, <2>7
<1> QED BY <1>12, <1>13

LEMMA LonePop ==
  ASSUME NEW o, Sequence(o), o # <<>>, Lone(o), NEW u, u = Pop(o)
  PROVE  Lone(u)
<1>1. Len(o) \in Nat /\ Len(o) # 0
  BY SequenceFacts
<1>2. Len(u) = Len(o) - 1 /\ \A k \in 1..(Len(o) - 1) : u[k] = o[k]
  BY PopFacts
<1>3. ASSUME NEW k \in 1..Len(u)
      PROVE  u[k].e \in Elements /\ (u[k].e.tag \in RawTags => Len(u) = 1)
  <2>1. k \in 1..Len(o) /\ k \in 1..(Len(o) - 1) /\ Len(o) # 1
    BY <1>1, <1>2
  <2> QED BY <1>2, <2>1 DEF Lone
<1> QED BY <1>3 DEF Lone

LEMMA RootedClose ==
  ASSUME Following, Rooted, CloseTag
  PROVE  Rooted'
<1>1. /\ open # <<>> /\ x' = EndTag(x, Around.e) /\ open' = Pop(open) /\ Sound(x)
  BY DEF CloseTag, Following, Followed
<1>2. PICK m : At(x, open, m, primary)
  BY DEF Following, Followed
<1>3. PICK n, s, d : Nest(open, n) /\ Stands(x.anc, open, n, s, d)
  BY DEF Rooted
<1>4. n = m
  BY <1>2, <1>3, NestOnce DEF At
<1>5. PICK at, tag : at = Around /\ tag = at.e.tag
  OBVIOUS
<1>6. at = Above(open, Len(open))
  BY <1>2, <1>5, PlaceIs
<1>7. /\ at.hidden \in BOOLEAN
      /\ at.hidden => x.raw = NoTag /\ x.hid # <<>> /\ n < Len(open)
      /\ ~at.hidden => /\ x.raw = IF tag \in RawTags THEN tag ELSE NoTag
                       /\ x.hid = <<>> /\ n = Len(open)
  BY <1>2, <1>4, <1>5, <1>6, AtFacts
<1>8. /\ Sequence(open) /\ Lone(open) /\ Len(open) \in Nat /\ Len(open) # 0
      /\ n \in Nat /\ n <= Len(open)
  BY <1>1, <1>3, SequenceFacts DEF Nest, Rooted
<1>9. Len(open') = Len(open) - 1 /\ \A k \in 1..(Len(open) - 1) : open'[k] = open[k]
  BY <1>1, <1>8, PopFacts
<1>10. Lone(open')
  BY <1>1, <1>8, LonePop
<1>11. at = open[Len(open)] /\ at.e \in Elements /\ (tag \in RawTags => Len(open) = 1)
  <2>1. Len(open) \in 1..Len(open)
    BY <1>8
  <2> QED BY <1>5, <1>6, <1>8, <2>1 DEF Above, Lone
<1>12. PICK p : p = IF n = Len(open) THEN n - 1 ELSE n
  OBVIOUS
<1>13. Nest(open', p)
  BY <1>1, <1>3, <1>12, NestPop
<1>14. PICK e : e = Around.e /\ e.tag = tag /\ x' = EndTag(x, e)
  BY <1>1, <1>5
<1>15. CASE at.hidden
  <2>0. x.raw = NoTag /\ x.hid # <<>>
    BY <1>7, <1>15
  <2>1. x'.anc = x.anc /\ n < Len(open)
    BY <1>1, <1>7, <1>14, <1>15, <2>0, AncestorsAfterHiddenEndTag
  <2>2. p = n /\ \A k \in 1..n : open'[k] = open[k]
    BY <1>8, <1>9, <1>12, <2>1
  <2>3. Stands(x'.anc, open', n, s, d)
    BY <1>3, <2>1, <2>2, StandsSame
  <2> QED BY <1>10, <1>13, <2>2, <2>3 DEF Rooted
<1>16. CASE ~at.hidden /\ tag \in RawTags
  <2>1. x.raw # NoTag
    BY <1>7, <1>16, OutsideFacts
  <2>2. x'.anc = x.anc
    BY <1>1, <1>14, <2>1, AncestorsAfterRawEnd
  <2>3. Len(open) = 1 /\ n = 1 /\ p = 0
    BY <1>7, <1>11, <1>12, <1>16
  <2>4. open[1].e = at.e /\ at.e.tag \in RawTags
    BY <1>5, <1>11, <1>16, <2>3
  <2>5. Stands(x.anc, open, 1, s, d)
    BY <1>3, <2>3
  <2>6. \E f : Stands(x.anc, open', 0, s + 1, f)
    BY <1>11, <2>4, <2>5, StandsRaw
  <2> QED BY <1>10, <1>13, <2>2, <2>3, <2>6 DEF Rooted
<1>17. CASE ~at.hidden /\ tag \notin RawTags
  <2>1. x.raw = NoTag /\ x.hid = <<>> /\ n = Len(open)
    BY <1>7, <1>17
  <2>3. x'.anc = PopAncestor(x, tag).anc
    BY <1>1, <1>14, <2>1, AncestorsAfterShownEnd
  <2>4. PICK b : b = IF x.anc # <<>> /\ Top(x.anc).tag = tag THEN Pop(x.anc) ELSE x.anc
    OBVIOUS
  <2>5. x'.anc = b
    <3>1. "anc" \in DOMAIN x
      <4>1. x = [g \in Fields |-> x[g]] /\ "anc" \in Fields
        BY <1>1 DEF Sound, Proper, Fields
      <4> QED BY <4>1
    <3>2. CASE x.anc # <<>> /\ Top(x.anc).tag = tag
      <4>1. PopAncestor(x, tag) = [x EXCEPT !.anc = b]
        BY <2>4, <3>2 DEF PopAncestor
      <4> QED BY <2>3, <3>1, <4>1
    <3>3. CASE ~(x.anc # <<>> /\ Top(x.anc).tag = tag)
      BY <2>3, <2>4, <3>3 DEF PopAncestor
    <3> QED BY <3>2, <3>3
  <2>6. p = n - 1 /\ n # 0 /\ \A k \in 1..(n - 1) : open'[k] = open[k]
    BY <1>8, <1>9, <1>12, <2>1
  <2>7. b = IF x.anc # <<>> /\ Top(x.anc).tag = open[n].e.tag THEN Pop(x.anc) ELSE x.anc
    BY <1>5, <1>11, <2>1, <2>4
  <2>8. \E f : Stands(b, open', n - 1, s, f)
    BY <1>3, <2>6, <2>7, StandsPop
  <2> QED BY <1>10, <1>13, <2>5, <2>6, <2>8 DEF Rooted
<1> QED BY <1>7, <1>15, <1>16, <1>17

LEMMA RootedInit ==
  ASSUME Init
  PROVE  Rooted
<1>1. open = <<>> /\ x.anc = <<>>
  BY DEF Init, Fresh
<1>2. Sequence(<<>>) /\ Len(<<>>) = 0
  BY NothingFacts
<1>3. Lone(open) /\ Nest(open, 0)
  BY <1>1, <1>2 DEF Lone, Nest
<1>4. PICK f : f = [k \in 0..0 |-> 0]
  OBVIOUS
<1>5. f[0] = 0 /\ \A k \in 0..0 : k = 0
  BY <1>4
<1>6. /\ \A i \in 1..0 : FALSE
      /\ \A i \in (0 + 1)..0 : FALSE
  OBVIOUS
<1>7. Climbs(f, 0)
  <2>1. 0 <= 0
    OBVIOUS
  <2> QED BY <1>5, <2>1 DEF Climbs
<1>8. \A k \in 0..0 : f[k] \in Nat /\ 0 <= f[k] /\ f[k] <= 0 + k /\ f[k] <= 0
  BY <1>5
<1>9. PICK a : a = x.anc
  OBVIOUS
<1>10. Sequence(a) /\ Len(a) = 0
  BY <1>1, <1>2, <1>9
<1>11. Stands(a, open, 0, 0, f)
  BY <1>5, <1>6, <1>7, <1>8, <1>10 DEF Stands
<1> QED BY <1>3, <1>9, <1>11 DEF Rooted

LEMMA RootedStep ==
  ASSUME Following, Rooted, HidesAsMeant, Tame, Closed, RawAlone, [Next]_vars
  PROVE  Rooted'
<1>1. Sound(x)
  BY DEF Following, Followed
<1>2. \A n : Char(x, n).anc = x.anc /\ Entity(x, n).anc = x.anc
  BY <1>1, AncestorsAfterText DEF Char, Entity
<1>3. White(x).anc = x.anc
  BY <1>1, AncestorsAfterText DEF White
<1>4. CASE WriteChar
  BY <1>2, <1>4, RootedQuiet DEF WriteChar
<1>5. CASE WriteEntity
  BY <1>2, <1>5, RootedQuiet DEF WriteEntity
<1>6. CASE WriteBlank
  BY <1>3, <1>6, RootedQuiet DEF WriteBlank
<1>7. CASE WriteComment
  <2>1. x' = Comment(x) /\ open' = open
    BY <1>7 DEF WriteComment
  <2>2. Comment(x).anc = x.anc
    <3>1. \A s : [x EXCEPT !.hid = s].anc = x.anc
      <4>1. "hid" \in Fields \ {"anc"}
        BY DEF Fields
      <4> QED BY <1>1, <4>1, SetAncestors
    <3>2. Comment(x) = x \/ Comment(x) = Blank(x) \/ \E s : Comment(x) = [x EXCEPT !.hid = s]
      BY DEF Comment
    <3>3. Blank(x).anc = x.anc
      BY <1>1, AncestorsAfterText
    <3> QED BY <3>1, <3>2, <3>3, Zenon
  <2> QED BY <2>1, <2>2, RootedQuiet
<1>8. ASSUME NEW e \in Elements, WriteTag(e) PROVE Rooted'
  BY <1>8, RootedTag
<1>9. CASE CloseTag
  BY <1>9, RootedClose
<1>10. ASSUME NEW b \in Blocks, WriteBlock(b) PROVE Rooted'
  <2>1. x' = RawText(x, b.text) /\ open' = open
    BY <1>10 DEF WriteBlock
  <2> QED BY <1>1, <2>1, AncestorsAfterRawText, RootedQuiet
<1>11. CASE UNCHANGED vars
  BY <1>11, RootedQuiet DEF vars
<1> QED BY <1>4, <1>5, <1>6, <1>7, <1>8, <1>9, <1>10, <1>11 DEF Next

-----------------------------------------------------------------------------
(***************************************************************************)
(* The cascade: of the rules that match, the last that names a display     *)
(* decides.                                                                *)
(***************************************************************************)
Answered(c, p) == IF p[2] THEN Cascade(c, p[1]) ELSE c
Answering == INSTANCE Iteration WITH op <- Answered

\* The rules of all named in ks that name a display, and what the last of them names.
Saying(all, ks) == {k \in ks : all[k].display # NoTag}
Latest(S) == CHOOSE k \in S : \A m \in S : m <= k
SaidBy(all, S) == IF S = {} THEN NoTag ELSE all[Latest(S)].display
LastSaid(all, ks) == SaidBy(all, Saying(all, ks))

Named(ks, n) == {k \in ks : k \in 1..n}

LEMMA LastSaidNext ==
  ASSUME NEW all, NEW ks, NEW n \in Nat
  PROVE  LastSaid(all, Named(ks, n + 1)) =
             IF n + 1 \in ks /\ all[n + 1].display # NoTag THEN all[n + 1].display
             ELSE LastSaid(all, Named(ks, n))
<1>1. PICK S, T : S = Saying(all, Named(ks, n)) /\ T = Saying(all, Named(ks, n + 1))
  OBVIOUS
<1>2. \A k : k \in S <=> k \in ks /\ k \in 1..n /\ all[k].display # NoTag
  BY <1>1 DEF Saying, Named
<1>3. \A k : k \in T <=> k \in ks /\ k \in 1..(n + 1) /\ all[k].display # NoTag
  BY <1>1 DEF Saying, Named
<1>4. \A k : k \in 1..(n + 1) <=> k \in 1..n \/ k = n + 1
  OBVIOUS
<1>5. CASE n + 1 \in ks /\ all[n + 1].display # NoTag
  <2>1. n + 1 \in T
    BY <1>3, <1>4, <1>5
  <2>2. \A m \in T : m <= n + 1 /\ m \in Nat
    BY <1>3
  <2>3. \A k \in T : (\A m \in T : m <= k) => k = n + 1
    BY <2>1, <2>2
  <2>4. Latest(T) = n + 1 /\ T # {}
    BY <2>1, <2>2, <2>3 DEF Latest
  <2>5. SaidBy(all, T) = all[n + 1].display
    BY <2>4 DEF SaidBy
  <2> QED BY <1>1, <1>5, <2>5 DEF LastSaid
<1>6. CASE ~(n + 1 \in ks /\ all[n + 1].display # NoTag)
  <2>1. \A k : k \in T <=> k \in S
    BY <1>2, <1>3, <1>4, <1>6
  <2>2. T = S
    BY <2>1
  <2>3. LastSaid(all, Named(ks, n + 1)) = LastSaid(all, Named(ks, n))
    BY <1>1, <2>2 DEF LastSaid
  <2> QED BY <1>6, <2>3
<1> QED BY <1>5, <1>6

LEMMA CascadeSays ==
  ASSUME NEW c, NEW r
  PROVE  /\ Cascade(c, r).display = IF r.display # NoTag THEN r.display ELSE c.display
         /\ "display" \in DOMAIN Cascade(c, r)
BY DEF Cascade, NoTag

\* Which of the rules all match.
Matching(all, node, nodes) == {k \in DOMAIN all : SelectorMatch(all[k], node, nodes)}

LEMMA ComputeSays ==
  ASSUME NEW sheet, NEW node, NEW nodes, NEW all, all = sheet \o UaRules, Sequence(all)
  PROVE  /\ Compute(sheet, node, nodes).display = LastSaid(all, Matching(all, node, nodes))
         /\ "display" \in DOMAIN Compute(sheet, node, nodes)
<1> DEFINE n == Len(all)
           seq == [k \in 1..n |-> <<all[k], SelectorMatch(all[k], node, nodes)>>]
           Is(g) == g = [k \in 0..n |-> IF k = 0 THEN Unset
                            ELSE IF SelectorMatch(all[k], node, nodes) THEN Cascade(g[k - 1], all[k])
                            ELSE g[k - 1]]
           f == CHOOSE g : Is(g)
           ks == Matching(all, node, nodes)
           S == {k \in Nat : k <= n => /\ f[k].display = LastSaid(all, Named(ks, k))
                                        /\ "display" \in DOMAIN f[k]}
<1>1. n \in Nat /\ DOMAIN all = 1..n
  BY SequenceFacts
<1>2. ASSUME NEW g PROVE Answering!Iterates(g, Unset, seq, n) <=> Is(g)
  <2>1. ASSUME NEW k \in 0..n
        PROVE (IF k = 0 THEN Unset ELSE Answered(g[k - 1], seq[k]))
                 = IF k = 0 THEN Unset
                   ELSE IF SelectorMatch(all[k], node, nodes) THEN Cascade(g[k - 1], all[k])
                   ELSE g[k - 1]
    BY <1>1 DEF Answered
  <2>2. [k \in 0..n |-> IF k = 0 THEN Unset ELSE Answered(g[k - 1], seq[k])]
            = [k \in 0..n |-> IF k = 0 THEN Unset
                   ELSE IF SelectorMatch(all[k], node, nodes) THEN Cascade(g[k - 1], all[k])
                   ELSE g[k - 1]]
    <3> HIDE DEF n, seq
    <3> QED BY <2>1, Zenon
  <2> QED BY <2>2 DEF Answering!Iterates
<1>3. Is(f)
  <2>1. \E g : Answering!Iterates(g, Unset, seq, n)
    BY <1>1, Answering!IterationExists
  <2> QED BY <1>2, <2>1
<1>4. Compute(sheet, node, nodes) = f[n]
  BY DEF Compute
<1>5. \A k \in 0..n : f[k] = IF k = 0 THEN Unset
                             ELSE IF SelectorMatch(all[k], node, nodes) THEN Cascade(f[k - 1], all[k])
                             ELSE f[k - 1]
  <2> HIDE DEF f
  <2> QED BY <1>3
<1> HIDE DEF f
<1>6. 0 \in S
  <2>1. 0 \in 0..n
    BY <1>1
  <2>2. f[0] = Unset
    BY <1>5, <2>1
  <2>3. Unset.display = NoTag
    BY DEF Unset, NoTag
  <2>4. Saying(all, Named(ks, 0)) = {}
    BY DEF Saying, Named
  <2>5. LastSaid(all, Named(ks, 0)) = NoTag
    BY <2>4 DEF LastSaid, SaidBy
  <2>6. "display" \in DOMAIN Unset
    BY DEF Unset
  <2> QED BY <2>2, <2>3, <2>5, <2>6
<1>7. ASSUME NEW k \in Nat, k \in S PROVE k + 1 \in S
  <2> SUFFICES ASSUME k + 1 <= n
               PROVE  /\ f[k + 1].display = LastSaid(all, Named(ks, k + 1))
                      /\ "display" \in DOMAIN f[k + 1]
    OBVIOUS
  <2>1. k + 1 \in 0..n /\ k + 1 \in 1..n /\ k + 1 # 0 /\ (k + 1) - 1 = k /\ k <= n
    BY <1>1
  <2>2. f[k].display = LastSaid(all, Named(ks, k)) /\ "display" \in DOMAIN f[k]
    BY <1>7, <2>1
  <2>3. f[k + 1] = IF SelectorMatch(all[k + 1], node, nodes) THEN Cascade(f[k], all[k + 1]) ELSE f[k]
    BY <1>5, <2>1
  <2>4. k + 1 \in ks <=> SelectorMatch(all[k + 1], node, nodes)
    BY <1>1, <2>1 DEF Matching
  <2> HIDE DEF S, n, ks
  <2>5. PICK r, b, c : r = all[k + 1] /\ b = f[k + 1] /\ c = f[k]
    OBVIOUS
  <2>6. b = IF SelectorMatch(r, node, nodes) THEN Cascade(c, r) ELSE c
    BY <2>3, <2>5
  <2>7. /\ b.display = IF k + 1 \in ks /\ r.display # NoTag THEN r.display ELSE c.display
        /\ "display" \in DOMAIN b
    <3>1. CASE SelectorMatch(r, node, nodes)
      <4>1. b = Cascade(c, r)
        BY <2>6, <3>1
      <4>2. b.display = (IF r.display # NoTag THEN r.display ELSE c.display) /\ "display" \in DOMAIN b
        BY <4>1, CascadeSays, Zenon
      <4>3. k + 1 \in ks
        BY <2>4, <2>5, <3>1, Zenon
      <4> QED BY <4>2, <4>3, Zenon
    <3>2. CASE ~SelectorMatch(r, node, nodes)
      <4>1. b = c /\ k + 1 \notin ks
        BY <2>4, <2>5, <2>6, <3>2, Zenon
      <4>2. "display" \in DOMAIN c
        BY <2>2, <2>5, Zenon
      <4> QED BY <4>1, <4>2, Zenon
    <3> QED BY <3>1, <3>2, Zenon
  <2> QED BY <2>2, <2>5, <2>7, LastSaidNext
<1>8. \A k \in Nat : k \in S
  <2> HIDE DEF S
  <2> QED BY <1>6, <1>7, Answering!NatSetInduction
<1>9. f[n].display = LastSaid(all, Named(ks, n)) /\ "display" \in DOMAIN f[n]
  <2>1. n <= n
    BY <1>1
  <2> QED BY <1>1, <1>8, <2>1
<1>10. Named(ks, n) = ks
  BY <1>1 DEF Named, Matching
<1> QED BY <1>4, <1>9, <1>10

\* What the document means by it is the same.
LEMMA OwnDisplayIs ==
  ASSUME NEW e
  PROVE  OwnDisplay(e) = IF e.means.display # NoTag THEN e.means.display
                         ELSE LastSaid(Sheet, Matching(Sheet, NodeOf(e), Nodes))
<1>1. Applying(e) = Matching(Sheet, NodeOf(e), Nodes)
  BY DEF Applying, Matching
<1>2. ASSUME NEW ks PROVE LastSay(ks, LAMBDA r : r.display, "") = LastSaid(Sheet, ks)
  BY Zenon DEF LastSay, LastSaid, SaidBy, Latest, Saying, NoTag
<1> QED BY <1>1, <1>2 DEF OwnDisplay, Either, NoTag

LEMMA ComputedIs ==
  ASSUME NEW v, NEW node, NEW text, NEW nodes, nodes = [k \in DOMAIN v.anc |-> v.anc[k].node],
         "display" \in DOMAIN Compute(v.sheet, node, nodes)
  PROVE  Computed(v, node, text).display = IF InlineDisplay(text) = NoTag
                                           THEN Compute(v.sheet, node, nodes).display
                                           ELSE InlineDisplay(text)
<1>1. PICK c, i : c = Compute(v.sheet, node, nodes) /\ i = InlineDisplay(text)
  OBVIOUS
<1>2. "display" \in DOMAIN c
  BY <1>1
<1>3. [c EXCEPT !.display = i].display = i
  BY <1>2
<1> QED BY <1>1, <1>3 DEF Computed, NoTag

-----------------------------------------------------------------------------
(***************************************************************************)
(* Whether a rule matches: no rule asks for what the stack has wrong.      *)
(***************************************************************************)
LEMMA AboveSame ==
  ASSUME NEW a, NEW o, NEW s, NEW d, Stands(a, o, Len(o), s, d), Sequence(o), Lone(o), NEW p,
         \A e \in Elements : e.tag \in RawTags \cup {RowTag} => ~SimpleMatch(p, NodeOf(e))
  PROVE  (\E k \in DOMAIN a : SimpleMatch(p, a[k].node))
            <=> (\E k \in DOMAIN o : SimpleMatch(p, NodeOf(o[k].e)))
<1>1. /\ Sequence(a) /\ s \in Nat /\ Len(a) \in Nat /\ DOMAIN a = 1..Len(a)
      /\ Len(o) \in Nat /\ DOMAIN o = 1..Len(o)
  BY StandsBounds, SequenceFacts
<1>2. ASSUME NEW k \in DOMAIN a, SimpleMatch(p, a[k].node)
      PROVE  \E j \in DOMAIN o : SimpleMatch(p, NodeOf(o[j].e))
  <2>1. k \in 1..s \/ k \in (s + 1)..Len(a)
    BY <1>1
  <2>2. CASE k \in 1..s
    <3>1. PICK e \in Elements : e.tag \in RawTags /\ a[k] = Entry(e)
      BY <2>2 DEF Stands
    <3>2. SimpleMatch(p, NodeOf(e))
      BY <1>2, <3>1, EntryFacts
    <3> QED BY <3>1, <3>2
  <2>3. CASE k \in (s + 1)..Len(a)
    <3>1. PICK j \in 1..Len(o) : d[j] = k /\ Risen(a, o, d, j)
      BY <2>3 DEF Stands
    <3>2. a[k].node = NodeOf(o[j].e)
      BY <3>1, EntryFacts DEF Risen
    <3> QED BY <1>1, <1>2, <3>1, <3>2
  <2> QED BY <2>1, <2>2, <2>3
<1>3. ASSUME NEW j \in DOMAIN o, SimpleMatch(p, NodeOf(o[j].e))
      PROVE  \E k \in DOMAIN a : SimpleMatch(p, a[k].node)
  <2>1. j \in 1..Len(o) /\ j \in 0..Len(o) /\ j - 1 \in 0..Len(o)
    BY <1>1
  <2>2. Risen(a, o, d, j)
    <3>1. o[j].e.tag # RowTag
      BY <1>3, <2>1 DEF Lone
    <3> QED BY <2>1, <3>1 DEF Stands
  <2>3. d[j] \in Nat /\ d[j - 1] \in Nat /\ d[j] <= Len(a)
    BY <2>1 DEF Stands
  <2>4. d[j] = d[j - 1] + 1 /\ a[d[j]].node = NodeOf(o[j].e)
    BY <2>2, EntryFacts DEF Risen
  <2>5. d[j] \in DOMAIN a
    BY <1>1, <2>3, <2>4
  <2> QED BY <1>3, <2>4, <2>5
<1> QED BY <1>2, <1>3

LEMMA MatchSame ==
  ASSUME NEW a, NEW o, NEW s, NEW d, Stands(a, o, Len(o), s, d), Sequence(o), Lone(o),
         NEW r, AsksForOthers(r), NEW node
  PROVE  SelectorMatch(r, node, [k \in DOMAIN a |-> a[k].node])
            <=> SelectorMatch(r, node, [k \in DOMAIN o |-> NodeOf(o[k].e)])
<1>1. ASSUME NEW p \in r.above
      PROVE  (\E k \in DOMAIN a : SimpleMatch(p, a[k].node))
                <=> (\E k \in DOMAIN o : SimpleMatch(p, NodeOf(o[k].e)))
  <2>1. \A e \in Elements : e.tag \in RawTags \cup {RowTag} => ~SimpleMatch(p, NodeOf(e))
    BY Zenon DEF AsksForOthers, RowTag
  <2> QED BY <2>1, AboveSame
<1>3. SelectorMatch(r, node, [k \in DOMAIN a |-> a[k].node]) <=>
               /\ SimpleMatch(r.self, node)
               /\ \A p \in r.above : \E k \in DOMAIN a : SimpleMatch(p, a[k].node)
  BY Zenon DEF SelectorMatch
<1>4. SelectorMatch(r, node, [k \in DOMAIN o |-> NodeOf(o[k].e)]) <=>
               /\ SimpleMatch(r.self, node)
               /\ \A p \in r.above : \E k \in DOMAIN o : SimpleMatch(p, NodeOf(o[k].e))
  BY Zenon DEF SelectorMatch
<1> QED BY <1>1, <1>3, <1>4

-----------------------------------------------------------------------------
(***************************************************************************)
(* The rules of the document are those of its blocks.                      *)
(***************************************************************************)
RulesOnly(rs) == Sequence(rs) /\ \A k \in 1..Len(rs) : AsksForOthers(rs[k])
Ruled == RulesOnly(rules) /\ RulesOnly(block)

LEMMA RulesConcat ==
  ASSUME NEW s, RulesOnly(s), NEW t, RulesOnly(t)
  PROVE  RulesOnly(s \o t)
<1>1. PICK S, T : s \in Seq(S) /\ t \in Seq(T)
  BY DEF RulesOnly, Sequence
<1>2. PICK U : U = S \cup T
  OBVIOUS
<1>3. s \in Seq(U) /\ t \in Seq(U)
  BY <1>1, <1>2
<1>4. s \o t \in Seq(U)
  BY <1>3
<1>5. Len(s) \in Nat /\ Len(t) \in Nat /\ Len(s \o t) = Len(s) + Len(t)
  BY <1>3
<1>6. \A k \in 1..(Len(s) + Len(t)) : (s \o t)[k] = IF k <= Len(s) THEN s[k] ELSE t[k - Len(s)]
  BY <1>3
<1>7. PICK u : u = s \o t
  OBVIOUS
<1>8. ASSUME NEW k \in 1..Len(u) PROVE AsksForOthers(u[k])
  <2>1. k \in 1..(Len(s) + Len(t))
    BY <1>5, <1>7
  <2>2. CASE k <= Len(s)
    <3>1. k \in 1..Len(s) /\ u[k] = s[k]
      BY <1>5, <1>6, <1>7, <2>1, <2>2
    <3> QED BY <3>1 DEF RulesOnly
  <2>3. CASE ~(k <= Len(s))
    <3>1. k - Len(s) \in 1..Len(t) /\ u[k] = t[k - Len(s)]
      BY <1>5, <1>6, <1>7, <2>1, <2>3
    <3> QED BY <3>1 DEF RulesOnly
  <2> QED BY <2>2, <2>3
<1>9. Sequence(u)
  BY <1>4, <1>7, SequenceOf
<1> QED BY <1>7, <1>8, <1>9 DEF RulesOnly

LEMMA RulesAtMost ==
  ASSUME NEW s, RulesOnly(s), NEW n \in Nat, NEW u, u = AtMost(s, n)
  PROVE  RulesOnly(u)
<1>1. CASE Len(s) <= n
  BY <1>1 DEF AtMost
<1>2. CASE ~(Len(s) <= n)
  <2>1. PICK S : s \in Seq(S)
    BY DEF RulesOnly, Sequence
  <2>2. Len(s) \in Nat /\ n \in 0..Len(s) /\ u = SubSeq(s, 1, n)
    BY <1>2, <2>1 DEF AtMost
  <2>3. \A k \in 1..n : k \in 1..Len(s)
    BY <2>2
  <2>4. u \in Seq(S) /\ Len(u) = n /\ \A k \in 1..n : u[k] = s[k]
    BY <2>1, <2>2
  <2>5. Sequence(u)
    BY <2>4, SequenceOf
  <2>6. \A k \in 1..Len(u) : AsksForOthers(u[k])
    BY <2>3, <2>4 DEF RulesOnly
  <2> QED BY <2>5, <2>6 DEF RulesOnly
<1> QED BY <1>1, <1>2

LEMMA BlocksRuled ==
  ASSUME SheetsAskForOthers, NEW b \in Blocks
  PROVE  RulesOnly(b.means)
<1>1. Sequence(b.means)
  BY BlockAssumption DEF Sequence
<1>2. DOMAIN b.means = 1..Len(b.means)
  BY <1>1, SequenceFacts
<1> QED BY <1>1, <1>2 DEF RulesOnly, SheetsAskForOthers

LEMMA RuledInit ==
  ASSUME Init
  PROVE  Ruled
<1>1. rules = <<>> /\ block = <<>>
  BY DEF Init
<1> QED BY <1>1, NothingFacts DEF Ruled, RulesOnly

LEMMA RuledStep ==
  ASSUME Ruled, SheetsAskForOthers, [Next]_vars
  PROVE  Ruled'
<1>1. RulesOnly(<<>>)
  BY NothingFacts DEF RulesOnly
<1>2. CASE rules' = rules /\ block' \in {block, <<>>}
  BY <1>1, <1>2 DEF Ruled
<1>3. CASE WriteChar \/ WriteEntity
  BY <1>2, <1>3 DEF WriteChar, WriteEntity
<1>4. CASE WriteBlank \/ WriteComment
  BY <1>2, <1>4 DEF WriteBlank, WriteComment
<1>5. ASSUME NEW e \in Elements, WriteTag(e) PROVE Ruled'
  <2>1. rules' = rules /\ block' \in {block, <<>>}
    BY <1>5 DEF WriteTag
  <2> QED BY <1>2, <2>1
<1>6. CASE CloseTag
  <2>1. block' = block /\ (rules' = rules \/ rules' = AtMost(rules \o block, MaxRules))
    BY <1>6 DEF CloseTag
  <2>2. RulesOnly(AtMost(rules \o block, MaxRules))
    BY RulesConcat, RulesAtMost, CssAssumption DEF Ruled
  <2> QED BY <1>2, <2>1, <2>2 DEF Ruled
<1>7. ASSUME NEW b \in Blocks, WriteBlock(b) PROVE Ruled'
  <2>1. block' = block \o b.means /\ rules' = rules
    BY <1>7 DEF WriteBlock
  <2>2. RulesOnly(block \o b.means)
    BY BlocksRuled, RulesConcat DEF Ruled
  <2> QED BY <2>1, <2>2 DEF Ruled
<1>8. CASE UNCHANGED vars
  BY <1>2, <1>8 DEF vars
<1> QED BY <1>3, <1>4, <1>5, <1>6, <1>7, <1>8 DEF Next

LEMMA SheetRuled ==
  ASSUME Ruled, SheetsAskForOthers
  PROVE  RulesOnly(Sheet)
<1>1. Sequence(UaRules)
  <2>1. ASSUME NEW a, NEW b, NEW c, NEW d PROVE Sequence(<<a, b, c, d>>)
    <3>1. <<a, b, c, d>> \in Seq({a, b, c, d})
      OBVIOUS
    <3> QED BY <3>1, SequenceOf
  <2> QED BY <2>1, Zenon DEF UaRules
<1>2. RulesOnly(UaRules)
  BY <1>1, SequenceFacts DEF RulesOnly, SheetsAskForOthers
<1> QED BY <1>2, RulesConcat DEF Sheet, Ruled

-----------------------------------------------------------------------------
(***************************************************************************)
(* What is hidden is what the document says is.                            *)
(***************************************************************************)
LEMMA NodesIs == Nodes = [k \in DOMAIN open |-> NodeOf(open[k].e)]
BY DEF Nodes

\* Where the extractor reads, nothing open is hidden.
LEMMA ReadingStands ==
  ASSUME Following, Rooted, Reading(x)
  PROVE  Sequence(open) /\ Lone(open) /\ \E s, d : Stands(x.anc, open, Len(open), s, d)
<1>1. PICK n, s, d : Nest(open, n) /\ Stands(x.anc, open, n, s, d)
  BY DEF Rooted
<1>2. PICK m : At(x, open, m, primary)
  BY DEF Following, Followed
<1>3. Nest(open, m) /\ Sequence(x.hid) /\ Len(x.hid) = Len(open) - m
  BY <1>2 DEF At, Counted
<1>4. m = n
  BY <1>1, <1>3, NestOnce
<1>5. Sequence(open) /\ Len(open) \in Nat /\ n \in Nat
  BY <1>1, SequenceFacts DEF Nest
<1>6. Len(x.hid) = 0
  BY <1>3, SequenceFacts DEF Reading
<1>7. n = Len(open)
  BY <1>3, <1>4, <1>5, <1>6
<1> QED BY <1>1, <1>5, <1>7 DEF Rooted

LEMMA HidesAsWritten ==
  ASSUME Following, Rooted, Ruled, SheetAsWritten, StylesRead, SheetsAskForOthers
  PROVE  HidesAsMeant
<1> SUFFICES ASSUME Reading(x), NEW e \in Elements
             PROVE  Computed(x, NodeOf(e), e.style).display = OwnDisplay(e)
  BY DEF HidesAsMeant
<1>1. PICK s, d : Stands(x.anc, open, Len(open), s, d)
  BY ReadingStands
<1>2. Sequence(open) /\ Lone(open)
  BY ReadingStands
<1>3. PICK node, nodes, all : /\ node = NodeOf(e) /\ nodes = [k \in DOMAIN x.anc |-> x.anc[k].node]
                              /\ all = x.sheet \o UaRules
  OBVIOUS
<1>4. all = Sheet
  BY <1>3 DEF Sheet, SheetAsWritten
<1>5. Sequence(all) /\ DOMAIN all = 1..Len(all) /\ \A k \in 1..Len(all) : AsksForOthers(all[k])
  BY <1>4, SheetRuled, SequenceFacts DEF RulesOnly
<1>6. Matching(all, node, nodes) = Matching(Sheet, NodeOf(e), Nodes)
  <2>1. ASSUME NEW k \in DOMAIN all
        PROVE  SelectorMatch(all[k], node, nodes) <=> SelectorMatch(all[k], node, Nodes)
    <3>1. PICK r : r = all[k]
      OBVIOUS
    <3>2. AsksForOthers(r)
      BY <1>5, <3>1
    <3>3. SelectorMatch(r, node, [j \in DOMAIN x.anc |-> x.anc[j].node])
             <=> SelectorMatch(r, node, [j \in DOMAIN open |-> NodeOf(open[j].e)])
      BY <1>1, <1>2, <3>2, MatchSame
    <3>4. SelectorMatch(r, node, nodes) <=> SelectorMatch(r, node, Nodes)
      BY <1>3, <3>3, NodesIs, Zenon
    <3> QED BY <3>1, <3>4, Zenon
  <2>2. Matching(all, node, nodes) = Matching(all, node, Nodes)
    BY <2>1, Zenon DEF Matching
  <2> QED BY <1>3, <1>4, <2>2, Zenon
<1>7. PICK c, t, i : c = Compute(x.sheet, node, nodes) /\ t = e.style /\ i = InlineDisplay(t)
  OBVIOUS
<1>8. c.display = LastSaid(all, Matching(all, node, nodes)) /\ "display" \in DOMAIN c
  <2>1. PICK sheet : sheet = x.sheet
    OBVIOUS
  <2>2. all = sheet \o UaRules /\ c = Compute(sheet, node, nodes) /\ Sequence(all)
    BY <1>3, <1>5, <1>7, <2>1, Zenon
  <2> QED BY <2>2, ComputeSays, ZenonT(60)
<1>9. c.display = LastSaid(Sheet, Matching(Sheet, NodeOf(e), Nodes))
  BY <1>4, <1>6, <1>8, Zenon
<1>10. Computed(x, node, t).display = IF i = NoTag THEN c.display ELSE i
  <2>1. nodes = [k \in DOMAIN x.anc |-> x.anc[k].node]
    BY <1>3, Zenon
  <2>2. "display" \in DOMAIN Compute(x.sheet, node, nodes)
    BY <1>7, <1>8, Zenon
  <2>3. Computed(x, node, t).display = IF InlineDisplay(t) = NoTag
                                       THEN Compute(x.sheet, node, nodes).display
                                       ELSE InlineDisplay(t)
    BY <2>1, <2>2, ComputedIs, Zenon
  <2> QED BY <1>7, <2>3, Zenon
<1>11. OwnDisplay(e) = IF e.means.display # NoTag THEN e.means.display ELSE c.display
  BY <1>9, OwnDisplayIs, Zenon
<1>12. i = e.means.display
  BY <1>7 DEF StylesRead
<1> QED BY <1>3, <1>7, <1>10, <1>11, <1>12

-----------------------------------------------------------------------------
(* What the runs check. *)

LEMMA HidingInit == Init => Following /\ Rooted /\ Ruled
BY FollowingInit, RootedInit, RuledInit

LEMMA HidingStep ==
  ASSUME Tame, Closed, RawAlone, StylesRead, SheetsAskForOthers,
         Following, Rooted, Ruled, SheetAsWritten, [Next]_vars
  PROVE  (Following /\ Rooted /\ Ruled)'
BY HidesAsWritten, FollowingStep, RootedStep, RuledStep

\* As long as the sheet holds the rules the page's style elements state, the extractor
\* hides the element that comes next if and only if the rules, the elements around it and
\* its own attribute say so: the ancestors on its stack serve the rules like those of the
\* document, although the stack keeps every raw element and leaves out the rows of infoboxes.
\* For every set of elements and of style rules and documents of every length, but for the
\* kinds of document named, which the extractor does not follow (see DocVisibleText; and raw
\* text inside other elements, which keeps them on the stack), for elements whose style
\* attributes are read as they are meant and rules that are not for what stands inside
\* raw text or rows.
THEOREM DocHidesAsMeant ==
  ASSUME Awkward \cap {"hidden void", "comment in hidden", "deep", "entity outside",
                       "article in article", "raw inside"} = {},
         \A e \in Elements : e.void => e.tag \notin RawTags \cup {"main", "article"},
         StylesRead, SheetsAskForOthers
  PROVE  Spec /\ []SheetAsWritten => []HidesAsMeant
<1>1. Init => Following /\ Rooted /\ Ruled
  BY HidingInit
<1>2. Following /\ Rooted /\ Ruled /\ SheetAsWritten /\ [Next]_vars
         => (Following /\ Rooted /\ Ruled)'
  <2>1. Tame /\ Closed /\ RawAlone
    BY DEF Tame, Closed, RawAlone
  <2> QED BY <2>1, HidingStep
<1>3. Following /\ Rooted /\ Ruled /\ SheetAsWritten => HidesAsMeant
  BY HidesAsWritten
<1> QED BY <1>1, <1>2, <1>3, PTL DEF Spec

\* As long as the sheet holds the rules the page's style elements state, the page shows
\* every character and image the document means to be seen, in the order written and
\* nothing else, until the buffer is full: for every set of elements and of style rules
\* and documents of every length, but for the kinds of document named, which the extractor
\* does not follow (an element without an end tag that is hidden or raw or main, comments
\* in what is hidden, entities outside main, articles in articles, raw text inside other
\* elements, and more elements open than a stack holds).
THEOREM DocVisibleText ==
  ASSUME Awkward \cap {"hidden void", "comment in hidden", "deep", "entity outside",
                       "article in article", "raw inside"} = {},
         \A e \in Elements : e.void => e.tag \notin RawTags \cup {"main", "article"},
         StylesRead, SheetsAskForOthers
  PROVE  Spec /\ []SheetAsWritten => []VisibleText
<1>1. Init => Following
  BY FollowingInit
<1>2. Following /\ HidesAsMeant /\ [Next]_vars => Following'
  BY FollowingStep DEF Tame, Closed
<1>3. Following => VisibleText
  BY FollowingVisible
<1>4. Spec /\ []SheetAsWritten => []HidesAsMeant
  BY DocHidesAsMeant
<1> QED BY <1>1, <1>2, <1>3, <1>4, PTL DEF Spec
=============================================================================
