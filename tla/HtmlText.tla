------------------------------ MODULE HtmlText ------------------------------
(***************************************************************************)
(* html_text.c: a document, token by token, to the text a page shows with  *)
(* its links, style spans and inline images.                               *)
(*                                                                         *)
(* The program is one loop over the bytes of the document.  Here it is a   *)
(* function on the record x of its local variables for every token: a      *)
(* character, a blank, an entity, a comment, a start tag, an end tag, and  *)
(* a piece of text inside script, style or noscript.                       *)
(*                                                                         *)
(* A character of the output is <<kind, n>>, where n says which character  *)
(* or image of the document it came from and is 0 for layout.  The length  *)
(* of out before a character is its position in the ranges of links, spans *)
(* and icons, which the program counts from 0.                             *)
(***************************************************************************)
EXTENDS Css

CONSTANTS OutCap,    \* size of the buffer of the text, its terminating zero included
          StackCap,  \* depth of every stack of the extractor, 16
          MaxLinks,  \* HTML_MAX_LINKS, 2048
          MaxSpans,  \* HTML_MAX_SPANS, 1024
          MaxIcons   \* HTML_MAX_INLINE_IMGS, 512

ASSUME HtmlAssumption ==
    /\ OutCap \in Nat \ {0} /\ StackCap \in Nat \ {0}
    /\ MaxLinks \in Nat /\ MaxSpans \in Nat /\ MaxIcons \in Nat

Space   == <<" ", 0>>
Newline == <<"\n", 0>>
Nbsp    == <<"nbsp", 0>>
IconLen == 5   \* "[img]"

NoAnchor == [on |-> FALSE, start |-> 0, href |-> "", style |-> NoStyle]
NoSpan   == [on |-> FALSE, start |-> 0, style |-> NoStyle]

\* main and article are "unseen", "in" or "out" (of the last one seen).
Fresh ==
    [out |-> <<>>, space |-> TRUE, raw |-> "", css |-> <<>>, hid |-> <<>>,
     anc |-> <<>>, sheet |-> <<>>, main |-> "unseen", article |-> "unseen",
     a |-> NoAnchor, cur |-> NoStyle, styles |-> <<>>, span |-> NoSpan,
     tables |-> <<>>, navs |-> <<>>, cell |-> 0,
     links |-> <<>>, spans |-> <<>>, icons |-> <<>>]

Here(x) == Len(x.out)
Top(stack) == stack[Len(stack)]
Pop(stack) == SubSeq(stack, 1, Len(stack) - 1)

-----------------------------------------------------------------------------
(* Output. *)

\* A full buffer takes nothing more.
Put(x, c) == IF Here(x) + 1 < OutCap THEN [x EXCEPT !.out = Append(@, c)] ELSE x

PutAll(x, cs) == FoldLeft(Put, x, cs)

Blank(x) == IF x.space THEN x ELSE [Put(x, Space) EXCEPT !.space = TRUE]

Glyph(x, c) == [Put(x, c) EXCEPT !.space = FALSE]

AtLineStart(x) == x.out # <<>> /\ Top(x.out) = Newline

\* A hard break, none at the start of the text and never two in a row.
Break(x) ==
    [(IF x.out = <<>> \/ AtLineStart(x) THEN x ELSE Put(x, Newline)) EXCEPT !.space = TRUE]

\* A break and an empty line after it.
BlankLine(x) == LET y == Break(x) IN IF AtLineStart(y) THEN Put(y, Newline) ELSE y

\* Text goes to the page outside main and article only while there is none.
Allowed(x) ==
    /\ x.main # "out"
    /\ x.main = "in" \/ x.article # "out"

-----------------------------------------------------------------------------
(* Style spans. *)

IsDefault(st) == st.color = <<>> /\ st.back = <<>> /\ ~st.bold /\ st.line # "on"

EmitSpan(spans, span, end) ==
    IF span.start < end /\ ~IsDefault(span.style) /\ Len(spans) < MaxSpans
    THEN Append(spans, [from |-> span.start, to |-> end, style |-> span.style])
    ELSE spans

\* The style of what follows is now x.cur.
SwitchSpan(x) ==
    LET next == [on |-> ~IsDefault(x.cur), start |-> Here(x), style |-> x.cur]
    IN  CASE ~x.span.on -> IF next.on THEN [x EXCEPT !.span = next] ELSE x
          [] x.span.on /\ x.span.style = x.cur -> x
          [] OTHER -> [x EXCEPT !.spans = EmitSpan(@, x.span, Here(x)), !.span = next]

-----------------------------------------------------------------------------
(* Inside script, style and noscript, and inside hidden elements. *)

RawTags == {"script", "style", "noscript"}

RawText(x, text) == IF x.raw = "style" THEN [x EXCEPT !.css = @ \o text] ELSE x

EndRaw(x) ==
    Blank([x EXCEPT !.raw = "",
                    !.sheet = IF x.raw = "style" THEN AddRules(@, x.css) ELSE @])

\* Mutant of HiddenStart: an element that is never closed is waited for, too.
HiddenStartVoid(x, e) ==
    IF Len(x.hid) < StackCap THEN [x EXCEPT !.hid = Append(@, e.tag)] ELSE x

HiddenStart(x, e) ==
    IF ~e.void /\ Len(x.hid) < StackCap THEN [x EXCEPT !.hid = Append(@, e.tag)] ELSE x

HiddenEnd(x, tag) ==
    IF Top(x.hid) # tag THEN x
    ELSE LET y == [x EXCEPT !.hid = Pop(@)] IN IF y.hid = <<>> THEN Blank(y) ELSE y

\* A comment is a start tag without a name to the loop that skips what is hidden.
Comment(x) ==
    CASE x.raw # "" -> x
      [] x.raw = "" /\ x.hid # <<>> ->
             IF Len(x.hid) < StackCap THEN [x EXCEPT !.hid = Append(@, "")] ELSE x
      [] OTHER -> Blank(x)

-----------------------------------------------------------------------------
(* What the style sheet and the style attribute say of a tag. *)

\* The first display of the attribute that is known.
InlineDisplay(text) ==
    LET ds == SelectSeq(Declarations(text), LAMBDA d : DisplayOf(d) # "")
    IN  IF ds = <<>> THEN "" ELSE DisplayOf(ds[1])

Computed(x, node, text) ==
    LET c == Compute(x.sheet, node, [k \in DOMAIN x.anc |-> x.anc[k].node])
    IN  IF InlineDisplay(text) = "" THEN c ELSE [c EXCEPT !.display = InlineDisplay(text)]

NodeOf(e)  == [tag |-> e.name, class |-> e.class, id |-> e.id]
BareNode(e) == [tag |-> e.name, class |-> {}, id |-> <<>>]

PushAncestor(x, e) ==
    IF ~e.void /\ Len(x.anc) < StackCap
    THEN [x EXCEPT !.anc = Append(@, [tag |-> e.tag, node |-> NodeOf(e)])] ELSE x

PopAncestor(x, tag) ==
    IF x.anc # <<>> /\ Top(x.anc).tag = tag THEN [x EXCEPT !.anc = Pop(@)] ELSE x

-----------------------------------------------------------------------------
(* Tables and lists. *)

TableClass == <<"w", "w">>   \* infobox and wikitable

PushMode(stack, mode) == IF Len(stack) < StackCap THEN Append(stack, mode) ELSE stack
PopMode(stack) == IF stack = <<>> THEN stack ELSE Pop(stack)
InMode(stack)  == \E k \in DOMAIN stack : stack[k]

TableStart(x, e) ==
    IF e.tag = "table" THEN [x EXCEPT !.tables = PushMode(@, TableClass \in e.class)] ELSE x
TableEnd(x, tag) == IF tag = "table" THEN [x EXCEPT !.tables = PopMode(@)] ELSE x

ListStart(x, e) ==
    IF e.tag \in {"ul", "ol"} THEN [x EXCEPT !.navs = PushMode(@, NavClass \in e.class)] ELSE x
ListEnd(x, tag) == IF tag \in {"ul", "ol"} THEN [x EXCEPT !.navs = PopMode(@)] ELSE x

IsRow(x, tag) == InMode(x.tables) /\ tag = "tr"
Row(x) == [Break(x) EXCEPT !.cell = 0]

\* A heading cell across the row starts a paragraph; cells are kept apart.
Cell(x, e) ==
    LET y == IF e.tag = "th" /\ e.wide THEN [BlankLine(x) EXCEPT !.cell = 0] ELSE x
        z == CASE y.cell = 0 -> y
               [] y.cell = 1 -> [PutAll(y, <<<<":", 0>>, Space>>) EXCEPT !.space = FALSE]
               [] OTHER -> [PutAll(y, <<Space, <<"|", 0>>, Space>>) EXCEPT !.space = FALSE]
    IN  IF InMode(x.tables) /\ e.tag \in {"td", "th"} THEN [z EXCEPT !.cell = @ + 1] ELSE x

-----------------------------------------------------------------------------
(* Links and styles. *)

LinkStart(x, e, style) ==
    IF e.tag = "a" /\ e.href # ""
    THEN [x EXCEPT !.a = [on |-> TRUE, start |-> Here(x), href |-> e.href,
                          style |-> Merge(style, ParseInline(e.style))]]
    ELSE x

LinkEnd(x, tag) ==
    IF tag # "a" THEN x
    ELSE [x EXCEPT !.a = NoAnchor,
                   !.links = IF x.a.on /\ Len(@) < MaxLinks
                             THEN Append(@, [from |-> x.a.start, to |-> Here(x),
                                             href |-> x.a.href, style |-> x.a.style])
                             ELSE @]

Headings == {"h1", "h2", "h3", "h4", "h5", "h6"}
Bolds    == {"b", "strong"} \cup Headings

\* Bold of its own, the sheet's style, the attribute's over it; an underline
\* that the sheet takes away is not looked at.
StyleStart(x, e, style) ==
    LET inline == ParseInline(e.style)
        own    == Merge([style EXCEPT !.bold = @ \/ e.tag \in Bolds], inline)
        any    == ~IsDefault([own EXCEPT !.line = style.line]) \/ inline.line # "unset"
    IN  IF e.tag # "a" /\ any /\ Len(x.styles) < StackCap
        THEN SwitchSpan([x EXCEPT !.styles = Append(@, [tag |-> e.tag, style |-> x.cur]),
                                  !.cur = Merge(@, own)])
        ELSE x

\* Mutant of StyleEnd: the span that is open goes on.
StyleEndSilent(x, tag) ==
    IF tag # "a" /\ x.styles # <<>> /\ Top(x.styles).tag = tag
    THEN [x EXCEPT !.cur = Top(x.styles).style, !.styles = Pop(@)]
    ELSE x

StyleEnd(x, tag) ==
    IF tag # "a" /\ x.styles # <<>> /\ Top(x.styles).tag = tag
    THEN SwitchSpan([x EXCEPT !.cur = Top(x.styles).style, !.styles = Pop(@)])
    ELSE x

-----------------------------------------------------------------------------
(* main and article. *)

\* Mutant of Discard: the links of what is dropped are kept.
DiscardKeepsLinks(x) ==
    [x EXCEPT !.out = <<>>, !.space = TRUE, !.spans = <<>>, !.span = NoSpan,
              !.cur = NoStyle, !.styles = <<>>, !.a = NoAnchor]

\* What came before is dropped, the inline images excepted.
Discard(x) ==
    [x EXCEPT !.out = <<>>, !.space = TRUE, !.links = <<>>, !.spans = <<>>, !.span = NoSpan,
              !.cur = NoStyle, !.styles = <<>>, !.a = NoAnchor]

MainStart(x, tag) ==
    CASE tag = "main" -> [(IF x.main = "unseen" THEN Discard(x) ELSE x) EXCEPT !.main = "in"]
      [] tag = "article" /\ x.main = "unseen" ->
             [(IF x.article = "unseen" THEN Discard(x) ELSE x) EXCEPT !.article = "in"]
      [] OTHER -> x

MainEnd(x, tag) ==
    CASE tag = "main" /\ x.main # "unseen" -> [x EXCEPT !.main = "out"]
      [] tag = "article" /\ x.main = "unseen" /\ x.article # "unseen" -> [x EXCEPT !.article = "out"]
      [] OTHER -> x

RawStart(x, tag) == IF tag \in RawTags THEN [x EXCEPT !.raw = tag, !.css = <<>>] ELSE x

-----------------------------------------------------------------------------
(* Images and breaks. *)

\* Mutant of Icon: the range starts before the space in front of the marker.
IconFromSpace(x, n) ==
    LET y == Blank(x)
        z == PutAll(y, [k \in 1..IconLen |-> <<"img", n>>])
    IN  [Put(z, Nbsp) EXCEPT
             !.space = TRUE,
             !.icons = IF Len(@) < MaxIcons
                       THEN Append(@, [from |-> Here(x), to |-> Here(x) + IconLen, img |-> n]) ELSE @]

\* Known to be small: in the line, followed by a space that does not break.
Icon(x, n) ==
    LET y == Blank(x)
        z == PutAll(y, [k \in 1..IconLen |-> <<"img", n>>])
    IN  [Put(z, Nbsp) EXCEPT
             !.space = TRUE,
             !.icons = IF Len(@) < MaxIcons
                       THEN Append(@, [from |-> Here(y), to |-> Here(y) + IconLen, img |-> n]) ELSE @]

\* A marker line and rows for the picture; the marker is one character here.
Placeholder(x, e, n) ==
    LET y == Put(Break(x), <<"marker", n>>)
    IN  BlankLine([PutAll(y, [k \in 1..e.rows |-> Newline]) EXCEPT !.space = TRUE])

BlockTags == {"br", "p", "div", "li", "tr", "td", "th", "hr", "pre", "blockquote", "ul", "ol",
              "section", "header", "footer", "nav"} \cup Headings

IsBlock(x, tag, display) ==
    CASE tag = "li" /\ InMode(x.navs) -> FALSE
      [] ~(tag = "li" /\ InMode(x.navs)) /\ display \in {"block", "inline"} -> display = "block"
      [] OTHER -> tag \in BlockTags /\ ~(InMode(x.tables) /\ tag \in {"td", "th", "tr"})

BreakAt(x, tag, display) ==
    CASE Allowed(x) /\ tag \in Headings -> BlankLine(x)
      [] Allowed(x) /\ tag \notin Headings /\ IsBlock(x, tag, display) -> Break(x)
      [] OTHER -> x

Bullet(x, tag, display) ==
    IF Allowed(x) /\ tag = "li" /\ IsBlock(x, tag, display)
    THEN [PutAll(x, <<<<"-", 0>>, Space>>) EXCEPT !.space = TRUE] ELSE x

-----------------------------------------------------------------------------
(* Tags. *)

Shape(x, e, n, display) ==
    IF e.tag = "img" /\ Allowed(x)
    THEN IF e.icon THEN Icon(x, n) ELSE Placeholder(x, e, n)
    ELSE Bullet(BreakAt(x, e.tag, display), e.tag, display)

VisibleStart(x, e, n) ==
    LET c == Computed(x, NodeOf(e), e.style)
        y == ListStart(TableStart(x, e), e)
        z == StyleStart(LinkStart(PushAncestor(Cell(y, e), e), e, c.style), e, c.style)
    IN  CASE c.display = "none" -> [x EXCEPT !.hid = Append(@, e.tag)]
          [] c.display # "none" /\ IsRow(y, e.tag) -> Row(y)
          [] OTHER -> Shape(RawStart(MainStart(z, e.tag), e.tag), e, n, c.display)

StartTag(x, e, n) ==
    CASE x.raw # "" -> x
      [] x.raw = "" /\ x.hid # <<>> -> HiddenStart(x, e)
      [] OTHER -> VisibleStart(x, e, n)

\* The sheet is asked about an end tag too, but only by its name.
VisibleEnd(x, e) ==
    LET y == PopAncestor(x, e.tag)
        c == Computed(y, BareNode(e), <<>>)
        z == ListEnd(TableEnd(y, e.tag), e.tag)
    IN  IF IsRow(z, e.tag) THEN Row(z)
        ELSE BreakAt(MainEnd(StyleEnd(LinkEnd(z, e.tag), e.tag), e.tag), e.tag, c.display)

EndTag(x, e) ==
    CASE x.raw # "" -> IF x.raw = e.tag THEN EndRaw(x) ELSE x
      [] x.raw = "" /\ x.hid # <<>> -> HiddenEnd(x, e.tag)
      [] OTHER -> VisibleEnd(x, e)

-----------------------------------------------------------------------------
(* Text. *)

Reading(x) == x.raw = "" /\ x.hid = <<>>

Char(x, n)    == IF Reading(x) /\ Allowed(x) THEN Glyph(x, <<"char", n>>) ELSE x
White(x)      == IF Reading(x) /\ Allowed(x) THEN Blank(x) ELSE x

\* An entity that is known; nobody asks whether text is allowed.
Entity(x, n)  == IF Reading(x) THEN Glyph(x, <<"char", n>>) ELSE x

-----------------------------------------------------------------------------
(* The end of the document. *)

TrimmedText(out) ==
    LET keep == {k \in DOMAIN out : out[k] \notin {Space, Newline}}
    IN  IF keep = {} THEN <<>> ELSE SubSeq(out, 1, CHOOSE k \in keep : \A m \in keep : m <= k)

\* Mutant of ClampSpan: a span may reach past the trimmed text.
ClampSpanNot(span, end) == span

ClampSpan(span, end) == [span EXCEPT !.to = IF @ > end THEN end ELSE @]

\* Spans that begin behind the trimmed text are dropped, the others end with it.
KeepSpan(page, span) ==
    IF span.from < Len(page.text)
    THEN [page EXCEPT !.spans = Append(@, ClampSpan(span, Len(page.text)))] ELSE page

Finished(x) ==
    LET text == TrimmedText(x.out)
        all  == IF x.span.on THEN EmitSpan(x.spans, x.span, Len(text)) ELSE x.spans
    IN  FoldLeft(KeepSpan, [text |-> text, links |-> x.links, icons |-> x.icons, spans |-> <<>>], all)
=============================================================================
