------------------------------ MODULE HtmlDoc ------------------------------
(***************************************************************************)
(* Documents, written token by token with every element closed in order,   *)
(* and what html_text.c makes of them.  Every state is the end of some     *)
(* document: a page may stop anywhere, and the properties are about        *)
(* Finished(x), what the browser shows for what was written so far.        *)
(*                                                                         *)
(* Beside the extractor's x the state keeps the truth about the document:  *)
(* the elements open, the characters and images written and where, the     *)
(* rules of its style sheets.                                              *)
(*                                                                         *)
(* Some documents are shown wrongly.  Each kind has a name, and documents  *)
(* of a kind are only written when its name is in Awkward.                 *)
(***************************************************************************)
EXTENDS HtmlText, FiniteSets

CONSTANTS Elements,   \* the start tags a document may use
          Blocks,     \* what may stand in a style element: selectors, declarations, their meaning
          Awkward,    \* the kinds of document below that may be written
          MaxTags, MaxWritten, MaxGaps, MaxBlocks

AwkwardKinds ==
    {"hidden void",        \* <img style="display:none">: waits for </img> for ever
     "comment in hidden",  \* counted as an open element without a name
     "deep",               \* more elements open than a stack holds
     "raw inside",         \* script inside an element: its ancestors stay open to the sheet
     "same name",          \* an element in a styled one of the same name ends the style
     "styled void",        \* the style of <hr style="..."> is never taken back
     "entity outside",     \* &amp; outside main
     "icon before main",   \* its range stays and covers other text
     "main inside style",  \* the style or link around main is forgotten
     "article in article", \* the end of the inner one ends the outer
     "tight sheet"}        \* no white space after a brace: a character of the next rule is eaten

ASSUME DocAssumption == Awkward \subseteq AwkwardKinds
ASSUME ElementAssumption == \A e \in Elements : e.rows \in Nat
ASSUME BlockAssumption == \A b \in Blocks : b.means \in Seq({b.means[k] : k \in DOMAIN b.means})

VARIABLES x,        \* the extractor's local variables
          open,     \* the elements open, the outermost first
          written,  \* the characters and images of the document and where they stand
          rules,    \* the rules of the style elements closed so far
          block,    \* the rules of the style element being written
          primary,  \* "main", "article" or "none": what the page is taken from
          spent     \* tags, blanks, comments and blocks written

vars == <<x, open, written, rules, block, primary, spent>>

-----------------------------------------------------------------------------
(* What a document means: css_tiny.h and html_text.h, as their comments    *)
(* tell it.                                                                *)

Nodes == [k \in DOMAIN open |-> NodeOf(open[k].e)]

\* The last rule that matches and has a say decides; the browser's own come last.
Sheet == rules \o UaRules
Applying(e) == {k \in DOMAIN Sheet : SelectorMatch(Sheet[k], NodeOf(e), Nodes)}
LastSay(ks, Value(_), none) ==
    LET say == {k \in ks : Value(Sheet[k]) # none}
    IN  IF say = {} THEN none ELSE Value(Sheet[CHOOSE k \in say : \A m \in say : m <= k])
Either(a, b, none) == IF a # none THEN a ELSE b

OwnDisplay(e) == Either(e.means.display, LastSay(Applying(e), LAMBDA r : r.display, ""), "")
OwnStyle(e) ==
    LET st == e.means.style
        rs == Applying(e)
    IN  [color |-> Either(st.color, LastSay(rs, LAMBDA r : r.style.color, <<>>), <<>>),
         back  |-> Either(st.back, LastSay(rs, LAMBDA r : r.style.back, <<>>), <<>>),
         bold  |-> st.bold \/ e.tag \in Bolds \/ \E k \in rs : Sheet[k].style.bold,
         line  |-> Either(st.line, LastSay(rs, LAMBDA r : r.style.line, "unset"), "unset")]

\* What an element adds to what is around it; a link's own style is kept with the link.
Outside == [e |-> [tag |-> ""], hidden |-> FALSE, own |-> NoStyle, style |-> NoStyle, href |-> "",
            main |-> FALSE, article |-> FALSE]
Around == IF open = <<>> THEN Outside ELSE Top(open)

Inside(e) ==
    LET own == OwnStyle(e)
    IN  [e       |-> e,
         hidden  |-> Around.hidden \/ OwnDisplay(e) = "none",
         own     |-> own,
         style   |-> IF e.tag = "a" THEN Around.style ELSE Merge(Around.style, own),
         href    |-> IF e.tag = "a" THEN e.href ELSE Around.href,
         main    |-> Around.main \/ e.tag = "main",
         article |-> Around.article \/ e.tag = "article"]

InRaw == Around.e.tag \in RawTags

\* Where a character stands.
Place == [Around EXCEPT !.hidden = @ \/ InRaw]

\* Not in the part of the document the page is taken from.
Aside(place) ==
    \/ primary = "main" /\ ~place.main
    \/ primary = "article" /\ ~place.article

-----------------------------------------------------------------------------
(* Kinds of document that are left out unless asked for. *)

Unless(kind, case) == case => kind \in Awkward

Stuck == Cardinality({k \in DOMAIN x.anc : x.anc[k].tag \in RawTags})

\* in is what the start tag e makes.
MayStart(e, in) ==
    /\ Unless("hidden void", e.void /\ in.hidden /\ ~Around.hidden)
    /\ Unless("deep", ~e.void /\ Len(open) + Stuck >= StackCap)
    /\ Unless("raw inside", e.tag \in RawTags /\ open # <<>>)
    /\ Unless("same name", \E k \in DOMAIN open : open[k].e.tag = e.tag /\ ~IsDefault(open[k].own))
    /\ Unless("styled void", ~in.hidden /\ e.void /\ ~IsDefault(in.own))
    /\ Unless("icon before main", /\ e.tag \in {"main", "article"}
                                  /\ \E n \in DOMAIN written : written[n].kind = "img")
    /\ Unless("main inside style", /\ e.tag \in {"main", "article"}
                                   /\ ~IsDefault(Around.style) \/ Around.href # "")
    /\ Unless("article in article", \/ e.tag = "main" /\ Around.main
                                    \/ e.tag = "article" /\ Around.article)

-----------------------------------------------------------------------------
Init ==
    /\ x = Fresh
    /\ open = <<>> /\ written = <<>> /\ rules = <<>> /\ block = <<>> /\ primary = "none"
    /\ spent = [tags |-> 0, gaps |-> 0, blocks |-> 0]

This == Len(written) + 1

Write(kind, place) ==
    /\ This <= MaxWritten
    /\ written' = Append(written, [kind |-> kind, hidden |-> place.hidden, style |-> place.style,
                                   href |-> place.href, main |-> place.main,
                                   article |-> place.article])

WriteChar ==
    /\ Around.e.tag # "style"
    /\ Write("char", Place)
    /\ x' = Char(x, This)
    /\ UNCHANGED <<open, rules, block, primary, spent>>

WriteEntity ==
    /\ ~InRaw
    /\ Unless("entity outside", Aside(Place))
    /\ Write("char", Place)
    /\ x' = Entity(x, This)
    /\ UNCHANGED <<open, rules, block, primary, spent>>

WriteBlank ==
    /\ Around.e.tag # "style"
    /\ spent.gaps < MaxGaps
    /\ spent' = [spent EXCEPT !.gaps = @ + 1]
    /\ x' = White(x)
    /\ UNCHANGED <<open, written, rules, block, primary>>

WriteComment ==
    /\ ~InRaw
    /\ Unless("comment in hidden", Around.hidden)
    /\ spent.gaps < MaxGaps
    /\ spent' = [spent EXCEPT !.gaps = @ + 1]
    /\ x' = Comment(x)
    /\ UNCHANGED <<open, written, rules, block, primary>>

\* An image is something written, too.
WriteTag(e) ==
    /\ ~InRaw
    /\ spent.tags < MaxTags
    /\ e.tag = "a" => Around.href = ""
    /\ LET in == Inside(e)
       IN  /\ MayStart(e, in)
           /\ IF e.tag = "img" THEN Write(IF e.icon THEN "img" ELSE "marker", in)
                               ELSE UNCHANGED written
           /\ open' = IF e.void THEN open ELSE Append(open, in)
           /\ primary' = CASE ~in.hidden /\ e.tag = "main" -> "main"
                           [] ~in.hidden /\ e.tag = "article" /\ primary = "none" -> "article"
                           [] OTHER -> primary
    /\ x' = StartTag(x, e, This)
    /\ block' = IF e.tag = "style" THEN <<>> ELSE block
    /\ spent' = [spent EXCEPT !.tags = @ + 1]
    /\ UNCHANGED rules

CloseTag ==
    /\ open # <<>>
    /\ x' = EndTag(x, Around.e)
    /\ open' = Pop(open)
    /\ rules' = IF Around.e.tag = "style" /\ ~Around.hidden
                THEN AtMost(rules \o block, MaxRules) ELSE rules
    /\ UNCHANGED <<written, block, primary, spent>>

WriteBlock(b) ==
    /\ Around.e.tag = "style"
    /\ Unless("tight sheet", x.css # <<>> /\ Top(x.css) = "}")
    /\ spent.blocks < MaxBlocks
    /\ spent' = [spent EXCEPT !.blocks = @ + 1]
    /\ x' = RawText(x, b.text)
    /\ block' = block \o b.means
    /\ UNCHANGED <<open, written, rules, primary>>

Next ==
    \/ WriteChar \/ WriteEntity \/ WriteBlank \/ WriteComment
    \/ \E e \in Elements : WriteTag(e)
    \/ CloseTag
    \/ \E b \in Blocks : WriteBlock(b)

Spec == Init /\ [][Next]_vars

-----------------------------------------------------------------------------
Page == Finished(x)
NotFull == Here(x) + 1 < OutCap

Ids(text) == {text[k][2] : k \in DOMAIN text} \ {0}

\* TypeOK: the ranges of the page and of the extractor lie within its text, its
\* stacks within their bounds (html_text.c:942-1062).
TypeOK ==
    /\ Here(x) < OutCap
    /\ x.space \in BOOLEAN /\ x.raw \in {""} \cup RawTags
    /\ \A n \in {Len(x.hid), Len(x.anc), Len(x.styles), Len(x.tables), Len(x.navs)} : n <= StackCap
    /\ x.a.start <= Here(x) /\ x.span.start <= Here(x)
    /\ Ids(x.out) \subseteq DOMAIN written
    /\ LET page == Page
       IN  \A k \in DOMAIN page.spans : /\ page.spans[k].from < page.spans[k].to
                                         /\ page.spans[k].to <= Len(page.text)

\* The characters and images the document means to be seen.
Meant == {n \in DOMAIN written : ~written[n].hidden /\ ~Aside(written[n])}

\* HidesAsMeant: whichever element comes next, the extractor, with the rules it has read
\* and the ancestors on its stack, hides it if and only if the rules and elements of the
\* document say so (html_text.c:1249-1273, css_tiny.c:263-300).
HidesAsMeant ==
    Reading(x) => \A e \in Elements :
        Computed(x, NodeOf(e), e.style).display = "none" <=> OwnDisplay(e) = "none"

\* The attributes of the elements are read as they are meant (checked for all of them).
StylesRead == \A e \in Elements : InlineDisplay(e.style) = e.means.display

\* No rule is for what stands inside raw text or inside a row: the first stays among the
\* ancestors for ever, the second may never be put there.
AsksForOthers(r) ==
    \A a \in r.above, e \in Elements :
        e.tag \in RawTags \cup {"tr"} => ~SimpleMatch(a, NodeOf(e))
SheetsAskForOthers ==
    /\ \A b \in Blocks : \A k \in DOMAIN b.means : AsksForOthers(b.means[k])
    /\ \A k \in DOMAIN UaRules : AsksForOthers(UaRules[k])

\* VisibleText: the page shows what the document means to be seen, all of it, in
\* order and nothing else, whatever is hidden, commented out or put aside, as long
\* as the buffer holds (html_text.c:1098-1144, 1542-1612, 1625-1648).
VisibleText ==
    LET text == Page.text
        seen == Ids(text)
    IN  /\ seen \subseteq Meant
        /\ \A n \in Meant \ seen : ~NotFull /\ \A m \in seen : m < n
        /\ \A k, m \in DOMAIN text :
              k < m /\ text[k][2] # 0 /\ text[m][2] # 0 =>
                  \/ text[k][2] < text[m][2]
                  \/ \A j \in k..m : text[j] = text[k] /\ text[k][1] = "img"

\* The ranges that cover the character k of the text.
Covering(ranges, k) ==
    {ranges[i] : i \in {j \in DOMAIN ranges : ranges[j].from < k /\ k <= ranges[j].to}}

Drawn(style) == [style EXCEPT !.line = IF @ = "on" THEN @ ELSE "unset"]

\* StyledAsNested: every character on the page is covered by one span of exactly the
\* style that the elements around it, their classes and their attributes give it, or
\* by none when they give none (html_text.c:286-310, 1467-1540).
StyledAsNested ==
    LET page == Page
    IN  Len(page.spans) < MaxSpans =>
            \A k \in DOMAIN page.text :
                page.text[k][1] = "char" =>
                    LET style == written[page.text[k][2]].style
                    IN  {Drawn(s.style) : s \in Covering(page.spans, k)} =
                            IF IsDefault(style) THEN {} ELSE {Drawn(style)}

\* LinksCover: links come in the order of the text and do not overlap, as the binary
\* search of browser_ui.c:173 needs, and once no link is open every character and
\* image lies in the link it was written in and in no other (html_text.c:1373-1465).
LinksCover ==
    LET page == Page
    IN  /\ \A i, j \in DOMAIN page.links : i < j => page.links[i].to <= page.links[j].from
        /\ Around.href = "" /\ Len(page.links) < MaxLinks =>
              \A k \in DOMAIN page.text :
                  page.text[k][2] # 0 =>
                      {l.href : l \in Covering(page.links, k)} =
                          {written[page.text[k][2]].href} \ {""}

\* IconsInPlace: the range kept for an inline image is the one its marker takes up,
\* for every marker in the text (html_text.c:1743-1760).
IconsInPlace ==
    LET page  == Page
        spots == {[k \in 1..IconLen |-> f + k] : f \in 0..(Len(page.text) - IconLen)}
    IN  NotFull /\ Len(page.icons) < MaxIcons =>
            {[k \in 1..IconLen |-> page.icons[i].from + k] : i \in DOMAIN page.icons} =
            {ks \in spots : \E n \in DOMAIN written :
                               \A k \in 1..IconLen : page.text[ks[k]] = <<"img", n>>}

\* SheetAsWritten: the rules in the sheet are those the page's style elements state,
\* whatever white space and comments they are written with (css_tiny.c:477-601).
SheetAsWritten == x.sheet = rules
=============================================================================
