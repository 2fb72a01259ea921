----------------------------- MODULE MCHtmlDoc -----------------------------
(* A few elements of every kind the extractor tells apart. *)
EXTENDS HtmlDoc

Says(style, display) == [style |-> style, display |-> display]
Nothing == Says(NoStyle, "")

Red   == <<255, 0, 0>>
Plain(tag, name) ==
    [tag |-> tag, name |-> name, class |-> {}, id |-> <<>>, style |-> <<>>, means |-> Nothing,
     href |-> "", void |-> FALSE, icon |-> FALSE, rows |-> 0, wide |-> FALSE]

Bold     == Plain("b", <<"b">>)
Span     == [Plain("span", <<"s">>) EXCEPT !.class = {<<"k">>}]
Coloured == [Plain("div", <<"d">>) EXCEPT !.style = <<"c", ":", "#", "f", "0", "0", ";", "t", ":", "u">>,
                 !.means = Says([NoStyle EXCEPT !.color = Red, !.line = "on"], "")]
Hidden   == [Plain("div", <<"d">>) EXCEPT !.style = <<"d", ":", "n">>, !.means = Says(NoStyle, "none")]
Toc      == [Plain("div", <<"d">>) EXCEPT !.class = {HiddenClass}]
A        == [Plain("a", <<"a">>) EXCEPT !.href = "p"]
Image    == [Plain("img", <<"i">>) EXCEPT !.void = TRUE, !.rows = 3]
SmallImg == [Image EXCEPT !.icon = TRUE]
Li       == Plain("li", <<"l", "i">>)
Nav      == [Plain("ul", <<"u", "l">>) EXCEPT !.class = {NavClass}]
Table    == [Plain("table", <<"t">>) EXCEPT !.class = {TableClass}]
Tr       == Plain("tr", <<"t", "r">>)
Td       == Plain("td", <<"t", "d">>)
Th       == [Plain("th", <<"t", "h">>) EXCEPT !.wide = TRUE]
MainTag  == Plain("main", <<"m">>)
Article  == Plain("article", <<"a", "r">>)
Script   == Plain("script", <<"s", "c">>)
StyleTag == Plain("style", <<"s", "t">>)

MCElements == {Bold, Span, Coloured, Hidden, Toc, A, Image, SmallImg, Li, Nav, Table,
               Tr, Td, Th, MainTag, Article, Script, StyleTag}

\* With those that only matter to some kinds of Awkward document.
Div      == Plain("div", <<"d">>)
Hr       == [Coloured EXCEPT !.tag = "hr", !.name = <<"h">>, !.void = TRUE]
HiddenImage == [Image EXCEPT !.style = Hidden.style, !.means = Hidden.means]
AllElements == MCElements \cup {Div, Hr, HiddenImage}

\* .k is red; a b in a .k is underlined; and a rule nobody needs, with comments.
KRule  == Rule({}, [AnyNode EXCEPT !.class = <<"k">>], [NoStyle EXCEPT !.color = Red], "")
BInK   == Rule({[AnyNode EXCEPT !.class = <<"k">>]}, [AnyNode EXCEPT !.tag = <<"b">>],
               [NoStyle EXCEPT !.line = "on"], "")
MCBlocks ==
    {[text |-> <<".", "k", ":", "h", ",", "a", ">", "b", "{", "c", ":", "r", "}", " ">>, means |-> <<KRule>>],
     [text |-> <<"/", "*", "{", "*", "/", ".", "k", ".", "z", " ", "b", " ", "{", "t", ":", "u", ";", "/", "*", "}", "*", "/", "}">>,
      means |-> <<BInK>>]}

\* For what is hidden: a b in a .k is, every b is shown again, and every .k is not; an
\* element that hides itself, and one that shows itself whatever the rules say.
Shown    == [Plain("b", <<"b">>) EXCEPT !.style = <<"d", ":", "i">>, !.means = Says(NoStyle, "inline")]
HidingElements == {Bold, Shown, Span, Hidden, Toc, Image, Script, StyleTag}
Says_k_b == Rule({[AnyNode EXCEPT !.class = <<"k">>]}, [AnyNode EXCEPT !.tag = <<"b">>], NoStyle, "none")
Says_b   == Rule({}, [AnyNode EXCEPT !.tag = <<"b">>], NoStyle, "inline")
Says_k   == Rule({}, [AnyNode EXCEPT !.class = <<"k">>], NoStyle, "none")
HidingBlocks ==
    {[text |-> <<".", "k", " ", "b", "{", "d", ":", "n", "}", " ">>, means |-> <<Says_k_b>>],
     [text |-> <<"b", "{", "d", ":", "i", "}", " ">>, means |-> <<Says_b>>],
     [text |-> <<".", "k", "{", "d", ":", "n", "}", " ">>, means |-> <<Says_k>>]}

\* The same without white space between two rules, as sheets are sent that were made small.
TightBlocks == {[b EXCEPT !.text = Front(b.text)] : b \in HidingBlocks}

\* What the theorems about what is hidden ask of the elements and of the rules.
ASSUME HidingAssumption ==
    /\ \A e \in Elements : e.void => e.tag \notin RawTags \cup {"main", "article"}
    /\ StylesRead /\ SheetsAskForOthers
=============================================================================
