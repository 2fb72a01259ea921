-------------------------------- MODULE Css --------------------------------
(***************************************************************************)
(* css_tiny.c: the text of a <style> element to rules, and the style that  *)
(* the rules give an element.                                              *)
(*                                                                         *)
(* Style text is a sequence of characters; keywords are cut to one letter  *)
(* as in StyleAttr.  The name of a tag, a class or an id is a sequence of  *)
(* letters, and <<>> in a selector asks for nothing.                       *)
(***************************************************************************)
EXTENDS StyleAttr

CONSTANTS MaxRules,  \* CSS_MAX_RULES, 128
          MaxGroup   \* selectors in front of one block, 16

ASSUME CssAssumption == MaxRules \in Nat /\ MaxGroup \in Nat \ {0}

IdentStart == Alpha \cup {"_"}
IdentChars == Alpha \cup Digits \cup {"_", "-"}
TagChars   == Alpha \cup Digits

AnyNode == [tag |-> <<>>, class |-> <<>>, id |-> <<>>]

\* A rule of a sheet: above holds the ancestor asked for, if any; display "" leaves it alone.
Rule(above, self, style, display) ==
    [above |-> above, self |-> self, style |-> style, display |-> display]

-----------------------------------------------------------------------------
(* Parsing. *)

OpensComment(s, p) == Begins(s, p, <<"/", "*">>)

\* Mutant of SkipComment: the closing slash is left over.
SkipCommentShort(s, p) ==
    LET ends == {q \in (p + 2)..Len(s) : Begins(s, q, <<"*", "/">>)}
    IN  IF ends # {} THEN (CHOOSE q \in ends : \A r \in ends : q <= r) + 1
        ELSE IF p + 2 > Len(s) THEN p + 2 ELSE Len(s)

\* A comment that is not closed ends at the last character.
SkipComment(s, p) ==
    LET ends == {q \in (p + 2)..Len(s) : Begins(s, q, <<"*", "/">>)}
    IN  IF ends # {} THEN (CHOOSE q \in ends : \A r \in ends : q <= r) + 2
        ELSE IF p + 2 > Len(s) THEN p + 2 ELSE Len(s)

\* The .class and #id parts at p, until something else comes or one has no name.
SelectorParts(s, p) ==
    LET from[q \in p..(Len(s) + 1)] ==
            LET e == After(s, q + 1, IdentChars)
            IN  CASE CharAt(s, q) \notin {".", "#"} -> [ok |-> TRUE, at |-> q, parts |-> <<>>]
                  [] CharAt(s, q) \in {".", "#"} /\ CharAt(s, q + 1) \notin IdentStart ->
                         [ok |-> FALSE, at |-> q + 1, parts |-> <<>>]
                  [] OTHER -> [from[e] EXCEPT !.parts =
                                  <<[sign |-> s[q], name |-> Piece(s, q + 1, e)]>> \o @]
    IN  from[p]

FirstPart(parts, sign) ==
    LET own == SelectSeq(parts, LAMBDA x : x.sign = sign)
    IN  IF own = <<>> THEN <<>> ELSE own[1].name

\* ":hover" and the like are passed over.
AfterPseudo(s, p) ==
    LET q == After(s, p, Blanks)
    IN  IF CharAt(s, q) = ":" THEN After(s, Upto(s, q + 1, {",", "{"} \cup Blanks), Blanks) ELSE q

\* One of tag, .class, #id or several of them together: ok, at, sel.
ParseSimple(s, start) ==
    LET p      == After(s, start, Blanks)
        tagEnd == IF CharAt(s, p) \in Alpha THEN After(s, p, TagChars) ELSE p
        rest   == SelectorParts(s, tagEnd)
        ok     == CharAt(s, p) \in Alpha \cup {".", "#"} /\ rest.ok
    IN  [ok  |-> ok,
         at  |-> IF ok THEN AfterPseudo(s, rest.at) ELSE p,
         sel |-> IF ok THEN [tag |-> Piece(s, p, tagEnd), class |-> FirstPart(rest.parts, "."),
                             id |-> FirstPart(rest.parts, "#")]
                 ELSE AnyNode]

TwoParts(s, a) == CharAt(s, a.at) \in Alpha \cup {".", "#"}

Selector(s, a, b) ==
    [ok |-> a.ok /\ b.ok /\ CharAt(s, b.at) \in {",", "{", "NUL"}, at |-> b.at,
     above |-> IF TwoParts(s, a) THEN {a.sel} ELSE {}, self |-> b.sel]

SelectorFrom(s, a) == Selector(s, a, IF TwoParts(s, a) THEN ParseSimple(s, a.at) ELSE a)

\* A or A B; anything else in front of "," or "{" is a selector the browser does not know.
ParseSelector(s, start) == SelectorFrom(s, ParseSimple(s, start))

\* A selector the browser does not know is passed over.
PassUnknown(s, p, one) == IF one.ok THEN one ELSE [one EXCEPT !.at = Upto(s, p, {",", "{"})]

InFront(one, group) ==
    IF one.ok THEN [group EXCEPT !.sels = <<[above |-> one.above, self |-> one.self]>> \o @]
    ELSE group

\* The selectors in front of a block: their list and where it ends.
ParseGroup(s, start) ==
    LET from[p \in start..(Len(s) + 2)] ==
            LET q   == After(s, p, Blanks)
                one == PassUnknown(s, q, ParseSelector(s, q))
            IN  CASE p > Len(s) -> [at |-> Len(s) + 1, sels |-> <<>>]
                  [] p <= Len(s) /\ OpensComment(s, q) -> from[SkipComment(s, q)]
                  [] p <= Len(s) /\ CharAt(s, q) \in {"{", "NUL"} -> [at |-> q, sels |-> <<>>]
                  [] OTHER -> InFront(one, IF CharAt(s, one.at) = "," THEN from[one.at + 1]
                                           ELSE [at |-> one.at, sels |-> <<>>])
    IN  [from[start] EXCEPT !.sels = AtMost(@, MaxGroup)]

\* The declarations between the braces and where the block ends.
ParseBlock(s, start) ==
    LET from[p \in start..(Len(s) + 2)] ==
            LET q     == After(s, p, Blanks)
                e     == After(s, q, NameChars)
                colon == After(s, e, Blanks)
                value == After(s, colon + 1, Blanks)
                end   == Upto(s, IF CharAt(s, colon) = ":" THEN value ELSE colon, {";", "}"})
                tail  == from[IF CharAt(s, end) = ";" THEN end + 1 ELSE end]
            IN  CASE p > Len(s) -> [at |-> Len(s) + 1, decls |-> <<>>]
                  [] p <= Len(s) /\ OpensComment(s, q) -> from[SkipComment(s, q)]
                  [] p <= Len(s) /\ CharAt(s, q) \in {"}", "NUL"} ->
                         [at |-> IF q > Len(s) THEN q ELSE q + 1, decls |-> <<>>]
                  [] OTHER -> IF CharAt(s, colon) = ":" /\ e > q
                              THEN [tail EXCEPT !.decls =
                                       <<[prop |-> Piece(s, q, e),
                                          value |-> TrimRight(Piece(s, value, end))]>> \o @]
                              ELSE tail
    IN  from[start]

\* Later values win, but bold is only ever set.
Merge(st, new) ==
    [color |-> IF new.color # <<>> THEN new.color ELSE st.color,
     back  |-> IF new.back # <<>> THEN new.back ELSE st.back,
     bold  |-> st.bold \/ new.bold,
     line  |-> IF new.line # "unset" THEN new.line ELSE st.line]

Styled == {<<"c">>, <<"g">>, <<"w">>, <<"t">>}

\* Each value goes through the parser of style attributes.
BlockStyle(decls) ==
    FoldLeft(LAMBDA st, d : IF d.prop \in Styled
                            THEN Merge(st, ParseInline(d.prop \o <<":">> \o d.value)) ELSE st,
             NoStyle, decls)

DisplayOf(d) ==
    CASE d.prop = <<"d">> /\ d.value = <<"k">> -> "block"
      [] d.prop = <<"d">> /\ d.value = <<"i">> -> "inline"
      [] d.prop = <<"d">> /\ d.value = <<"n">> -> "none"
      [] OTHER -> ""

BlockDisplay(decls) ==
    FoldLeft(LAMBDA disp, d : IF DisplayOf(d) # "" THEN DisplayOf(d) ELSE disp, "", decls)

RulesOf(group, block) ==
    [k \in DOMAIN group.sels |-> Rule(group.sels[k].above, group.sels[k].self,
                                      BlockStyle(block.decls), BlockDisplay(block.decls))]

\* The rules of a block and where the parser goes on: one character further than the
\* brace (i = j; i++).
WithBlock(group, block) == [rules |-> RulesOf(group, block), at |-> block.at + 1]
RulesAt(s, group) ==
    IF CharAt(s, group.at) # "{" THEN [rules |-> <<>>, at |-> group.at + 1]
    ELSE WithBlock(group, ParseBlock(s, group.at + 1))

ParseStyle(s) ==
    LET from[p \in 1..(Len(s) + 3)] ==
            LET q     == IF OpensComment(s, p) THEN SkipComment(s, p) ELSE p
                found == RulesAt(s, ParseGroup(s, q))
            IN  CASE p > Len(s) \/ q > Len(s) -> <<>>
                  [] p <= Len(s) /\ q <= Len(s) /\ s[q] \in Blanks -> from[q + 1]
                  [] OTHER -> found.rules \o from[found.at]
    IN  from[1]

AddRules(sheet, s) == AtMost(sheet \o ParseStyle(s), MaxRules)

-----------------------------------------------------------------------------
(* The cascade. *)

\* A node has a tag, a set of classes and an id.
SimpleMatch(sel, node) ==
    /\ node.tag # <<>>
    /\ sel.tag \in {<<>>, node.tag}
    /\ sel.id \in {<<>>, node.id}
    /\ sel.class \in {<<>>} \cup node.class

SelectorMatch(rule, node, ancestors) ==
    /\ SimpleMatch(rule.self, node)
    /\ \A a \in rule.above : \E k \in DOMAIN ancestors : SimpleMatch(a, ancestors[k])

\* One of each kind of rule css_sheet_init puts in: ids, classes and classes
\* below an id that are hidden, and the breadcrumb list whose items are inline.
HiddenId    == <<"q", "q">>
HiddenClass == <<"o", "o">>
NavClass    == <<"v", "v">>
UaRules ==
    << Rule({}, [AnyNode EXCEPT !.id = HiddenId], NoStyle, "none"),
       Rule({}, [AnyNode EXCEPT !.class = HiddenClass], NoStyle, "none"),
       Rule({[AnyNode EXCEPT !.id = HiddenId]}, [AnyNode EXCEPT !.class = <<"y">>], NoStyle, "none"),
       Rule({[AnyNode EXCEPT !.class = NavClass]}, [AnyNode EXCEPT !.tag = <<"l", "i">>], NoStyle, "inline") >>

\* What a rule that matches changes of what is computed so far.
Cascade(c, r) ==
    [style   |-> Merge(c.style, r.style),
     display |-> IF r.display # "" THEN r.display ELSE c.display]

Unset == [style |-> NoStyle, display |-> ""]

\* The page's rules in their order, the browser's own last.
Compute(sheet, node, ancestors) ==
    LET all == sheet \o UaRules
        after[k \in 0..Len(all)] ==
            IF k = 0 THEN Unset
            ELSE IF SelectorMatch(all[k], node, ancestors) THEN Cascade(after[k - 1], all[k])
            ELSE after[k - 1]
    IN  after[Len(all)]
=============================================================================
