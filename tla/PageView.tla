------------------------------ MODULE PageView ------------------------------
(***************************************************************************)
(* What browser_ui.c does with the text of a page: draw_body_wrapped lays  *)
(* it out from the top, skips the rows scrolled away and draws what fits;  *)
(* browser_ui_try_link_click lays it out again to find the character under *)
(* a click.  The three walks share no state: an image's reserved rows are  *)
(* tracked by the first two and not by the third, and their line buffers   *)
(* differ in size.                                                         *)
(*                                                                         *)
(* A page is a sequence of pieces: characters and image placeholders, some *)
(* of them inside a link.  Its text and its links are those html_text.c    *)
(* writes for them.  Colours, boxes and the pixels of an image are left    *)
(* out: a row of an image is known by its slice.  So are images that float *)
(* to the right (markers FR): html_text.c writes none of them as it is     *)
(* built, HTML_ENABLE_FLOAT_RIGHT being 0.                                 *)
(***************************************************************************)
EXTENDS TextLayout, SequencesExt

CONSTANTS Pages,      \* the pages a view may start with
          Heights,    \* rows an image may be given
          Cols,       \* columns of the window, 255 at most in the program
          MaxRows,    \* rows of the window
          DrawCap,    \* line[1024] of draw_body_wrapped
          ClickCap,   \* line[256] of the hit test
          MaxScroll   \* bound on scrolling

ASSUME ViewAssumption ==
    /\ Cols \in Nat \ {0} /\ MaxRows \in Nat \ {0}
    /\ DrawCap \in Nat /\ ClickCap \in Nat
    /\ Cols < ClickCap /\ ClickCap <= DrawCap
    /\ Heights \subseteq 2..9
    /\ MaxScroll \in Nat

PageItem == [char : STRING, rows : 0..9, url : Nat, href : STRING]

\* What html_text.c makes of a document: no NUL, and a placeholder of two rows or more
\* that begins a line (append_newline_collapse, 1848) and fits in the renderer's
\* buffer: its label has 95 characters at most and its address 511.
Written(ps) ==
    \A k \in DOMAIN ps :
        /\ ps[k].char # "NUL"
        /\ ps[k].char = "RS" => /\ ps[k].rows >= 2 /\ ps[k].url + 2 < DrawCap
                                /\ k > 1 => ps[k - 1].char \in {"LF", "RS"}

ASSUME PagesAssumption == Pages \subseteq Seq(PageItem) /\ \A ps \in Pages : Written(ps)

VARIABLES doc,     \* the page: its pieces, and what html_text.c made of them
          scroll,  \* g_scroll_rows
          walk,    \* which walk is going on
          pos,     \* its position in the text
          row,     \* rows it has passed
          box,     \* img_box: the image whose reserved rows it is in
          screen,  \* the rows drawn
          aim,     \* the row of the page and the column clicked
          hit      \* the link the click opens

viewVars == <<doc, scroll, walk, pos, row, box, screen, aim, hit>>

-----------------------------------------------------------------------------
(***************************************************************************)
(* The text and the links that pieces become.  of[p] is the piece position *)
(* p of the text comes from, which the program does not know.              *)
(***************************************************************************)
Digits == <<"1", "2", "3", "4", "5", "6", "7", "8", "9">>

\* A placeholder is its marker line and rows - 1 empty lines.
PieceText(piece) ==
    IF piece.char # "RS" THEN <<piece.char>>
    ELSE <<"RS", Digits[piece.rows]>> \o [k \in 1..piece.url |-> "u"]
         \o [k \in 1..piece.rows |-> "LF"]

AddPiece(pg, piece) ==
    LET chars == PieceText(piece)
        start == Len(pg.text) + 1
    IN  [pieces |-> Append(pg.pieces, piece),
         text   |-> pg.text \o chars,
         links  |-> IF piece.href = "" THEN pg.links
                    ELSE Append(pg.links, [start |-> start, end |-> start + Len(chars),
                                           href |-> piece.href]),
         of     |-> pg.of \o [k \in DOMAIN chars |-> [piece |-> piece, start |-> start]]]

PageOf(pieces) ==
    FoldLeft(AddPiece, [pieces |-> <<>>, text |-> <<>>, links |-> <<>>, of |-> <<>>], pieces)

Text == doc.text

\* The binary search of links_href_at_index: links that start at idx or before.
StartedBy(links, idx) ==
    LET search[r \in (0..Len(links)) \X (0..Len(links))] ==
            LET lo == r[1]  hi == r[2]  mid == lo + (hi - lo) \div 2
            IN  IF lo >= hi THEN lo
                ELSE IF links[mid + 1].start <= idx THEN search[<<mid + 1, hi>>]
                ELSE search[<<lo, mid>>]
    IN  search[<<0, Len(links)>>]

HrefAt(links, idx) ==
    LET n == StartedBy(links, idx)
    IN  IF /\ links # <<>> /\ idx < links[Len(links)].end
           /\ n > 0 /\ idx < links[n].end
        THEN links[n].href ELSE ""

-----------------------------------------------------------------------------
NoBox == [of |-> 0, at |-> 0, rows |-> 0]
NoAim == [row |-> 0, col |-> 0, on |-> FALSE]

IsMarker(r) == r.more /\ r.n > 0 /\ Text[r.from] = "RS"

\* The height is read from the digits of the marker, at least two rows.
MarkerHeight(r) ==
    LET h == CHOOSE h \in DOMAIN Digits : Digits[h] = Text[r.from + 1]
    IN  IF h < 2 THEN 2 ELSE h

\* Mutant of Reserve: the marker row is not counted as a row of the image.
ReserveOneMore(b, r) ==
    CASE b # NoBox -> IF b.at >= b.rows THEN NoBox ELSE [b EXCEPT !.at = @ + 1]
      [] b = NoBox /\ IsMarker(r)  -> [of |-> r.from, at |-> 1, rows |-> MarkerHeight(r)]
      [] b = NoBox /\ ~IsMarker(r) -> NoBox

\* The box after a row: the marker row is the image's first.
Reserve(b, r) ==
    CASE b # NoBox -> IF b.at + 1 >= b.rows THEN NoBox ELSE [b EXCEPT !.at = @ + 1]
      [] b = NoBox /\ IsMarker(r)  -> [of |-> r.from, at |-> 1, rows |-> MarkerHeight(r)]
      [] b = NoBox /\ ~IsMarker(r) -> NoBox

\* What is drawn of a row: a slice of an image, or a piece of the text.
Drawn(b, r) ==
    IF b # NoBox THEN [image |-> TRUE, from |-> b.of, n |-> b.at]
    ELSE IF IsMarker(r) THEN [image |-> TRUE, from |-> r.from, n |-> 0]
    ELSE [image |-> FALSE, from |-> r.from, n |-> r.n]

Restart ==
    /\ walk' = "skip"
    /\ pos' = 1 /\ row' = 0 /\ box' = NoBox
    /\ screen' = <<>> /\ aim' = NoAim /\ hit' = ""

ViewInit ==
    /\ \E pieces \in Pages : doc = PageOf(pieces)
    /\ scroll = 0
    /\ walk = "skip" /\ pos = 1 /\ row = 0 /\ box = NoBox
    /\ screen = <<>> /\ aim = NoAim /\ hit = ""

\* A row scrolled away.
SkipRow ==
    /\ walk = "skip" /\ row < scroll
    /\ LET r == NextRow(Text, pos, Cols, DrawCap)
       IN  /\ r.more
           /\ pos' = r.next /\ row' = row + 1
           /\ box' = Reserve(box, r)
    /\ UNCHANGED <<doc, scroll, walk, screen, aim, hit>>

\* All of them, or the text has come to its end.
Skipped ==
    /\ walk = "skip"
    /\ row = scroll \/ ~NextRow(Text, pos, Cols, DrawCap).more
    /\ walk' = "draw" /\ row' = 0
    /\ UNCHANGED <<doc, scroll, pos, box, screen, aim, hit>>

DrawRow ==
    /\ walk = "draw" /\ row < MaxRows
    /\ LET r == NextRow(Text, pos, Cols, DrawCap)
       IN  /\ r.more
           /\ screen' = Append(screen, Drawn(box, r))
           /\ pos' = r.next /\ row' = row + 1
           /\ box' = Reserve(box, r)
    /\ UNCHANGED <<doc, scroll, walk, aim, hit>>

Painted ==
    /\ walk = "draw"
    /\ row = MaxRows \/ ~NextRow(Text, pos, Cols, DrawCap).more
    /\ walk' = "idle" /\ pos' = 1 /\ row' = 0 /\ box' = NoBox
    /\ UNCHANGED <<doc, scroll, screen, aim, hit>>

-----------------------------------------------------------------------------
\* Mutant of Click: the row clicked is taken for a row of the page.
ClickUnscrolled ==
    /\ walk = "idle"
    /\ \E r \in 0..(MaxRows - 1), c \in 0..(Cols - 1) :
        aim' = [row |-> r, col |-> c, on |-> TRUE]
    /\ walk' = "click" /\ hit' = ""
    /\ UNCHANGED <<doc, scroll, pos, row, box, screen>>

\* A click on a cell of the window that is no button.
Click ==
    /\ walk = "idle"
    /\ \E r \in 0..(MaxRows - 1), c \in 0..(Cols - 1) :
        aim' = [row |-> r + scroll, col |-> c, on |-> TRUE]
    /\ walk' = "click" /\ hit' = ""
    /\ UNCHANGED <<doc, scroll, pos, row, box, screen>>

\* A row above the one clicked.
PassRow ==
    /\ walk = "click" /\ row < aim.row
    /\ LET r == NextRow(Text, pos, Cols, ClickCap)
       IN  /\ r.more
           /\ pos' = r.next /\ row' = row + 1
    /\ UNCHANGED <<doc, scroll, walk, box, screen, aim, hit>>

\* The row clicked, or the end of the text.
Resolve ==
    /\ walk = "click"
    /\ LET r == NextRow(Text, pos, Cols, ClickCap)
       IN  /\ ~r.more \/ row = aim.row
           /\ hit' = IF r.more /\ ~IsMarker(r) /\ aim.col < r.n
                     THEN HrefAt(doc.links, r.from + aim.col) ELSE ""
    /\ walk' = "idle" /\ pos' = 1 /\ row' = 0
    /\ UNCHANGED <<doc, scroll, box, screen, aim>>

-----------------------------------------------------------------------------
\* The wheel turns; there is no end of the page to stop at.
Wheel ==
    /\ walk = "idle"
    /\ scroll' \in 0..MaxScroll
    /\ Restart
    /\ UNCHANGED doc

\* Dimensions of images have arrived: the text is extracted anew and painted.
ImagesArrive ==
    /\ walk = "idle"
    /\ \E h \in Heights :
        doc' = PageOf([k \in DOMAIN doc.pieces |->
                            IF doc.pieces[k].char # "RS" THEN doc.pieces[k]
                            ELSE [doc.pieces[k] EXCEPT !.rows = h]])
    /\ Restart
    /\ UNCHANGED scroll

Walking == SkipRow \/ Skipped \/ DrawRow \/ Painted \/ PassRow \/ Resolve

ViewNext == Walking \/ Click \/ Wheel \/ ImagesArrive

ViewSpec == ViewInit /\ [][ViewNext]_viewVars

-----------------------------------------------------------------------------
ViewTypeOK ==
    /\ walk \in {"skip", "draw", "idle", "click"}
    /\ scroll \in 0..MaxScroll
    /\ row \in Nat
    /\ pos \in 1..(Len(Text) + 1)
    /\ screen \in Seq([image : BOOLEAN, from : 1..(Len(Text) + 1), n : Nat])
    /\ Len(screen) <= MaxRows
    /\ \A k \in DOMAIN screen : screen[k].image \/ screen[k].n <= Cols

Shows(k, p) == /\ ~screen[k].image
               /\ screen[k].from <= p
               /\ p < screen[k].from + screen[k].n

Word(p) == Text[p] \notin {"SP", "LF"}

\* However the rows were cut and skipped, no character is missing between two rows
\* of the screen that are next to each other, and none is shown twice.
NothingLost ==
    \A k \in 1..(Len(screen) - 1) :
        LET a == screen[k]  b == screen[k + 1]
        IN  ~a.image /\ ~b.image =>
            /\ a.from + a.n <= b.from
            /\ \A p \in (a.from + a.n)..(b.from - 1) : ~Word(p)

\* What a row shows, by the piece it starts in: the slice of an image is told by
\* how far the row is behind the marker.
RowOf(d, r) ==
    IF r.from > Len(d.text) THEN [image |-> FALSE, from |-> r.from, n |-> r.n]
    ELSE LET o == d.of[r.from]
         IN  IF o.piece.char # "RS" THEN [image |-> FALSE, from |-> r.from, n |-> r.n]
             ELSE [image |-> TRUE, from |-> o.start,
                   n |-> IF r.from = o.start THEN 0
                         ELSE r.from - (o.start + 2 + o.piece.url)]

\* The rows of a page from p on: what a window long enough would show.
RowsFrom(d, p) ==
    LET rows[q \in 1..(Len(d.text) + 1)] ==
            LET r == NextRow(d.text, q, Cols, DrawCap)
            IN  IF r.more THEN <<RowOf(d, r)>> \o rows[r.next] ELSE <<>>
    IN  rows[p]

PageRows == RowsFrom(doc, 1)

\* Scrolling shows the page as it is further down, in the middle of an image too.
ScrollIsSlice ==
    walk = "idle" =>
        screen = SubSeq(PageRows, scroll + 1,
                        Least(Len(PageRows), scroll + MaxRows))

\* A click opens the link whose text is drawn where it falls, and no other.
ClickHitsShown ==
    walk = "idle" /\ aim.on =>
        LET k == aim.row - scroll + 1
            p == screen[k].from + aim.col
        IN  hit = IF k \in DOMAIN screen /\ Shows(k, p)
                  THEN doc.of[p].piece.href ELSE ""
=============================================================================
