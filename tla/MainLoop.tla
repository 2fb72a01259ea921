------------------------------ MODULE MainLoop ------------------------------
(***************************************************************************)
(* The browser process: main of main.c, which polls the shared header,     *)
(* edits the URL bar and navigates, and browser_do_https_status of         *)
(* browser_nav.c, which it calls and which returns when the page is there. *)
(* The header and its writers are in InputChannel.                         *)
(*                                                                         *)
(* The loop is one process; a step is one read of the header (of button    *)
(* and state together) and what is done with it.  A navigation is part of  *)
(* the step that starts it: it reads nothing of the header, so that what   *)
(* the writers do meanwhile may as well happen before or after.  That it   *)
(* ends is assumed here; Navigation says when it does.                     *)
(*                                                                         *)
(* Abstractions.  A site stands for a host and a path.  The edited URL is  *)
(* its length; what it parses to is any site or nothing.  A wheel event    *)
(* scrolls by one unit.  Images are in ImgPipeline: here they only repaint *)
(* the page.                                                               *)
(***************************************************************************)
EXTENDS InputChannel

CONSTANTS Site,      \* what can be navigated to
          NoSite,    \* the empty URL bar before the first page
          Button,    \* site buttons of the top bar: a subset of Site
          Hit,       \* what is at a pair of coordinates
          MaxEdit,   \* characters in the URL editor, URL_BUF_LEN - 1
          MaxScroll  \* bound of the scroll position

ASSUME MainAssumption ==
    /\ NoSite \notin Site /\ Button \subseteq Site /\ Site # {}
    /\ Hit \in [X \X Y -> Button \cup {"reload", "bar", "body"}]
    /\ MaxEdit \in Nat \ {0} /\ MaxScroll \in Nat

VARIABLES pc,      \* where the loop is
          kpos,    \* its copy of keyq_wpos
          click,   \* the coordinates it has read
          host,    \* host and path of main: what Reload fetches
          bar,     \* g_url_bar and g_active_host
          page,    \* g_visible: no page yet, a page, or why there is none
          edit,    \* g_url_edit
          scroll,  \* g_scroll_rows
          screen,  \* the URL on the screen
          typed,   \* history: keys pushed and not taken
          overrun, \* history: an untaken key was overwritten
          due,     \* history: the last button event, a press not acted upon
          turn     \* history: the last wheel event, if not acted upon

loopVars == <<pc, kpos, click>>
pageVars == <<host, bar, page, edit, scroll, screen>>
history == <<typed, overrun, due, turn>>
vars == <<inputVars, loopVars, pageVars, history>>

NoEdit == [on |-> FALSE, n |-> 0]
NoClick == [x |-> 0, y |-> 0]
NotDue == [press |-> FALSE, x |-> 0, y |-> 0]

Shows(s) == [edit |-> FALSE, n |-> 0, url |-> s]

\* url_bar_display: the edited URL, or that of the page.
Display(e, b) == IF e.on THEN [edit |-> TRUE, n |-> e.n, url |-> NoSite]
                 ELSE Shows(b)

Init ==
    /\ InitInput
    /\ pc = "start" /\ kpos = 0 /\ click = NoClick
    /\ host \in Site
    /\ bar = NoSite /\ page = "none" /\ edit = NoEdit /\ scroll = 0
    /\ screen = Shows(host)
    /\ typed = <<>> /\ overrun = FALSE /\ due = NotDue /\ turn = 0

-----------------------------------------------------------------------------
(***************************************************************************)
(* browser_do_https_status: redirects lead from host to some other site.   *)
(* A failed connection returns early; a failed exchange, a body that is    *)
(* encoded, a redirect too many or one that is not understood do not.      *)
(***************************************************************************)
Connected(t) == bar' = t /\ page' = "shown"
CannotConnect == bar' = bar /\ page' = "failed"

Navigate ==
    /\ host' \in Site
    /\ Connected(host') \/ CannotConnect
    /\ scroll' = 0

\* browser_render_page or redraw_now, outside a navigation.
Repaint(e) ==
    /\ screen' = Display(e, bar)
    /\ UNCHANGED <<host, bar, page, scroll>>

EditBegin == edit' = [on |-> TRUE, n |-> IF bar = NoSite THEN 0 ELSE 1]
EditCancel == edit' = NoEdit

InsertChar(e) == IF e.n < MaxEdit THEN [e EXCEPT !.n = @ + 1] ELSE e

\* Mutant of Backspace: at the start of the text it wraps.
BackspaceAtStart(e) == [e EXCEPT !.n = @ - 1]

Backspace(e) == IF e.n > 0 THEN [e EXCEPT !.n = @ - 1] ELSE e

-----------------------------------------------------------------------------
(***************************************************************************)
(* One key.  "g" is a letter that also opens the editor; "x" any other.    *)
(***************************************************************************)
\* Blanks and control characters are not inserted.
TypeText(k) ==
    /\ k \in {"g", "x"}
    /\ edit' \in {edit, InsertChar(edit)}
    /\ Repaint(edit')

EraseText(k) ==
    /\ k = "back"
    /\ edit' = Backspace(edit)
    /\ Repaint(edit')

LeaveEdit(k) ==
    /\ k = "esc"
    /\ EditCancel
    /\ Repaint(edit')

\* Mutant of EnterNothing: the parse has already replaced the host.
EnterReplacesHost(k) ==
    /\ k = "enter"
    /\ UNCHANGED <<edit, scroll, bar, page>>
    /\ screen' = Display(edit, bar)
    /\ host' \in Site

\* Enter on something that is no URL does nothing.
EnterNothing(k) ==
    /\ k = "enter"
    /\ UNCHANGED edit
    /\ Repaint(edit)

\* Enter on a URL.  The page is painted twice, by the navigation and then by the
\* loop, from g_url_bar.
EnterUrl(k) ==
    /\ k = "enter" /\ edit.n > 0
    /\ EditCancel
    /\ Navigate
    /\ screen' = Shows(bar')

KeyEdits(k) ==
    /\ edit.on
    /\ TypeText(k) \/ EraseText(k) \/ LeaveEdit(k) \/ EnterNothing(k) \/ EnterUrl(k)

KeyCommands(k) ==
    /\ ~edit.on
    /\ IF k = "g" THEN EditBegin ELSE UNCHANGED edit
    /\ Repaint(edit')

(***************************************************************************)
(* One click, at what Hit says (browser_ui_action_from_click).             *)
(***************************************************************************)
\* Mutant of ClickBar: the editor opens and is not painted.
ClickBarUnpainted ==
    /\ EditBegin
    /\ UNCHANGED <<host, bar, page, scroll, screen>>

ClickBar ==
    /\ EditBegin
    /\ Repaint(edit')

\* A site button, or Reload.
ClickGo ==
    /\ EditCancel
    /\ Navigate
    /\ screen' = Shows(host')

\* A link, or text that is none; either way the editor closes.
ClickBody ==
    \/ ClickGo
    \/ /\ EditCancel
       /\ IF edit.on THEN Repaint(edit') ELSE UNCHANGED pageVars

Click(a) ==
    CASE a = "bar"  -> ClickBar
      [] a = "body" -> ClickBody
      [] OTHER      -> ClickGo

-----------------------------------------------------------------------------
(***************************************************************************)
(* The loop.                                                               *)
(***************************************************************************)

\* The first page; only then are the mouse and the key counters looked at.
Start ==
    /\ pc = "start"
    /\ pc' = "sync mouse"
    /\ Navigate
    /\ screen' = Shows(host')
    /\ UNCHANGED <<hdr, writer, lead, seen, kpos, click, edit, history>>

SyncMouse ==
    /\ pc = "sync mouse"
    /\ pc' = "sync keys"
    /\ seen' = [seen EXCEPT !.mouse = hdr.mouse]
    /\ due' = NotDue
    /\ UNCHANGED <<hdr, writer, lead, kpos, click, pageVars, typed, overrun, turn>>

SyncKeys ==
    /\ pc = "sync keys"
    /\ pc' = "wheel"
    /\ seen' = [seen EXCEPT !.key = hdr.wpos]
    /\ typed' = <<>> /\ overrun' = FALSE
    /\ UNCHANGED <<hdr, writer, lead, kpos, click, pageVars, due, turn>>

\* Mutant of ReadWheel: the turn is taken and thrown away at the top of a page.
ReadWheelAtTop ==
    /\ pc = "wheel"
    /\ pc' = IF hdr.wheel = seen.wheel \/ scroll = 0 THEN "keys" ELSE "delta"
    /\ seen' = [seen EXCEPT !.wheel = hdr.wheel]
    /\ UNCHANGED <<hdr, writer, lead, kpos, click, pageVars, history>>

ReadWheel ==
    /\ pc = "wheel"
    /\ pc' = IF hdr.wheel = seen.wheel THEN "keys" ELSE "delta"
    /\ seen' = [seen EXCEPT !.wheel = hdr.wheel]
    /\ UNCHANGED <<hdr, writer, lead, kpos, click, pageVars, history>>

Scrolled(s, dy) ==
    IF dy > 0 THEN IF s > 0 THEN s - 1 ELSE 0
    ELSE IF dy < 0 /\ s < MaxScroll THEN s + 1 ELSE s

ReadDelta ==
    /\ pc = "delta"
    /\ pc' = "keys"
    /\ scroll' = Scrolled(scroll, hdr.dy)
    /\ screen' = Display(edit, bar)
    /\ turn' = IF turn = hdr.dy THEN 0 ELSE turn
    /\ UNCHANGED <<hdr, writer, lead, seen, kpos, click, host, bar, page, edit, typed,
                   overrun, due>>

ReadKeys ==
    /\ pc = "keys"
    /\ pc' = "key"
    /\ kpos' = hdr.wpos
    /\ UNCHANGED <<hdr, writer, lead, seen, click, pageVars, history>>

\* Mutant of TakeKey: the last key of the batch is left in the ring, and lost.
TakeKeySkips ==
    /\ pc = "key" /\ seen.key # kpos
    /\ seen' = [seen EXCEPT !.key = kpos]
    /\ LET k == hdr.keyq[seen.key % Ring]
       IN  KeyEdits(k) \/ KeyCommands(k)
    /\ typed' = IF typed = <<>> THEN <<>> ELSE Tail(typed)
    /\ overrun' = (overrun /\ seen'.key # hdr.wpos)
    /\ UNCHANGED <<hdr, writer, lead, pc, kpos, click, due, turn>>

\* The slot is read whether or not it still holds the key that was put there.
TakeKey ==
    /\ pc = "key" /\ seen.key # kpos
    /\ seen' = [seen EXCEPT !.key = NextPos(@)]
    /\ LET k == hdr.keyq[seen.key % Ring]
       IN  KeyEdits(k) \/ KeyCommands(k)
    /\ typed' = IF typed = <<>> THEN <<>> ELSE Tail(typed)
    /\ overrun' = (overrun /\ seen'.key # hdr.wpos)
    /\ UNCHANGED <<hdr, writer, lead, pc, kpos, click, due, turn>>

\* Mutant of KeysTaken: the position is read again before the loop ends.
KeysTakenOnlyIfNoMore ==
    /\ pc = "key" /\ seen.key = kpos
    /\ IF kpos = hdr.wpos
       THEN pc' = "mouse" /\ kpos' = 0
       ELSE pc' = "key" /\ kpos' = hdr.wpos
    /\ UNCHANGED <<hdr, writer, lead, seen, click, pageVars, history>>

KeysTaken ==
    /\ pc = "key" /\ seen.key = kpos
    /\ pc' = "mouse"
    /\ kpos' = 0
    /\ UNCHANGED <<hdr, writer, lead, seen, click, pageVars, history>>

ReadMouse ==
    /\ pc = "mouse"
    /\ pc' = IF hdr.mouse = seen.mouse THEN "pump" ELSE "state"
    /\ seen' = [seen EXCEPT !.mouse = hdr.mouse]
    /\ UNCHANGED <<hdr, writer, lead, kpos, click, pageVars, history>>

ReadState ==
    /\ pc = "state"
    /\ pc' = IF hdr.down THEN "x" ELSE "pump"
    /\ UNCHANGED <<hdr, writer, lead, seen, kpos, click, pageVars, history>>

ReadX ==
    /\ pc = "x"
    /\ pc' = "y"
    /\ click' = [click EXCEPT !.x = hdr.x]
    /\ UNCHANGED <<hdr, writer, lead, seen, kpos, pageVars, history>>

ReadYAndAct ==
    /\ pc = "y"
    /\ pc' = "pump"
    /\ Click(Hit[click.x, hdr.y])
    /\ click' = NoClick
    /\ due' = IF due.x = click.x /\ due.y = hdr.y THEN NotDue ELSE due
    /\ UNCHANGED <<hdr, writer, lead, seen, kpos, typed, overrun, turn>>

\* Images that arrived repaint the page, with g_url_bar; then the loop sleeps.
PumpAndSleep ==
    /\ pc = "pump"
    /\ pc' = "wheel"
    /\ screen' \in {screen, Shows(bar)}
    /\ UNCHANGED <<hdr, writer, lead, seen, kpos, click, host, bar, page, edit, scroll,
                   history>>

Browser ==
    \/ Start \/ SyncMouse \/ SyncKeys
    \/ ReadWheel \/ ReadDelta
    \/ ReadKeys \/ TakeKey \/ KeysTaken
    \/ ReadMouse \/ ReadState \/ ReadX \/ ReadYAndAct
    \/ PumpAndSleep

\* A step of a writer, with its mark in the history.
Writes(p) ==
    /\ \/ Starts(p) /\ UNCHANGED history
       \/ /\ Continues(p)
          /\ overrun' = (overrun \/ (At(p, "slot") /\ KeyLag >= Ring))
          /\ typed' = IF overrun' THEN <<>> ELSE typed
          /\ UNCHANGED <<due, turn>>
       \/ /\ KeyPushed(p)
          /\ typed' = IF overrun THEN <<>> ELSE Append(typed, writer[p].ev)
          /\ UNCHANGED <<overrun, due, turn>>
       \/ /\ ButtonPushed(p)
          /\ due' = IF writer[p].down
                    THEN [press |-> TRUE, x |-> writer[p].x, y |-> writer[p].y]
                    ELSE NotDue
          /\ UNCHANGED <<typed, overrun, turn>>
       \/ /\ WheelPushed(p)
          /\ turn' = hdr.dy
          /\ UNCHANGED <<typed, overrun, due>>
    /\ UNCHANGED <<lead, seen, loopVars, pageVars>>

Next == Browser \/ \E p \in Writer : Writes(p)

Spec == Init /\ [][Next]_vars

\* The browser runs; nothing obliges a user to type.
FairSpec == Spec /\ WF_vars(Browser)

-----------------------------------------------------------------------------
TypeOK ==
    /\ InputType
    /\ kpos \in KeyPos
    /\ host \in Site /\ bar \in Site \cup {NoSite}
    /\ page \in {"none", "shown", "failed"}
    /\ edit \in [on : BOOLEAN, n : 0..MaxEdit]
    /\ scroll \in 0..MaxScroll
    /\ screen \in [edit : BOOLEAN, n : 0..MaxEdit, url : Site \cup {NoSite}]
    /\ pc = "start" <=> page = "none"

\* As long as the writer is not a whole ring ahead the ring is a queue: what the
\* browser will take is what was pushed, in that order, nothing twice, across
\* the wrap of the counter, and again as soon as the browser has caught up after
\* an overrun.
RingIsFifo ==
    ~overrun =>
        /\ Len(typed) = KeyLag
        /\ \A n \in 1..Len(typed) :
            hdr.keyq[(seen.key + n - 1) % Ring] = typed[n]

Busy(places) == \E p \in Writer : writer[p].at \in places

\* With one writer the browser never goes to sleep on its last event: if it has
\* seen the counters, a press or a turn of the wheel that nothing followed has
\* been acted upon, with its own coordinates.
LatestEventActed ==
    pc = "wheel" =>
        /\ hdr.mouse = seen.mouse /\ ~Busy({"x", "y", "state", "mouse", "mouse+1"})
            => ~due.press
        /\ hdr.wheel = seen.wheel /\ ~Busy({"wheel", "wheel+1"})
            => turn = 0

\* The URL bar, the host links and images are resolved against, and what Reload
\* fetches are of the page that is shown, whatever was typed, clicked or
\* redirected; only a page that could not be connected to is an exception.
BarNamesPage == page = "shown" => bar = host

\* Whoever changes the editor paints it, unless a page replaces it.
Painted == edit' # edit => screen' \in {Display(edit', bar'), Shows(host')}
EditorVisible == [][Painted]_vars

\* The loop always comes round to the wheel, the mouse, the images and its sleep:
\* a user who never stops typing cannot keep it among the keys.
LoopComesRound == []<>(pc = "wheel")

\* "A click is recognized on mouse button-down": a press is not forgotten before
\* the browser has acted on it, once it polls the mouse.
NoPressLost ==
    [][due.press /\ due' # due => pc \in {"start", "sync mouse", "y"}]_vars
=============================================================================
