---------------------------- MODULE MainLoopProofs ----------------------------
(***************************************************************************)
(* Proofs about MainLoop, for every number of sites, every size of the     *)
(* ring, the editor and the counters, and users that use all devices at    *)
(* once (the runs have users of one device).  All but the last theorem are *)
(* for any number of writers of the header.                                *)
(*                                                                         *)
(* First what a step does to the page (StepFacts).  Then the keys: RingInv *)
(* is inductive.  It says of the viewer that the position it has read is   *)
(* still the position and that it is less than a wrap ahead, of the        *)
(* browser that its copy of the position is not beyond it, and of the slot *)
(* being filled that it is none the browser has yet to take.  Then the     *)
(* last event of one writer: LatestInv, which follows the event from the   *)
(* registers of the writer through the header to the browser.              *)
(***************************************************************************)
EXTENDS MainLoop, TLAPS

\* For its lemma about induction; the loop is of no matter here.
I == INSTANCE Iteration WITH op <- Scrolled

\* What a step does to the page: nothing, or a navigation.
PageStep ==
    \/ UNCHANGED <<host, bar, page>>
    \/ page' = "shown" /\ bar' = host'
    \/ page' = "failed"

\* Painted says that it paints the editor if it changes it.
StepOk == PageStep /\ Painted

-----------------------------------------------------------------------------
\* A navigation leaves the page and the URL bar in agreement, or a failure.
LEMMA NavigateFacts == Navigate => PageStep
  BY DEF Navigate, Connected, CannotConnect, PageStep

\* A repaint shows the editor as it is and leaves the page alone.
LEMMA RepaintFacts ==
  Repaint(edit') => StepOk
  BY DEF Repaint, StepOk, PageStep, Painted

\* A key, in the editor or outside it.
LEMMA KeyOk ==
  ASSUME NEW k, KeyEdits(k) \/ KeyCommands(k)
  PROVE  StepOk
<1>1. CASE edit.on /\ (TypeText(k) \/ EraseText(k) \/ LeaveEdit(k))
  BY <1>1, RepaintFacts DEF TypeText, EraseText, LeaveEdit
<1>2. CASE edit.on /\ EnterNothing(k)
  <2>1. edit' = edit /\ UNCHANGED <<host, bar, page>>
    BY <1>2 DEF EnterNothing, Repaint
  <2> QED BY <2>1 DEF StepOk, PageStep, Painted
<1>3. CASE edit.on /\ EnterUrl(k)
  <2>1. PageStep
    BY <1>3, NavigateFacts DEF EnterUrl
  <2>2. edit'.on = FALSE /\ screen' = Shows(bar')
    BY <1>3 DEF EnterUrl, EditCancel, NoEdit
  <2>3. Painted
    BY <2>2 DEF Painted, Display
  <2> QED BY <2>1, <2>3 DEF StepOk
<1>4. CASE KeyCommands(k)
  BY <1>4, RepaintFacts DEF KeyCommands
<1> QED BY <1>1, <1>2, <1>3, <1>4 DEF KeyEdits, KeyCommands

\* A click, wherever it lands.
LEMMA ClickOk ==
  ASSUME NEW a, Click(a)
  PROVE  StepOk
<1>1. ClickBar => StepOk
  BY RepaintFacts DEF ClickBar
<1>2. ClickGo => StepOk
  BY NavigateFacts DEF ClickGo, StepOk, Painted
<1>3. ClickBody => StepOk
  <2>1. ASSUME EditCancel, edit.on, Repaint(edit')
        PROVE  StepOk
    BY <2>1, RepaintFacts
  <2>2. ASSUME UNCHANGED pageVars
        PROVE  StepOk
    BY <2>2 DEF pageVars, StepOk, PageStep, Painted
  <2> QED BY <1>2, <2>1, <2>2 DEF ClickBody
<1> QED BY <1>1, <1>2, <1>3 DEF Click

\* Every step of the specification, of the browser or of a writer.
LEMMA StepFacts == [Next]_vars => StepOk
<1> SUFFICES ASSUME [Next]_vars PROVE StepOk
  OBVIOUS
<1>1. ASSUME UNCHANGED pageVars PROVE StepOk
  BY <1>1 DEF pageVars, StepOk, PageStep, Painted
<1>2. CASE UNCHANGED vars
  BY <1>2, <1>1 DEF vars
<1>3. ASSUME NEW p \in Writer, Writes(p) PROVE StepOk
  BY <1>3, <1>1 DEF Writes
<1>4. CASE Start
  <2>1. Navigate /\ screen' = Shows(host')
    BY <1>4 DEF Start
  <2> QED BY <2>1, NavigateFacts DEF StepOk, Painted
<1>5. CASE SyncMouse \/ SyncKeys \/ ReadWheel \/ ReadKeys \/ KeysTaken
            \/ ReadMouse \/ ReadState \/ ReadX
  BY <1>5, <1>1
     DEF SyncMouse, SyncKeys, ReadWheel, ReadKeys, KeysTaken, ReadMouse, ReadState, ReadX
<1>6. CASE ReadDelta
  <2>1. UNCHANGED <<host, bar, page, edit>>
    BY <1>6 DEF ReadDelta
  <2> QED BY <2>1 DEF StepOk, PageStep, Painted
<1>7. CASE PumpAndSleep
  <2>1. UNCHANGED <<host, bar, page, edit>>
    BY <1>7 DEF PumpAndSleep
  <2> QED BY <2>1 DEF StepOk, PageStep, Painted
<1>8. CASE TakeKey
  <2>1. PICK k : KeyEdits(k) \/ KeyCommands(k)
    BY <1>8 DEF TakeKey
  <2> QED BY <2>1, KeyOk
<1>9. CASE ReadYAndAct
  <2>1. PICK a : Click(a)
    BY <1>9 DEF ReadYAndAct
  <2> QED BY <2>1, ClickOk
<1> QED BY <1>2, <1>3, <1>4, <1>5, <1>6, <1>7, <1>8, <1>9 DEF Next, Browser

-----------------------------------------------------------------------------
\* The URL bar, the host links are resolved against and what Reload fetches are
\* of the page shown: no handler of a key, a click or a navigation sets one
\* without the others.
THEOREM BarAlwaysNamesPage == Spec => []BarNamesPage
<1>1. Init => BarNamesPage
  BY DEF Init, BarNamesPage
<1>2. BarNamesPage /\ [Next]_vars => BarNamesPage'
  BY StepFacts DEF StepOk, PageStep, BarNamesPage
<1> QED BY <1>1, <1>2, PTL DEF Spec

\* Every handler that opens, changes or closes the URL editor paints it in the
\* same step, whatever the order of keys and clicks.
THEOREM EditorAlwaysVisible == Spec => EditorVisible
<1>1. [Next]_vars => [Painted]_vars
  BY StepFacts DEF StepOk
<1> QED BY <1>1, PTL DEF Spec, EditorVisible

-----------------------------------------------------------------------------
(***************************************************************************)
(* Positions that wrap.                                                    *)
(***************************************************************************)
LEMMA ModIs ==
  ASSUME NEW R \in Nat \ {0}, NEW q \in Int, NEW r \in 0..(R - 1)
  PROVE  (q * R + r) % R = r
  OBVIOUS

\* How far a is ahead of b.
LEMMA Ahead ==
  ASSUME NEW K \in Nat, NEW a \in 0..(K - 1), NEW b \in 0..(K - 1)
  PROVE  /\ (a - b) % K = IF b <= a THEN a - b ELSE a - b + K
         /\ (a - b) % K \in 0..(K - 1)
         /\ (a - b) % K = 0 <=> a = b
<1>1. CASE b <= a
  <2>1. a - b \in 0..(K - 1)
    BY <1>1
  <2>2. (a - b) % K = a - b
    BY <2>1
  <2> QED BY <1>1, <2>1, <2>2
<1>2. CASE ~ (b <= a)
  <2>1. a - b \in (-K)..(-1)
    BY <1>2
  <2>2. (a - b) % K = a - b + K
    BY <2>1
  <2> QED BY <1>2, <2>1, <2>2
<1> QED BY <1>1, <1>2

LEMMA Following ==
  ASSUME NEW K \in Nat, NEW a \in 0..(K - 1)
  PROVE  /\ (a + 1) % K = IF a = K - 1 THEN 0 ELSE a + 1
         /\ (a + 1) % K \in 0..(K - 1)
<1>1. CASE a = K - 1
  BY <1>1
<1>2. CASE a # K - 1
  <2>1. a + 1 \in 0..(K - 1)
    BY <1>2
  <2>2. (a + 1) % K = a + 1
    BY <2>1
  <2> QED BY <1>2, <2>1, <2>2
<1> QED BY <1>1, <1>2

\* The writer goes one ahead, or the reader takes one.
LEMMA AheadByOneMore ==
  ASSUME NEW K \in Nat, NEW a \in 0..(K - 1), NEW b \in 0..(K - 1), (a - b) % K < K - 1
  PROVE  (((a + 1) % K) - b) % K = ((a - b) % K) + 1
<1> DEFINE c == (a + 1) % K
<1>1. c \in 0..(K - 1) /\ c = IF a = K - 1 THEN 0 ELSE a + 1
  BY Following
<1>2. (a - b) % K = IF b <= a THEN a - b ELSE a - b + K
  BY Ahead
<1> HIDE DEF c
<1>7. c \in 0..(K - 1)
  BY <1>1
<1>3. (c - b) % K = IF b <= c THEN c - b ELSE c - b + K
  BY <1>7, Ahead
<1> DEFINE l == (a - b) % K
<1>5. l < K - 1 /\ l = IF b <= a THEN a - b ELSE a - b + K
  BY <1>2
<1> HIDE DEF l
<1>6. b <= c <=> b <= a /\ a # K - 1
  BY <1>1, <1>5
<1>4. (c - b) % K = l + 1
  BY <1>1, <1>3, <1>5, <1>6
<1> QED BY <1>4 DEF c, l

LEMMA AheadByOneLess ==
  ASSUME NEW K \in Nat, NEW a \in 0..(K - 1), NEW b \in 0..(K - 1), a # b
  PROVE  (a - ((b + 1) % K)) % K = ((a - b) % K) - 1
<1> DEFINE c == (b + 1) % K
<1>1. c \in 0..(K - 1) /\ c = IF b = K - 1 THEN 0 ELSE b + 1
  BY Following
<1>2. (a - b) % K = IF b <= a THEN a - b ELSE a - b + K
  BY Ahead
<1> HIDE DEF c
<1>3. (a - c) % K = IF c <= a THEN a - c ELSE a - c + K
  BY <1>1, Ahead
<1>4. (a - c) % K = ((a - b) % K) - 1
  BY <1>1, <1>2, <1>3
<1> QED BY <1>4 DEF c

\* A size that the wrap is a multiple of does not see the wrap.
LEMMA Quotient ==
  ASSUME NEW R \in Nat \ {0}
  PROVE  \A x \in Nat : \E q \in Nat, r \in 0..(R - 1) : x = q * R + r
<1> DEFINE S == {x \in Nat : \E q \in Nat, r \in 0..(R - 1) : x = q * R + r}
<1>1. 0 \in S
  <2>1. 0 = 0 * R + 0 /\ 0 \in 0..(R - 1)
    OBVIOUS
  <2> QED BY <2>1
<1>2. ASSUME NEW x \in Nat, x \in S PROVE x + 1 \in S
  <2>1. PICK q \in Nat, r \in 0..(R - 1) : x = q * R + r
    BY <1>2
  <2>2. CASE r + 1 < R
    <3>1. r + 1 \in 0..(R - 1) /\ q * R \in Nat
      BY <2>2
    <3>2. x + 1 = q * R + (r + 1)
      BY <2>1, <3>1
    <3> QED BY <3>1, <3>2
  <2>3. CASE ~ (r + 1 < R)
    <3>1. r + 1 = R
      BY <2>3
    <3>3. q * R \in Nat /\ q + 1 \in Nat
      OBVIOUS
    <3>4. (q + 1) * R = q * R + R
      OBVIOUS
    <3>5. x + 1 = q * R + (r + 1)
      BY <2>1, <3>3
    <3>2. x + 1 = (q + 1) * R + 0 /\ 0 \in 0..(R - 1)
      BY <3>1, <3>3, <3>4, <3>5
    <3>6. \E q1 \in Nat, r1 \in 0..(R - 1) : x + 1 = q1 * R + r1
      BY <3>2, <3>3
    <3> QED BY <3>6
  <2> QED BY <2>2, <2>3
<1>3. \A x \in Nat : x \in S
  <2> HIDE DEF S
  <2> QED BY <1>1, <1>2, I!NatSetInduction
<1> QED BY <1>3

LEMMA ModShift ==
  ASSUME NEW R \in Nat \ {0}, NEW K \in Nat, K % R = 0, NEW x \in Nat, x >= K
  PROVE  (x - K) % R = x % R
<1>1. PICK q \in Nat : K = q * R
  <2>1. PICK q \in Nat, r \in 0..(R - 1) : K = q * R + r
    BY Quotient
  <2>2. K % R = r
    BY <2>1, ModIs
  <2>3. q * R \in Nat
    OBVIOUS
  <2> QED BY <2>1, <2>2, <2>3
<1>2. PICK p \in Nat, r \in 0..(R - 1) : x = p * R + r
  BY Quotient
<1>3. x % R = r
  BY <1>2, ModIs
<1>4. (p - q) \in Int /\ ((p - q) * R + r) % R = r
  BY ModIs
<1>5. p * R \in Int /\ q * R \in Int /\ (p - q) * R = p * R - q * R
  OBVIOUS
<1>6. x - K = (p - q) * R + r
  BY <1>1, <1>2, <1>5
<1> QED BY <1>3, <1>4, <1>6

LEMMA SlotsDiffer ==
  ASSUME NEW R \in Nat \ {0}, NEW x \in Nat, NEW d \in 1..(R - 1)
  PROVE  (x + d) % R # x % R
<1>1. PICK p \in Nat, r \in 0..(R - 1) : x = p * R + r
  BY Quotient
<1>2. x % R = r /\ p * R \in Int
  BY <1>1, ModIs
<1>3. CASE r + d < R
  <2>1. r + d \in 0..(R - 1)
    BY <1>3
  <2>2. (p * R + (r + d)) % R = r + d
    BY <2>1, ModIs
  <2>3. x + d = p * R + (r + d)
    BY <1>1, <1>2
  <2> QED BY <1>2, <2>2, <2>3
<1>4. CASE ~ (r + d < R)
  <2>1. r + d - R \in 0..(R - 1) /\ p + 1 \in Int
    BY <1>4
  <2>2. ((p + 1) * R + (r + d - R)) % R = r + d - R
    BY <2>1, ModIs
  <2>3. (p + 1) * R = p * R + R
    OBVIOUS
  <2>4. x + d = (p + 1) * R + (r + d - R)
    BY <1>1, <1>2, <2>3
  <2> QED BY <1>2, <2>2, <2>4
<1> QED BY <1>3, <1>4

-----------------------------------------------------------------------------
(***************************************************************************)
(* Types.                                                                  *)
(***************************************************************************)
Header == [wpos : KeyPos, keyq : [Slot -> Key \cup {NoKey}],
           x : X \cup {0}, y : Y \cup {0}, down : BOOLEAN, mouse : Counter,
           dy : {-1, 0, 1}, wheel : Counter]

Places == {"idle", "slot", "wpos", "x", "y", "state", "mouse", "mouse+1", "wheel",
           "wheel+1"}

Event == [at : Places, ev : Key \cup {NoKey}, x : X \cup {0}, y : Y \cup {0},
          down : BOOLEAN, reg : KeyPos \cup Counter]

Counters == [key : KeyPos, mouse : Counter, wheel : Counter]

\* Only the viewer is among its keys, and nobody else moves the position it read.
AmongKeys(p) ==
    writer[p].at \in {"slot", "wpos"} =>
        /\ p = Viewer /\ writer[p].reg = hdr.wpos /\ writer[p].ev \in Key
        /\ KeyLag < lead.keys

AmongCounters(p) == writer[p].at \in {"mouse+1", "wheel+1"} => writer[p].reg \in Counter

InputInv ==
    /\ hdr \in Header
    /\ writer \in [Writer -> Event]
    /\ seen \in Counters
    /\ lead \in Leads
    /\ \A p \in Writer : AmongKeys(p) /\ AmongCounters(p)

\* The page, its editor and what is on the screen.
PageInv ==
    /\ host \in Site /\ bar \in Site \cup {NoSite}
    /\ page \in {"none", "shown", "failed"}
    /\ edit \in [on : BOOLEAN, n : 0..MaxEdit]
    /\ scroll \in 0..MaxScroll
    /\ screen \in [edit : BOOLEAN, n : 0..MaxEdit, url : Site \cup {NoSite}]
    /\ pc = "start" <=> page = "none"

\* What the loop and the history hold of the header.
LoopInv ==
    /\ kpos \in KeyPos
    /\ click \in [x : X \cup {0}, y : Y \cup {0}]
    /\ due \in [press : BOOLEAN, x : X \cup {0}, y : Y \cup {0}]
    /\ turn \in {-1, 0, 1}
    /\ typed \in Seq(Key)
    /\ overrun \in BOOLEAN

-----------------------------------------------------------------------------
\* What the bounds of a user say of the wraps.
LEMMA Bounds ==
  ASSUME lead \in Leads
  PROVE  /\ lead.keys \in 0..(KeyWrap - 1) /\ KeyWrap \in Nat \ {0}
         /\ lead.mouse \in 0..(WrapAt - 1) /\ lead.wheel \in 0..(WrapAt - 1)
         /\ WrapAt \in Nat \ {0} /\ Ring \in Nat \ {0} /\ KeyWrap % Ring = 0
         /\ 0 \in KeyPos /\ 0 \in Counter
<1>1. lead \in [keys : 0..(KeyWrap - 1), mouse : 0..(WrapAt - 1), wheel : 0..(WrapAt - 1)]
  BY InputAssumption
<1>2. KeyWrap \in Nat /\ WrapAt \in Nat /\ Ring \in Nat \ {0} /\ KeyWrap % Ring = 0
  BY InputAssumption
<1>3. lead.keys \in 0..(KeyWrap - 1) /\ lead.mouse \in 0..(WrapAt - 1)
      /\ lead.wheel \in 0..(WrapAt - 1)
  BY <1>1
<1>4. KeyWrap # 0 /\ WrapAt # 0 /\ 0 \in 0..(KeyWrap - 1) /\ 0 \in 0..(WrapAt - 1)
  BY <1>2, <1>3
<1> QED BY <1>2, <1>3, <1>4 DEF KeyPos, Counter

LEMMA NextPosTyped ==
  ASSUME lead \in Leads, NEW w \in KeyPos
  PROVE  NextPos(w) \in KeyPos
  BY Bounds, Following DEF KeyPos, NextPos

LEMMA IncTyped ==
  ASSUME lead \in Leads, NEW c \in Counter
  PROVE  Inc(c) \in Counter
  BY Bounds, Following DEF Counter, Inc

\* A writer that starts, or is done, holds an event.
LEMMA IdleTyped ==
  ASSUME lead \in Leads
  PROVE  /\ IdleWriter \in Event
         /\ \A k \in Key, w \in KeyPos :
              [IdleWriter EXCEPT !.at = "slot", !.ev = k, !.reg = w] \in Event
         /\ \A ex \in X, ey \in Y, d \in BOOLEAN :
              [IdleWriter EXCEPT !.at = "x", !.x = ex, !.y = ey, !.down = d] \in Event
  BY Bounds DEF IdleWriter, Event, Places

-----------------------------------------------------------------------------
\* Each step of a writer keeps the types, and says what it does to the keys.
LEMMA KeyEvent ==
  ASSUME lead \in Leads, NEW k \in Key, NEW w \in KeyPos
  PROVE  [IdleWriter EXCEPT !.at = "slot", !.ev = k, !.reg = w]
           = [at |-> "slot", ev |-> k, x |-> 0, y |-> 0, down |-> FALSE, reg |-> w]
<1> DEFINE e == [IdleWriter EXCEPT !.at = "slot", !.ev = k, !.reg = w]
<1>1. e \in Event
  BY IdleTyped
<1>2. e.at = "slot" /\ e.ev = k /\ e.x = 0 /\ e.y = 0 /\ e.down = FALSE /\ e.reg = w
  BY DEF IdleWriter
<1>3. e = [at |-> e.at, ev |-> e.ev, x |-> e.x, y |-> e.y, down |-> e.down, reg |-> e.reg]
  <2> HIDE DEF e
  <2> QED BY <1>1 DEF Event
<1> QED BY <1>2, <1>3

LEMMA KeyBeginsFacts ==
  ASSUME InputInv, NEW p \in Writer, NEW k \in Key, KeyBegins(p, k)
  PROVE  /\ writer' \in [Writer -> Event] /\ hdr' = hdr /\ p = Viewer
         /\ KeyLag < lead.keys
         /\ writer' = [writer EXCEPT ![p] = writer'[p]]
         /\ writer'[p] = [at |-> "slot", ev |-> k, x |-> 0, y |-> 0, down |-> FALSE,
                           reg |-> hdr.wpos]
<1>1. hdr.wpos \in KeyPos
  BY DEF InputInv, Header
<1>2. [IdleWriter EXCEPT !.at = "slot", !.ev = k, !.reg = hdr.wpos] \in Event
  BY <1>1, IdleTyped DEF InputInv
<1>3. [IdleWriter EXCEPT !.at = "slot", !.ev = k, !.reg = hdr.wpos]
        = [at |-> "slot", ev |-> k, x |-> 0, y |-> 0, down |-> FALSE, reg |-> hdr.wpos]
  BY <1>1, KeyEvent DEF InputInv
<1> QED BY <1>2, <1>3 DEF KeyBegins, InputInv

LEMMA ButtonEvent ==
  ASSUME lead \in Leads, NEW ex \in X, NEW ey \in Y, NEW d \in BOOLEAN
  PROVE  [IdleWriter EXCEPT !.at = "x", !.x = ex, !.y = ey, !.down = d]
           = [at |-> "x", ev |-> NoKey, x |-> ex, y |-> ey, down |-> d, reg |-> 0]
<1> DEFINE e == [IdleWriter EXCEPT !.at = "x", !.x = ex, !.y = ey, !.down = d]
<1>1. e \in Event
  BY IdleTyped
<1>2. e.at = "x" /\ e.ev = NoKey /\ e.x = ex /\ e.y = ey /\ e.down = d /\ e.reg = 0
  BY DEF IdleWriter
<1>3. e = [at |-> e.at, ev |-> e.ev, x |-> e.x, y |-> e.y, down |-> e.down, reg |-> e.reg]
  <2> HIDE DEF e
  <2> QED BY <1>1 DEF Event
<1> QED BY <1>2, <1>3

LEMMA ButtonBeginsFacts ==
  ASSUME InputInv, NEW p \in Writer, NEW ex \in X, NEW ey \in Y, NEW d \in BOOLEAN,
         ButtonBegins(p, ex, ey, d)
  PROVE  /\ writer' \in [Writer -> Event] /\ hdr' = hdr
         /\ Lag(hdr.mouse, seen.mouse) < lead.mouse
         /\ writer' = [writer EXCEPT ![p] = writer'[p]]
         /\ writer'[p] = [at |-> "x", ev |-> NoKey, x |-> ex, y |-> ey, down |-> d,
                           reg |-> 0]
<1>1. [IdleWriter EXCEPT !.at = "x", !.x = ex, !.y = ey, !.down = d] \in Event
  BY IdleTyped DEF InputInv
<1> QED BY <1>1, ButtonEvent DEF ButtonBegins, InputInv

LEMMA DoneTyped ==
  ASSUME InputInv, NEW p \in Writer, Done(p)
  PROVE  /\ writer' \in [Writer -> Event]
         /\ writer' = [writer EXCEPT ![p] = writer'[p]]
         /\ writer'[p] = IdleWriter
  BY IdleTyped DEF InputInv, Done

LEMMA GoesTyped ==
  ASSUME InputInv, NEW p \in Writer, NEW place \in Places, Goes(p, place)
  PROVE  /\ writer' \in [Writer -> Event]
         /\ writer' = [writer EXCEPT ![p] = writer'[p]]
         /\ writer'[p] = [at |-> place, ev |-> writer[p].ev, x |-> writer[p].x,
                          y |-> writer[p].y, down |-> writer[p].down,
                          reg |-> writer[p].reg]
  BY DEF InputInv, Goes, Event

LEMMA CounterReadTyped ==
  ASSUME InputInv, NEW p \in Writer, NEW place \in Places, NEW c \in Counter,
         writer' = [writer EXCEPT ![p].at = place, ![p].reg = c]
  PROVE  /\ writer' \in [Writer -> Event]
         /\ writer' = [writer EXCEPT ![p] = writer'[p]]
         /\ writer'[p] = [at |-> place, ev |-> writer[p].ev, x |-> writer[p].x,
                          y |-> writer[p].y, down |-> writer[p].down, reg |-> c]
  BY DEF InputInv, Event

\* Field f of the header gets the value v, and no other field changes.
Fields == {"wpos", "keyq", "x", "y", "down", "mouse", "dy", "wheel"}

Stored(h, f, v) == h \in Header /\ h[f] = v /\ \A g \in Fields \ {f} : h[g] = hdr[g]

LEMMA HeaderStored ==
  ASSUME hdr \in Header
  PROVE  /\ \A w \in KeyPos : Stored([hdr EXCEPT !.wpos = w], "wpos", w)
         /\ \A s \in Slot, k \in Key :
              Stored([hdr EXCEPT !.keyq[s] = k], "keyq", [hdr.keyq EXCEPT ![s] = k])
         /\ \A x \in X \cup {0} : Stored([hdr EXCEPT !.x = x], "x", x)
         /\ \A y \in Y \cup {0} : Stored([hdr EXCEPT !.y = y], "y", y)
         /\ \A d \in BOOLEAN : Stored([hdr EXCEPT !.down = d], "down", d)
         /\ \A c \in Counter : Stored([hdr EXCEPT !.mouse = c], "mouse", c)
         /\ \A d \in {-1, 0, 1} : Stored([hdr EXCEPT !.dy = d], "dy", d)
         /\ \A c \in Counter : Stored([hdr EXCEPT !.wheel = c], "wheel", c)
  BY DEF Header, Stored, Fields

\* Writer p goes to the state e, and no other writer moves.
Moved(p, e) == writer' \in [Writer -> Event] /\ writer' = [writer EXCEPT ![p] = e]
               /\ writer'[p] = e

\* The event of p, at some place and with some register.
Having(p, place, reg) ==
    [at |-> place, ev |-> writer[p].ev, x |-> writer[p].x, y |-> writer[p].y,
     down |-> writer[p].down, reg |-> reg]

\* What each step of a writer stores, and where it takes the writer.
LEMMA WriterSteps ==
  ASSUME InputInv, NEW p \in Writer
  PROVE  /\ \A k \in Key : KeyBegins(p, k) =>
              /\ hdr' = hdr /\ p = Viewer /\ KeyLag < lead.keys
              /\ Moved(p, [at |-> "slot", ev |-> k, x |-> 0, y |-> 0, down |-> FALSE,
                           reg |-> hdr.wpos])
         /\ KeyStored(p) =>
              /\ Stored(hdr', "keyq", [hdr.keyq EXCEPT ![hdr.wpos % Ring] = writer[p].ev])
              /\ Moved(p, Having(p, "wpos", hdr.wpos))
         /\ KeyPushed(p) => Stored(hdr', "wpos", NextPos(hdr.wpos)) /\ Moved(p, IdleWriter)
         /\ \A ex \in X, ey \in Y, d \in BOOLEAN : ButtonBegins(p, ex, ey, d) =>
              /\ hdr' = hdr /\ Lag(hdr.mouse, seen.mouse) < lead.mouse
              /\ Moved(p, [at |-> "x", ev |-> NoKey, x |-> ex, y |-> ey, down |-> d,
                           reg |-> 0])
         /\ ButtonX(p) => Stored(hdr', "x", writer[p].x)
                          /\ Moved(p, Having(p, "y", writer[p].reg))
         /\ ButtonY(p) => Stored(hdr', "y", writer[p].y)
                          /\ Moved(p, Having(p, "state", writer[p].reg))
         /\ ButtonState(p) => Stored(hdr', "down", writer[p].down)
                              /\ Moved(p, Having(p, "mouse", writer[p].reg))
         /\ ButtonCounterRead(p) => hdr' = hdr /\ Moved(p, Having(p, "mouse+1", hdr.mouse))
         /\ ButtonPushed(p) => Stored(hdr', "mouse", Inc(writer[p].reg))
                               /\ Moved(p, IdleWriter)
         /\ \A d \in {-1, 1} : WheelBegins(p, d) =>
              /\ Stored(hdr', "dy", d) /\ Lag(hdr.wheel, seen.wheel) < lead.wheel
              /\ Moved(p, Having(p, "wheel", writer[p].reg))
         /\ WheelCounterRead(p) => hdr' = hdr /\ Moved(p, Having(p, "wheel+1", hdr.wheel))
         /\ WheelPushed(p) => Stored(hdr', "wheel", Inc(writer[p].reg))
                              /\ Moved(p, IdleWriter)
<1>0. /\ hdr \in Header /\ lead \in Leads /\ AmongKeys(p) /\ AmongCounters(p)
      /\ writer[p] \in Event /\ hdr.wpos \in KeyPos /\ Ring \in Nat \ {0}
      /\ hdr.mouse \in Counter /\ hdr.wheel \in Counter
  BY Bounds DEF InputInv, Header
<1>1. ASSUME NEW place \in Places, Goes(p, place)
      PROVE  Moved(p, Having(p, place, writer[p].reg))
  BY <1>1, GoesTyped DEF Moved, Having
<1>2. ASSUME Done(p) PROVE Moved(p, IdleWriter)
  BY <1>2, DoneTyped DEF Moved
<1>3. ASSUME NEW k \in Key, KeyBegins(p, k)
      PROVE  /\ hdr' = hdr /\ p = Viewer /\ KeyLag < lead.keys
             /\ Moved(p, [at |-> "slot", ev |-> k, x |-> 0, y |-> 0, down |-> FALSE,
                          reg |-> hdr.wpos])
  BY <1>3, KeyBeginsFacts DEF Moved
<1>4. ASSUME KeyStored(p)
      PROVE  /\ Stored(hdr', "keyq", [hdr.keyq EXCEPT ![hdr.wpos % Ring] = writer[p].ev])
             /\ Moved(p, Having(p, "wpos", hdr.wpos))
  <2>1. writer[p].reg = hdr.wpos /\ writer[p].ev \in Key
    BY <1>0, <1>4 DEF KeyStored, At, AmongKeys
  <2>2. hdr.wpos % Ring \in Slot
    BY <1>0 DEF KeyPos, Slot
  <2>3. hdr' = [hdr EXCEPT !.keyq[hdr.wpos % Ring] = writer[p].ev] /\ Goes(p, "wpos")
    BY <1>4, <2>1 DEF KeyStored
  <2>4. Stored(hdr', "keyq", [hdr.keyq EXCEPT ![hdr.wpos % Ring] = writer[p].ev])
    BY <1>0, <2>1, <2>2, <2>3, HeaderStored
  <2> QED BY <1>1, <2>1, <2>3, <2>4 DEF Places
<1>5. ASSUME KeyPushed(p)
      PROVE  Stored(hdr', "wpos", NextPos(hdr.wpos)) /\ Moved(p, IdleWriter)
  <2>1. writer[p].reg = hdr.wpos
    BY <1>0, <1>5 DEF KeyPushed, At, AmongKeys
  <2>2. hdr' = [hdr EXCEPT !.wpos = NextPos(hdr.wpos)] /\ Done(p)
    BY <1>5, <2>1 DEF KeyPushed
  <2> QED BY <1>0, <1>2, <2>2, HeaderStored, NextPosTyped
<1>6. ASSUME NEW ex \in X, NEW ey \in Y, NEW d \in BOOLEAN, ButtonBegins(p, ex, ey, d)
      PROVE  /\ hdr' = hdr /\ Lag(hdr.mouse, seen.mouse) < lead.mouse
             /\ Moved(p, [at |-> "x", ev |-> NoKey, x |-> ex, y |-> ey, down |-> d,
                          reg |-> 0])
  BY <1>6, ButtonBeginsFacts DEF Moved
<1>7. writer[p].x \in X \cup {0} /\ writer[p].y \in Y \cup {0} /\ writer[p].down \in BOOLEAN
  BY <1>0 DEF Event
<1>8. /\ ButtonX(p) => Stored(hdr', "x", writer[p].x)
                       /\ Moved(p, Having(p, "y", writer[p].reg))
      /\ ButtonY(p) => Stored(hdr', "y", writer[p].y)
                       /\ Moved(p, Having(p, "state", writer[p].reg))
      /\ ButtonState(p) => Stored(hdr', "down", writer[p].down)
                           /\ Moved(p, Having(p, "mouse", writer[p].reg))
  BY <1>0, <1>1, <1>7, HeaderStored DEF ButtonX, ButtonY, ButtonState, Places
<1>9. /\ ButtonCounterRead(p) => hdr' = hdr /\ Moved(p, Having(p, "mouse+1", hdr.mouse))
      /\ WheelCounterRead(p) => hdr' = hdr /\ Moved(p, Having(p, "wheel+1", hdr.wheel))
  BY <1>0, CounterReadTyped DEF ButtonCounterRead, WheelCounterRead, Moved, Having, Places
<1>10. ASSUME ButtonPushed(p)
       PROVE  Stored(hdr', "mouse", Inc(writer[p].reg)) /\ Moved(p, IdleWriter)
  <2>1. writer[p].reg \in Counter
    BY <1>0, <1>10 DEF ButtonPushed, At, AmongCounters
  <2> QED BY <1>0, <1>2, <1>10, <2>1, IncTyped, HeaderStored DEF ButtonPushed
<1>11. ASSUME WheelPushed(p)
       PROVE  Stored(hdr', "wheel", Inc(writer[p].reg)) /\ Moved(p, IdleWriter)
  <2>1. writer[p].reg \in Counter
    BY <1>0, <1>11 DEF WheelPushed, At, AmongCounters
  <2> QED BY <1>0, <1>2, <1>11, <2>1, IncTyped, HeaderStored DEF WheelPushed
<1>12. ASSUME NEW d \in {-1, 1}, WheelBegins(p, d)
       PROVE  /\ Stored(hdr', "dy", d) /\ Lag(hdr.wheel, seen.wheel) < lead.wheel
              /\ Moved(p, Having(p, "wheel", writer[p].reg))
  BY <1>0, <1>1, <1>12, HeaderStored DEF WheelBegins, Places
<1> QED BY <1>3, <1>4, <1>5, <1>6, <1>8, <1>9, <1>10, <1>11, <1>12

-----------------------------------------------------------------------------
(***************************************************************************)
(* The page, its editor and the screen.                                    *)
(***************************************************************************)
Edits == [on : BOOLEAN, n : 0..MaxEdit]
Screens == [edit : BOOLEAN, n : 0..MaxEdit, url : Site \cup {NoSite}]

\* The page after a step that is not among the first of the program.
NextPageOk ==
    /\ host' \in Site /\ bar' \in Site \cup {NoSite}
    /\ page' \in {"none", "shown", "failed"} /\ (page' = "none" => page = "none")
    /\ edit' \in Edits /\ scroll' \in 0..MaxScroll /\ screen' \in Screens

LEMMA EditTyped ==
  ASSUME PageInv
  PROVE  /\ NoEdit \in Edits /\ InsertChar(edit) \in Edits /\ Backspace(edit) \in Edits
         /\ EditBegin => edit' \in Edits
<1>1. MaxEdit \in Nat \ {0} /\ edit \in Edits
  BY MainAssumption DEF PageInv, Edits
<1>2. edit.n \in 0..MaxEdit
  BY <1>1 DEF Edits
<1>3. NoEdit \in Edits
  BY <1>1 DEF NoEdit, Edits
<1>4. InsertChar(edit) \in Edits
  <2>1. CASE edit.n < MaxEdit
    <3>1. edit.n + 1 \in 0..MaxEdit
      BY <1>1, <1>2, <2>1
    <3>2. InsertChar(edit) = [edit EXCEPT !.n = edit.n + 1]
      BY <2>1 DEF InsertChar
    <3> QED BY <1>1, <3>1, <3>2 DEF Edits
  <2> QED BY <1>1, <2>1 DEF InsertChar
<1>5. Backspace(edit) \in Edits
  <2>1. CASE edit.n > 0
    <3>1. edit.n - 1 \in 0..MaxEdit
      BY <1>1, <1>2, <2>1
    <3>2. Backspace(edit) = [edit EXCEPT !.n = edit.n - 1]
      BY <2>1 DEF Backspace
    <3> QED BY <1>1, <3>1, <3>2 DEF Edits
  <2> QED BY <1>1, <2>1 DEF Backspace
<1>6. ASSUME EditBegin PROVE edit' \in Edits
  <2>1. 0 \in 0..MaxEdit /\ 1 \in 0..MaxEdit
    BY <1>1
  <2> QED BY <1>6, <2>1 DEF EditBegin, Edits
<1> QED BY <1>3, <1>4, <1>5, <1>6

LEMMA DisplayTyped ==
  ASSUME NEW e \in Edits, NEW b \in Site \cup {NoSite}
  PROVE  Shows(b) \in Screens /\ Display(e, b) \in Screens
<1>1. 0 \in 0..MaxEdit
  BY MainAssumption
<1>2. e.n \in 0..MaxEdit
  BY DEF Edits
<1> QED BY <1>1, <1>2 DEF Shows, Display, Screens

LEMMA NavigateTyped ==
  ASSUME PageInv, Navigate
  PROVE  /\ host' \in Site /\ bar' \in Site \cup {NoSite} /\ page' \in {"shown", "failed"}
         /\ scroll' \in 0..MaxScroll
         /\ Shows(host') \in Screens /\ Shows(bar') \in Screens
<1>1. host' \in Site /\ bar' \in Site \cup {NoSite} /\ page' \in {"shown", "failed"}
  BY DEF Navigate, Connected, CannotConnect, PageInv
<1>2. scroll' \in 0..MaxScroll
  BY MainAssumption DEF Navigate
<1>3. 0 \in 0..MaxEdit
  BY MainAssumption
<1> QED BY <1>1, <1>2, <1>3 DEF Shows, Screens

LEMMA RepaintTyped ==
  ASSUME PageInv, edit' \in Edits, NEW e \in Edits, Repaint(e)
  PROVE  NextPageOk
<1>1. bar \in Site \cup {NoSite}
  BY DEF PageInv
<1> QED BY <1>1, DisplayTyped DEF Repaint, PageInv, NextPageOk

LEMMA KeyTyped ==
  ASSUME PageInv, NEW k, KeyEdits(k) \/ KeyCommands(k)
  PROVE  NextPageOk
<1>0. edit \in Edits
  BY DEF PageInv, Edits
<1>1. CASE TypeText(k) \/ EraseText(k) \/ LeaveEdit(k)
  <2>1. edit' \in Edits
    BY <1>0, <1>1, EditTyped DEF TypeText, EraseText, LeaveEdit, EditCancel
  <2> QED BY <1>1, <2>1, RepaintTyped DEF TypeText, EraseText, LeaveEdit
<1>2. CASE EnterNothing(k)
  BY <1>0, <1>2, RepaintTyped DEF EnterNothing
<1>3. CASE EnterUrl(k)
  BY <1>3, EditTyped, NavigateTyped DEF EnterUrl, EditCancel, NextPageOk
<1>4. CASE KeyCommands(k)
  <2>1. edit' \in Edits
    BY <1>0, <1>4, EditTyped DEF KeyCommands
  <2> QED BY <1>4, <2>1, RepaintTyped DEF KeyCommands
<1> QED BY <1>1, <1>2, <1>3, <1>4 DEF KeyEdits

LEMMA ClickTyped ==
  ASSUME PageInv, NEW a, Click(a)
  PROVE  NextPageOk
<1>0. edit \in Edits
  BY DEF PageInv, Edits
<1>1. CASE ClickBar
  BY <1>1, EditTyped, RepaintTyped DEF ClickBar
<1>2. ASSUME ClickGo PROVE NextPageOk
  BY <1>2, EditTyped, NavigateTyped DEF ClickGo, EditCancel, NextPageOk
<1>3. CASE EditCancel /\ edit.on /\ Repaint(edit')
  BY <1>3, EditTyped, RepaintTyped DEF EditCancel
<1>4. CASE EditCancel /\ UNCHANGED pageVars
  BY <1>0, <1>4 DEF pageVars, PageInv, NextPageOk, Screens
<1> QED BY <1>1, <1>2, <1>3, <1>4 DEF Click, ClickBody

LEMMA ScrolledTyped ==
  ASSUME NEW s \in 0..MaxScroll, NEW d \in {-1, 0, 1}
  PROVE  Scrolled(s, d) \in 0..MaxScroll
  BY MainAssumption DEF Scrolled

LEMMA PageStays ==
  ASSUME PageInv, UNCHANGED pageVars
  PROVE  NextPageOk
  BY DEF pageVars, PageInv, NextPageOk, Edits, Screens

LEMMA PageKept ==
  ASSUME InputInv, PageInv, [Next]_vars
  PROVE  PageInv'
<1>1. ASSUME NextPageOk, pc # "start", pc' # "start" PROVE PageInv'
  BY <1>1 DEF NextPageOk, PageInv, Edits, Screens
<1>2. ASSUME UNCHANGED <<pc, pageVars>> PROVE PageInv'
  BY <1>2 DEF pageVars, PageInv
<1>3. CASE UNCHANGED vars
  BY <1>2, <1>3 DEF vars, loopVars
<1>4. ASSUME NEW p \in Writer, Writes(p) PROVE PageInv'
  BY <1>2, <1>4 DEF Writes, loopVars
<1>5. CASE Start
  BY <1>5, NavigateTyped DEF Start, PageInv, Screens
<1>6. CASE SyncMouse \/ SyncKeys \/ ReadWheel \/ ReadKeys \/ KeysTaken \/ ReadMouse
           \/ ReadState \/ ReadX
  <2>1. pc # "start" /\ pc' # "start" /\ UNCHANGED pageVars
    BY <1>6 DEF SyncMouse, SyncKeys, ReadWheel, ReadKeys, KeysTaken, ReadMouse,
                ReadState, ReadX
  <2> QED BY <1>1, <2>1, PageStays
<1>7. CASE ReadDelta
  <2>1. hdr.dy \in {-1, 0, 1}
    BY DEF InputInv, Header
  <2>2. scroll \in 0..MaxScroll /\ edit \in Edits /\ bar \in Site \cup {NoSite}
    BY DEF PageInv, Edits
  <2>3. NextPageOk
    BY <1>7, <2>1, <2>2, ScrolledTyped, DisplayTyped DEF ReadDelta, PageInv, NextPageOk
  <2> QED BY <1>1, <1>7, <2>3 DEF ReadDelta
<1>8. CASE TakeKey
  <2>1. NextPageOk
    BY <1>8, KeyTyped DEF TakeKey
  <2> QED BY <1>1, <1>8, <2>1 DEF TakeKey
<1>9. CASE ReadYAndAct
  <2>1. NextPageOk
    BY <1>9, ClickTyped DEF ReadYAndAct
  <2> QED BY <1>1, <1>9, <2>1 DEF ReadYAndAct
<1>10. CASE PumpAndSleep
  <2>1. bar \in Site \cup {NoSite} /\ edit \in Edits
    BY DEF PageInv, Edits
  <2>2. NextPageOk
    BY <1>10, <2>1, DisplayTyped DEF PumpAndSleep, PageInv, NextPageOk, Screens
  <2> QED BY <1>1, <1>10, <2>2 DEF PumpAndSleep
<1> QED BY <1>3, <1>4, <1>5, <1>6, <1>7, <1>8, <1>9, <1>10 DEF Next, Browser

\* The steps of the browser other than those that take keys: where they go, what
\* they have read, and what they leave.
LEMMA LoopReads ==
  ASSUME InputInv, Browser
  PROVE  hdr' = hdr /\ writer' = writer /\ lead' = lead
  BY DEF Browser, Start, SyncMouse, SyncKeys, ReadWheel, ReadDelta, ReadKeys, TakeKey,
         KeysTaken, ReadMouse, ReadState, ReadX, ReadYAndAct, PumpAndSleep

LEMMA LoopKept ==
  ASSUME InputInv, LoopInv, [Next]_vars
  PROVE  LoopInv'
<1>0. /\ hdr.wpos \in KeyPos /\ hdr.x \in X \cup {0} /\ hdr.y \in Y \cup {0}
      /\ hdr.dy \in {-1, 0, 1} /\ 0 \in KeyPos
  BY Bounds DEF InputInv, Header
<1>1. CASE UNCHANGED vars
  BY <1>1 DEF vars, loopVars, history, LoopInv
<1>2. ASSUME NEW p \in Writer, Writes(p) PROVE LoopInv'
  <2>1. writer[p] \in Event /\ AmongKeys(p)
    BY DEF InputInv
  <2>2. typed' \in {typed, <<>>} \/ (KeyPushed(p) /\ typed' = Append(typed, writer[p].ev))
    BY <1>2 DEF Writes, history
  <2>3. KeyPushed(p) => writer[p].ev \in Key
    BY <2>1 DEF KeyPushed, At, AmongKeys
  <2>4. typed' \in Seq(Key)
    <3>1. typed \in Seq(Key) /\ <<>> \in Seq(Key)
      BY DEF LoopInv
    <3>2. KeyPushed(p) => Append(typed, writer[p].ev) \in Seq(Key)
      BY <2>3, <3>1
    <3> QED BY <2>2, <3>1, <3>2
  <2>5. overrun' \in BOOLEAN
    BY <1>2 DEF Writes, history, LoopInv
  <2>6. due' \in {due, NotDue, [press |-> TRUE, x |-> writer[p].x, y |-> writer[p].y]}
    BY <1>2 DEF Writes, history
  <2>7. writer[p].x \in X \cup {0} /\ writer[p].y \in Y \cup {0}
    BY <2>1 DEF Event
  <2>8. due' \in [press : BOOLEAN, x : X \cup {0}, y : Y \cup {0}]
    <3>1. NotDue \in [press : BOOLEAN, x : X \cup {0}, y : Y \cup {0}]
      BY DEF NotDue
    <3>2. [press |-> TRUE, x |-> writer[p].x, y |-> writer[p].y]
            \in [press : BOOLEAN, x : X \cup {0}, y : Y \cup {0}]
      BY <2>7
    <3> QED BY <2>6, <3>1, <3>2 DEF LoopInv
  <2>9. turn' \in {turn, hdr.dy} /\ UNCHANGED <<kpos, click>>
    BY <1>2 DEF Writes, history, loopVars
  <2> QED BY <1>0, <2>4, <2>5, <2>8, <2>9 DEF LoopInv
<1>3. CASE Start \/ ReadWheel \/ ReadMouse \/ ReadState \/ PumpAndSleep
  BY <1>3 DEF Start, ReadWheel, ReadMouse, ReadState, PumpAndSleep, history, LoopInv
<1>4. CASE SyncMouse \/ SyncKeys
  <2>1. NotDue \in [press : BOOLEAN, x : X \cup {0}, y : Y \cup {0}]
        /\ <<>> \in Seq(Key)
    BY DEF NotDue
  <2>2. CASE SyncMouse
    BY <2>1, <2>2 DEF SyncMouse, LoopInv
  <2>3. CASE SyncKeys
    BY <2>1, <2>3 DEF SyncKeys, LoopInv
  <2> QED BY <1>4, <2>2, <2>3
<1>5. CASE ReadDelta
  BY <1>5 DEF ReadDelta, LoopInv
<1>6. CASE ReadKeys \/ KeysTaken
  BY <1>0, <1>6 DEF ReadKeys, KeysTaken, history, LoopInv
<1>7. CASE TakeKey
  <2>1. typed' \in Seq(Key)
    BY <1>7 DEF TakeKey, LoopInv
  <2>2. overrun' \in BOOLEAN /\ UNCHANGED <<kpos, click, due, turn>>
    BY <1>7 DEF TakeKey, LoopInv
  <2> QED BY <2>1, <2>2 DEF LoopInv
<1>8. CASE ReadX
  BY <1>0, <1>8 DEF ReadX, history, LoopInv
<1>9. CASE ReadYAndAct
  BY <1>9 DEF ReadYAndAct, NoClick, NotDue, LoopInv
<1> QED BY <1>1, <1>2, <1>3, <1>4, <1>5, <1>6, <1>7, <1>8, <1>9 DEF Next, Browser

-----------------------------------------------------------------------------
(***************************************************************************)
(* The ring of keys.                                                       *)
(***************************************************************************)

\* The browser's copy of the position is not beyond the position.
Behind == pc = "key" => (kpos - seen.key) % KeyWrap <= KeyLag

\* The slot the viewer has filled and not yet announced.
Filled ==
    At(Viewer, "wpos") => /\ hdr.keyq[hdr.wpos % Ring] = writer[Viewer].ev
                          /\ ~overrun => KeyLag < Ring

FifoInv == RingIsFifo /\ (overrun => typed = <<>>) /\ (~overrun => KeyLag <= Ring)

\* What a step of a writer does to the keys: nothing, or the viewer starts a key,
\* fills its slot, or announces it.
OthersStay(p) == \A q \in Writer \ {p} : writer'[q] = writer[q]

KeysStill ==
    /\ hdr'.wpos = hdr.wpos /\ hdr'.keyq = hdr.keyq
    /\ typed' = typed /\ (overrun' <=> overrun)
    /\ \A q \in Writer : writer'[q].at \in {"slot", "wpos"} => writer'[q] = writer[q]

KeyStarts ==
    /\ hdr' = hdr /\ typed' = typed /\ (overrun' <=> overrun)
    /\ KeyLag < lead.keys
    /\ writer'[Viewer].at = "slot" /\ writer'[Viewer].reg = hdr.wpos
    /\ writer'[Viewer].ev \in Key
    /\ OthersStay(Viewer)

SlotFilled ==
    /\ At(Viewer, "slot")
    /\ hdr'.wpos = hdr.wpos
    /\ hdr'.keyq = [hdr.keyq EXCEPT ![hdr.wpos % Ring] = writer[Viewer].ev]
    /\ overrun' <=> overrun \/ KeyLag >= Ring
    /\ typed' = IF overrun' THEN <<>> ELSE typed
    /\ writer'[Viewer] = Having(Viewer, "wpos", hdr.wpos)
    /\ OthersStay(Viewer)

KeyAnnounced ==
    /\ At(Viewer, "wpos")
    /\ hdr'.wpos = NextPos(hdr.wpos) /\ hdr'.keyq = hdr.keyq
    /\ overrun' <=> overrun
    /\ typed' = IF overrun THEN <<>> ELSE Append(typed, writer[Viewer].ev)
    /\ writer'[Viewer] = IdleWriter
    /\ OthersStay(Viewer)

LEMMA StoredFields ==
  ASSUME NEW h, NEW f, NEW v, Stored(h, f, v)
  PROVE  /\ h \in Header /\ h[f] = v
         /\ f \notin {"wpos", "keyq"} => h.wpos = hdr.wpos /\ h.keyq = hdr.keyq
         /\ f = "wpos" => h.keyq = hdr.keyq
         /\ f = "keyq" => h.wpos = hdr.wpos
  BY DEF Stored, Fields

LEMMA MovedOthers ==
  ASSUME InputInv, NEW p \in Writer, NEW e, Moved(p, e)
  PROVE  OthersStay(p) /\ writer'[p] = e
  BY DEF Moved, OthersStay, InputInv

\* A step in which p does not hold a key afterwards, and stores nothing of the keys.
LEMMA StillIf ==
  ASSUME InputInv, NEW p \in Writer, NEW e, Moved(p, e), e.at \notin {"slot", "wpos"},
         hdr'.wpos = hdr.wpos, hdr'.keyq = hdr.keyq, typed' = typed, overrun' <=> overrun
  PROVE  KeysStill
  BY MovedOthers DEF OthersStay, KeysStill

LEMMA WriteOfKeys ==
  ASSUME InputInv, LoopInv, FifoInv, NEW p \in Writer, Writes(p)
  PROVE  KeysStill \/ KeyStarts \/ SlotFilled \/ KeyAnnounced
<1>0. AmongKeys(p) /\ (overrun => typed = <<>>)
  BY DEF InputInv, FifoInv
<1>1. CASE Starts(p) /\ UNCHANGED history
  <2>0. typed' = typed /\ (overrun' <=> overrun)
    BY <1>1 DEF history
  <2>1. ASSUME NEW k \in Key, KeyBegins(p, k) PROVE KeyStarts
    <3>1. /\ hdr' = hdr /\ p = Viewer /\ KeyLag < lead.keys
          /\ Moved(p, [at |-> "slot", ev |-> k, x |-> 0, y |-> 0, down |-> FALSE,
                       reg |-> hdr.wpos])
      BY <2>1, WriterSteps
    <3> QED BY <2>0, <3>1, MovedOthers DEF KeyStarts
  <2>2. ASSUME NEW ex \in X, NEW ey \in Y, NEW d \in BOOLEAN, ButtonBegins(p, ex, ey, d)
        PROVE  KeysStill
    <3>1. hdr' = hdr /\ Moved(p, [at |-> "x", ev |-> NoKey, x |-> ex, y |-> ey, down |-> d,
                                  reg |-> 0])
      BY <2>2, WriterSteps
    <3> QED BY <2>0, <3>1, StillIf
  <2>3. ASSUME NEW d \in {-1, 1}, WheelBegins(p, d) PROVE KeysStill
    <3>1. Stored(hdr', "dy", d) /\ Moved(p, Having(p, "wheel", writer[p].reg))
      BY <2>3, WriterSteps
    <3> QED BY <2>0, <3>1, StoredFields, StillIf DEF Having
  <2> QED BY <1>1, <2>1, <2>2, <2>3 DEF Starts
<1>2. CASE /\ Continues(p)
           /\ overrun' = (overrun \/ (At(p, "slot") /\ KeyLag >= Ring))
           /\ typed' = IF overrun' THEN <<>> ELSE typed
  <2>1. CASE KeyStored(p)
    <3>1. At(p, "slot") /\ p = Viewer
      BY <1>0, <2>1 DEF KeyStored, At, AmongKeys
    <3>2. /\ Stored(hdr', "keyq", [hdr.keyq EXCEPT ![hdr.wpos % Ring] = writer[p].ev])
          /\ Moved(p, Having(p, "wpos", hdr.wpos))
      BY <2>1, WriterSteps
    <3>3. hdr'.wpos = hdr.wpos
          /\ hdr'.keyq = [hdr.keyq EXCEPT ![hdr.wpos % Ring] = writer[p].ev]
      BY <3>2, StoredFields
    <3> QED BY <1>2, <3>1, <3>2, <3>3, MovedOthers DEF SlotFilled
  <2>2. CASE ButtonX(p) \/ ButtonY(p) \/ ButtonState(p) \/ ButtonCounterRead(p)
             \/ WheelCounterRead(p)
    <3>1. ~At(p, "slot")
      BY <2>2 DEF ButtonX, ButtonY, ButtonState, ButtonCounterRead, WheelCounterRead, At
    <3>2. typed' = typed /\ (overrun' <=> overrun)
      BY <1>0, <1>2, <3>1
    <3>3. hdr'.wpos = hdr.wpos /\ hdr'.keyq = hdr.keyq
      <4>1. CASE ButtonX(p)
        BY <4>1, WriterSteps, StoredFields
      <4>2. CASE ButtonY(p)
        BY <4>2, WriterSteps, StoredFields
      <4>3. CASE ButtonState(p)
        <5>1. \E v : Stored(hdr', "down", v)
          BY <4>3, WriterSteps
        <5> QED BY <5>1, StoredFields
      <4>4. CASE ButtonCounterRead(p) \/ WheelCounterRead(p)
        BY <4>4, WriterSteps
      <4> QED BY <2>2, <4>1, <4>2, <4>3, <4>4
    <3>4. PICK place \in {"y", "state", "mouse", "mouse+1", "wheel+1"} :
            \E r : Moved(p, Having(p, place, r))
      BY <2>2, WriterSteps
    <3>5. PICK r : Moved(p, Having(p, place, r))
      BY <3>4
    <3> QED BY <3>2, <3>3, <3>5, StillIf DEF Having
  <2> QED BY <1>2, <2>1, <2>2 DEF Continues
<1>3. CASE KeyPushed(p) /\ typed' = (IF overrun THEN <<>> ELSE Append(typed, writer[p].ev))
           /\ overrun' = overrun
  <2>1. At(p, "wpos") /\ p = Viewer
    BY <1>0, <1>3 DEF KeyPushed, At, AmongKeys
  <2>2. Stored(hdr', "wpos", NextPos(hdr.wpos)) /\ Moved(p, IdleWriter)
    BY <1>3, WriterSteps
  <2>3. hdr'.wpos = NextPos(hdr.wpos) /\ hdr'.keyq = hdr.keyq
    BY <2>2, StoredFields
  <2> QED BY <1>3, <2>1, <2>2, <2>3, MovedOthers DEF KeyAnnounced
<1>4. CASE (ButtonPushed(p) \/ WheelPushed(p)) /\ UNCHANGED <<typed, overrun>>
  <2>1. hdr'.wpos = hdr.wpos /\ hdr'.keyq = hdr.keyq /\ Moved(p, IdleWriter)
    BY <1>4, WriterSteps, StoredFields
  <2> QED BY <1>4, <2>1, StillIf DEF IdleWriter
<1> QED BY <1>1, <1>2, <1>3, <1>4 DEF Writes

\* What the browser notes as seen.
LEMMA SeenKept ==
  ASSUME InputInv
  PROVE  /\ SyncMouse \/ ReadWheel \/ ReadMouse =>
              seen' \in Counters /\ seen'.key = seen.key
         /\ SyncKeys => seen' \in Counters /\ seen'.key = hdr.wpos
         /\ TakeKey => seen' \in Counters /\ seen'.key = NextPos(seen.key)
<1>1. /\ seen \in Counters /\ hdr.wpos \in KeyPos /\ hdr.mouse \in Counter
      /\ hdr.wheel \in Counter
  BY DEF InputInv, Header
<1>2. seen.key \in KeyPos /\ NextPos(seen.key) \in KeyPos
  BY <1>1, NextPosTyped DEF Counters, InputInv
<1>3. SyncMouse \/ ReadWheel \/ ReadMouse => seen' \in Counters /\ seen'.key = seen.key
  BY <1>1 DEF SyncMouse, ReadWheel, ReadMouse, Counters
<1>4. SyncKeys => seen' \in Counters /\ seen'.key = hdr.wpos
  BY <1>1 DEF SyncKeys, Counters
<1>5. TakeKey => seen' \in Counters /\ seen'.key = NextPos(seen.key)
  <2>1. TakeKey => seen' = [seen EXCEPT !.key = NextPos(seen.key)]
    BY DEF TakeKey
  <2> QED BY <1>1, <1>2, <2>1 DEF Counters
<1> QED BY <1>3, <1>4, <1>5

\* What the browser does to the keys: it drops all of them, takes one, or reads
\* the position or nothing.
ReadsNoKey ==
    /\ seen'.key = seen.key /\ UNCHANGED <<typed, overrun>>
    /\ pc' = "key" => kpos' = hdr.wpos

LEMMA BrowserOfKeys ==
  ASSUME InputInv, Browser
  PROVE  seen' \in Counters /\ (SyncKeys \/ TakeKey \/ ReadsNoKey)
<1>0. seen \in Counters
  BY DEF InputInv
<1>1. CASE SyncKeys \/ TakeKey
  BY <1>1, SeenKept
<1>2. CASE Start \/ ReadKeys \/ KeysTaken \/ ReadState \/ ReadX \/ PumpAndSleep
  <2>1. seen' = seen /\ UNCHANGED <<typed, overrun>> /\ (pc' = "key" => kpos' = hdr.wpos)
    BY <1>2 DEF Start, ReadKeys, KeysTaken, ReadState, ReadX, PumpAndSleep, history
  <2> QED BY <1>0, <2>1 DEF ReadsNoKey
<1>3. CASE SyncMouse \/ ReadWheel \/ ReadMouse
  <2>1. UNCHANGED <<typed, overrun>> /\ pc' # "key"
    BY <1>3 DEF SyncMouse, ReadWheel, ReadMouse, history
  <2> QED BY <1>3, <2>1, SeenKept DEF ReadsNoKey
<1>4. CASE ReadDelta \/ ReadYAndAct
  <2>1. seen' = seen /\ UNCHANGED <<typed, overrun>> /\ pc' # "key"
    BY <1>4 DEF ReadDelta, ReadYAndAct
  <2> QED BY <1>0, <2>1 DEF ReadsNoKey
<1> QED BY <1>1, <1>2, <1>3, <1>4 DEF Browser

-----------------------------------------------------------------------------
\* Positions and slots.
LEMMA SlotOfPosition ==
  ASSUME lead \in Leads, NEW w \in KeyPos, NEW s \in KeyPos
  PROVE  w % Ring = (s + ((w - s) % KeyWrap)) % Ring
<1>0. /\ KeyWrap \in Nat /\ KeyWrap % Ring = 0 /\ Ring \in Nat \ {0}
      /\ w \in 0..(KeyWrap - 1) /\ s \in 0..(KeyWrap - 1)
  BY Bounds DEF KeyPos
<1>1. (w - s) % KeyWrap = IF s <= w THEN w - s ELSE w - s + KeyWrap
  BY <1>0, Ahead
<1>2. ASSUME NEW l, l = IF s <= w THEN w - s ELSE w - s + KeyWrap
      PROVE  w % Ring = (s + l) % Ring
  <2>1. CASE s <= w
    <3>1. s + l = w
      BY <1>0, <1>2, <2>1
    <3> QED BY <3>1
  <2>2. CASE ~ (s <= w)
    <3>1. s + l = w + KeyWrap
      BY <1>0, <1>2, <2>2
    <3>2. w + KeyWrap \in Nat /\ w + KeyWrap >= KeyWrap /\ (w + KeyWrap) - KeyWrap = w
      BY <1>0
    <3>3. ((w + KeyWrap) - KeyWrap) % Ring = (w + KeyWrap) % Ring
      BY <1>0, <3>2, ModShift
    <3> QED BY <3>1, <3>2, <3>3
  <2> QED BY <2>1, <2>2
<1> QED BY <1>1, <1>2

LEMMA SlotOfNext ==
  ASSUME lead \in Leads, NEW s \in KeyPos, NEW n \in Nat \ {0}
  PROVE  (NextPos(s) + n - 1) % Ring = (s + (n + 1) - 1) % Ring
<1>0. /\ KeyWrap \in Nat /\ KeyWrap % Ring = 0 /\ Ring \in Nat \ {0}
      /\ s \in 0..(KeyWrap - 1)
  BY Bounds DEF KeyPos
<1>1. NextPos(s) = IF s = KeyWrap - 1 THEN 0 ELSE s + 1
  BY <1>0, Following DEF NextPos
<1>2. CASE s = KeyWrap - 1
  <2>1. s + (n + 1) - 1 \in Nat /\ s + (n + 1) - 1 >= KeyWrap
    BY <1>0, <1>2
  <2>2. ((s + (n + 1) - 1) - KeyWrap) % Ring = (s + (n + 1) - 1) % Ring
    BY <1>0, <2>1, ModShift
  <2>3. (s + (n + 1) - 1) - KeyWrap = NextPos(s) + n - 1
    BY <1>0, <1>1, <1>2
  <2> QED BY <2>2, <2>3
<1>3. CASE s # KeyWrap - 1
  <2>1. NextPos(s) + n - 1 = s + (n + 1) - 1
    BY <1>0, <1>1, <1>3
  <2> QED BY <2>1
<1> QED BY <1>2, <1>3

-----------------------------------------------------------------------------
KeysInv == (\A p \in Writer : AmongKeys(p)) /\ Behind /\ Filled /\ FifoInv

LEMMA LagFacts ==
  ASSUME InputInv
  PROVE  /\ hdr.wpos \in KeyPos /\ seen.key \in KeyPos
         /\ KeyLag \in 0..(KeyWrap - 1) /\ (KeyLag = 0 <=> hdr.wpos = seen.key)
         /\ KeyWrap \in Nat \ {0} /\ lead.keys \in 0..(KeyWrap - 1)
         /\ Ring \in Nat \ {0} /\ hdr.wpos % Ring \in Slot
         /\ hdr.keyq \in [Slot -> Key \cup {NoKey}]
<1>1. hdr.wpos \in KeyPos /\ seen.key \in KeyPos /\ hdr.keyq \in [Slot -> Key \cup {NoKey}]
  BY DEF InputInv, Header, Counters
<1>2. KeyWrap \in Nat \ {0} /\ lead.keys \in 0..(KeyWrap - 1) /\ Ring \in Nat \ {0}
  BY Bounds DEF InputInv
<1>3. hdr.wpos \in 0..(KeyWrap - 1) /\ seen.key \in 0..(KeyWrap - 1) /\ KeyWrap \in Nat
  BY <1>1, <1>2 DEF KeyPos
<1>4. KeyLag \in 0..(KeyWrap - 1) /\ (KeyLag = 0 <=> hdr.wpos = seen.key)
  BY <1>3, Ahead DEF KeyLag
<1>5. hdr.wpos % Ring \in Slot
  BY <1>2, <1>3 DEF Slot
<1> QED BY <1>1, <1>2, <1>4, <1>5

\* Nothing happens to the keys.
LEMMA KeysStillKept ==
  ASSUME InputInv, KeysInv, KeysStill, lead' = lead, seen'.key = seen.key,
         UNCHANGED <<pc, kpos>> \/ (pc' = "key" => kpos' = hdr.wpos)
  PROVE  KeysInv'
<1>0. KeyLag' = KeyLag /\ KeyLag \in Int /\ Viewer \in Writer
  BY LagFacts, InputAssumption DEF KeysStill, KeyLag
<1>1. ASSUME NEW q \in Writer PROVE AmongKeys(q)'
  <2>1. CASE writer'[q].at \in {"slot", "wpos"}
    <3>1. writer'[q] = writer[q]
      BY <2>1 DEF KeysStill
    <3>2. AmongKeys(q)
      BY DEF KeysInv
    <3> QED BY <1>0, <2>1, <3>1, <3>2 DEF AmongKeys, KeysStill
  <2>2. CASE writer'[q].at \notin {"slot", "wpos"}
    BY <2>2 DEF AmongKeys
  <2> QED BY <2>1, <2>2
<1>2. Behind'
  <2>1. CASE UNCHANGED <<pc, kpos>>
    BY <1>0, <2>1 DEF KeysInv, Behind
  <2>2. CASE pc' = "key" => kpos' = hdr.wpos
    <3>1. pc' = "key" => (kpos' - seen'.key) % KeyWrap = KeyLag
      BY <2>2 DEF KeyLag
    <3> QED BY <1>0, <3>1 DEF Behind
  <2> QED BY <2>1, <2>2
<1>3. Filled'
  <2>1. CASE writer'[Viewer].at = "wpos"
    <3>1. writer'[Viewer] = writer[Viewer]
      BY <1>0, <2>1 DEF KeysStill
    <3> QED BY <1>0, <2>1, <3>1 DEF KeysInv, Filled, At, KeysStill
  <2>2. CASE writer'[Viewer].at # "wpos"
    BY <2>2 DEF Filled, At
  <2> QED BY <2>1, <2>2
<1>4. FifoInv'
  BY <1>0 DEF KeysInv, KeysStill, FifoInv, RingIsFifo
<1> QED BY <1>1, <1>2, <1>3, <1>4 DEF KeysInv

\* The viewer starts a key: it is not a wrap ahead.
LEMMA KeyStartsKept ==
  ASSUME InputInv, KeysInv, KeyStarts, UNCHANGED <<lead, seen, pc, kpos>>
  PROVE  KeysInv'
<1>0. KeyLag' = KeyLag /\ Viewer \in Writer
  BY InputAssumption DEF KeyStarts, KeyLag
<1>1. ASSUME NEW q \in Writer PROVE AmongKeys(q)'
  <2>1. CASE q = Viewer
    BY <1>0, <2>1 DEF KeyStarts, AmongKeys
  <2>2. CASE q # Viewer
    <3>1. writer'[q] = writer[q] /\ AmongKeys(q)
      BY <2>2 DEF KeyStarts, OthersStay, KeysInv
    <3> QED BY <1>0, <3>1 DEF AmongKeys, KeyStarts
  <2> QED BY <2>1, <2>2
<1>2. Behind'
  BY <1>0 DEF KeysInv, Behind
<1>3. Filled'
  BY DEF KeyStarts, Filled, At
<1>4. FifoInv'
  BY <1>0 DEF KeysInv, KeyStarts, FifoInv, RingIsFifo
<1> QED BY <1>1, <1>2, <1>3, <1>4 DEF KeysInv

\* The slot filled is none of those that hold an untaken key, unless a whole ring
\* of them is untaken.
LEMMA FreshSlot ==
  ASSUME InputInv, KeyLag < Ring, NEW n \in 1..KeyLag
  PROVE  (seen.key + n - 1) % Ring # hdr.wpos % Ring
<1>0. /\ hdr.wpos \in KeyPos /\ seen.key \in KeyPos /\ KeyLag \in Nat
      /\ Ring \in Nat \ {0} /\ seen.key \in Nat /\ lead \in Leads
  BY LagFacts DEF KeyPos, InputInv
<1>1. hdr.wpos % Ring = (seen.key + KeyLag) % Ring
  BY <1>0, SlotOfPosition DEF KeyLag
<1>2. ASSUME NEW x, x = seen.key + n - 1, NEW d, d = KeyLag - n + 1
      PROVE  (seen.key + n - 1) % Ring # (seen.key + KeyLag) % Ring
  <2>1. x \in Nat /\ d \in 1..(Ring - 1) /\ x + d = seen.key + KeyLag
    BY <1>0, <1>2
  <2>2. (x + d) % Ring # x % Ring
    BY <1>0, <2>1, SlotsDiffer
  <2> QED BY <1>2, <2>1, <2>2
<1> QED BY <1>1, <1>2

LEMMA SlotFilledKept ==
  ASSUME InputInv, LoopInv, KeysInv, SlotFilled, UNCHANGED <<lead, seen, pc, kpos>>
  PROVE  KeysInv'
<1>0. KeyLag' = KeyLag /\ Viewer \in Writer /\ Ring \in Nat \ {0} /\ KeyLag \in Nat
  BY InputAssumption, LagFacts DEF SlotFilled, KeyLag
<1>5. AmongKeys(Viewer) /\ writer[Viewer].at = "slot"
  BY <1>0 DEF SlotFilled, KeysInv, At
<1>1. ASSUME NEW q \in Writer PROVE AmongKeys(q)'
  <2>1. CASE q = Viewer
    BY <1>0, <1>5, <2>1 DEF SlotFilled, AmongKeys, Having
  <2>2. CASE q # Viewer
    <3>1. writer'[q] = writer[q] /\ AmongKeys(q)
      BY <2>2 DEF SlotFilled, OthersStay, KeysInv
    <3> QED BY <1>0, <3>1 DEF AmongKeys, SlotFilled
  <2> QED BY <2>1, <2>2
<1>2. Behind'
  BY <1>0 DEF KeysInv, Behind
<1>3. Filled'
  <2>1. hdr'.keyq[hdr'.wpos % Ring] = writer'[Viewer].ev
    BY LagFacts DEF SlotFilled, Having
  <2>2. ~overrun' => KeyLag' < Ring
    BY <1>0 DEF SlotFilled
  <2> QED BY <2>1, <2>2 DEF Filled
<1>4. FifoInv'
  <2>1. CASE overrun'
    BY <2>1 DEF SlotFilled, FifoInv, RingIsFifo
  <2>2. CASE ~overrun'
    <3>1. ~overrun /\ KeyLag < Ring /\ typed' = typed
      BY <1>0, <2>2 DEF SlotFilled
    <3>2. Len(typed) = KeyLag
      BY <3>1 DEF KeysInv, FifoInv, RingIsFifo
    <3>3. ASSUME NEW n \in 1..Len(typed)
          PROVE  hdr'.keyq[(seen'.key + n - 1) % Ring] = typed'[n]
      <4>1. (seen.key + n - 1) % Ring # hdr.wpos % Ring
        BY <3>1, <3>2, FreshSlot
      <4>2. (seen.key + n - 1) % Ring \in Slot
        <5>1. seen.key + n - 1 \in Nat
          BY LagFacts, <1>0, <3>2 DEF KeyPos
        <5> QED BY <1>0, <5>1 DEF Slot
      <4>3. hdr.keyq[(seen.key + n - 1) % Ring] = typed[n]
        BY <3>1 DEF KeysInv, FifoInv, RingIsFifo
      <4> QED BY <3>1, <4>1, <4>2, <4>3, LagFacts DEF SlotFilled
    <3> QED BY <1>0, <2>2, <3>1, <3>2, <3>3 DEF FifoInv, RingIsFifo
  <2> QED BY <2>1, <2>2
<1> QED BY <1>1, <1>2, <1>3, <1>4 DEF KeysInv

\* The key is announced: one more, at the end of the queue.
LEMMA KeyAnnouncedKept ==
  ASSUME InputInv, LoopInv, KeysInv, KeyAnnounced, UNCHANGED <<lead, seen, pc, kpos>>
  PROVE  KeysInv'
<1>0. /\ Viewer \in Writer /\ AmongKeys(Viewer) /\ writer[Viewer].at = "wpos"
      /\ KeyLag \in Nat /\ KeyWrap \in Nat
  BY InputAssumption, LagFacts DEF KeyAnnounced, At, KeysInv
<1>1. KeyLag < KeyWrap - 1
  BY <1>0, LagFacts DEF AmongKeys
<1>2. KeyLag' = KeyLag + 1
  <2>1. hdr.wpos \in 0..(KeyWrap - 1) /\ seen.key \in 0..(KeyWrap - 1)
    BY LagFacts DEF KeyPos
  <2>2. (((hdr.wpos + 1) % KeyWrap) - seen.key) % KeyWrap
          = ((hdr.wpos - seen.key) % KeyWrap) + 1
    BY <1>0, <1>1, <2>1, AheadByOneMore DEF KeyLag
  <2> QED BY <2>2 DEF KeyAnnounced, NextPos, KeyLag
<1>3. ASSUME NEW q \in Writer PROVE AmongKeys(q)'
  <2>1. CASE q = Viewer
    BY <2>1 DEF KeyAnnounced, AmongKeys, IdleWriter
  <2>2. CASE q # Viewer
    <3>1. writer'[q] = writer[q] /\ AmongKeys(q)
      BY <2>2 DEF KeyAnnounced, OthersStay, KeysInv
    <3> QED BY <2>2, <3>1 DEF AmongKeys
  <2> QED BY <2>1, <2>2
<1>4. Behind'
  <2>1. pc = "key" => (kpos - seen.key) % KeyWrap <= KeyLag
    BY DEF KeysInv, Behind
  <2>2. pc = "key" => (kpos - seen.key) % KeyWrap \in Int
    BY LagFacts DEF LoopInv, KeyPos
  <2>3. ASSUME NEW l \in Int, l <= KeyLag PROVE l <= KeyLag + 1
    BY <1>0, <2>3
  <2> QED BY <1>2, <2>1, <2>2, <2>3 DEF Behind
<1>5. Filled'
  BY DEF KeyAnnounced, Filled, At, IdleWriter
<1>6. FifoInv'
  <2>1. CASE overrun
    BY <2>1 DEF KeyAnnounced, FifoInv, RingIsFifo
  <2>2. CASE ~overrun
    <3>1. /\ Len(typed) = KeyLag /\ KeyLag < Ring
          /\ hdr.keyq[hdr.wpos % Ring] = writer[Viewer].ev
          /\ typed \in Seq(Key) /\ writer[Viewer].ev \in Key
      BY <1>0, <2>2 DEF KeysInv, Filled, FifoInv, RingIsFifo, At, LoopInv, AmongKeys
    <3>2. typed' = Append(typed, writer[Viewer].ev)
      BY <2>2 DEF KeyAnnounced
    <3>3. Len(typed') = KeyLag'
      BY <1>2, <3>1, <3>2
    <3>4. ASSUME NEW n \in 1..Len(typed')
          PROVE  hdr'.keyq[(seen'.key + n - 1) % Ring] = typed'[n]
      <4>1. CASE n \in 1..Len(typed)
        <5>1. hdr.keyq[(seen.key + n - 1) % Ring] = typed[n]
          BY <2>2, <4>1 DEF KeysInv, FifoInv, RingIsFifo
        <5>2. typed'[n] = typed[n]
          BY <3>1, <3>2, <4>1
        <5> QED BY <5>1, <5>2 DEF KeyAnnounced
      <4>2. CASE n \notin 1..Len(typed)
        <5>1. n = KeyLag + 1 /\ typed'[n] = writer[Viewer].ev
          BY <1>0, <3>1, <3>2, <4>2
        <5>2. seen.key + n - 1 = seen.key + KeyLag
          BY <1>0, <5>1, LagFacts DEF KeyPos
        <5>3. hdr.wpos % Ring = (seen.key + KeyLag) % Ring
          BY LagFacts, SlotOfPosition DEF KeyLag, InputInv
        <5> QED BY <3>1, <5>1, <5>2, <5>3 DEF KeyAnnounced
      <4> QED BY <4>1, <4>2
    <3>5. ~overrun' /\ KeyLag' <= Ring
      BY <1>0, <1>2, <2>2, <3>1, LagFacts DEF KeyAnnounced
    <3> QED BY <3>3, <3>4, <3>5 DEF FifoInv, RingIsFifo
  <2> QED BY <2>1, <2>2
<1> QED BY <1>3, <1>4, <1>5, <1>6 DEF KeysInv

\* The browser drops the keys it has not taken.
LEMMA SyncKeysKept ==
  ASSUME InputInv, LoopInv, KeysInv, SyncKeys
  PROVE  KeysInv'
<1>0. hdr' = hdr /\ writer' = writer /\ lead' = lead /\ seen'.key = hdr.wpos
  BY SeenKept DEF SyncKeys
<1>1. KeyLag' = 0
  <2>1. hdr.wpos \in 0..(KeyWrap - 1) /\ KeyWrap \in Nat
    BY LagFacts DEF KeyPos
  <2>2. (hdr.wpos - hdr.wpos) % KeyWrap = 0
    BY <2>1, Ahead
  <2> QED BY <1>0, <2>2 DEF KeyLag
<1>2. ASSUME NEW q \in Writer PROVE AmongKeys(q)'
  <2>1. AmongKeys(q) /\ KeyLag \in Nat /\ lead.keys \in Int
    BY LagFacts DEF KeysInv
  <2> QED BY <1>0, <1>1, <2>1 DEF AmongKeys
<1>3. Behind'
  BY DEF SyncKeys, Behind
<1>4. Filled'
  BY <1>0, <1>1, LagFacts DEF KeysInv, Filled, At
<1>5. FifoInv'
  <2>1. typed' = <<>> /\ ~overrun'
    BY DEF SyncKeys
  <2>2. 0 <= Ring
    BY LagFacts
  <2> QED BY <1>1, <2>1, <2>2 DEF FifoInv, RingIsFifo
<1> QED BY <1>2, <1>3, <1>4, <1>5 DEF KeysInv

\* The browser takes a key: the first of the queue, if none was overwritten.
LEMMA TakeKeyKept ==
  ASSUME InputInv, LoopInv, KeysInv, TakeKey
  PROVE  KeysInv'
<1>0. /\ hdr' = hdr /\ writer' = writer /\ lead' = lead /\ kpos' = kpos /\ pc' = pc
      /\ seen'.key = NextPos(seen.key) /\ pc = "key" /\ seen.key # kpos
      /\ typed' = IF typed = <<>> THEN <<>> ELSE Tail(typed)
      /\ overrun' = (overrun /\ seen'.key # hdr.wpos)
  BY SeenKept DEF TakeKey
<1>1. /\ hdr.wpos \in 0..(KeyWrap - 1) /\ seen.key \in 0..(KeyWrap - 1)
      /\ kpos \in 0..(KeyWrap - 1) /\ KeyWrap \in Nat
  BY LagFacts DEF KeyPos, LoopInv
<1>2. (kpos - seen.key) % KeyWrap <= KeyLag /\ (kpos - seen.key) % KeyWrap # 0
      /\ (kpos - seen.key) % KeyWrap \in 0..(KeyWrap - 1)
  <2>1. (kpos - seen.key) % KeyWrap <= KeyLag
    BY <1>0 DEF KeysInv, Behind
  <2>2. ((kpos - seen.key) % KeyWrap = 0 <=> kpos = seen.key)
        /\ (kpos - seen.key) % KeyWrap \in 0..(KeyWrap - 1)
    BY <1>1, Ahead
  <2> QED BY <1>0, <2>1, <2>2
<1>3. KeyLag \in Nat \ {0} /\ hdr.wpos # seen.key
  BY <1>1, <1>2, LagFacts
<1>4. KeyLag' = KeyLag - 1
  <2>1. (hdr.wpos - ((seen.key + 1) % KeyWrap)) % KeyWrap
          = ((hdr.wpos - seen.key) % KeyWrap) - 1
    BY <1>1, <1>3, AheadByOneLess
  <2> QED BY <1>0, <2>1 DEF NextPos, KeyLag
<1>5. (kpos' - seen'.key) % KeyWrap = ((kpos - seen.key) % KeyWrap) - 1
  <2>1. (kpos - ((seen.key + 1) % KeyWrap)) % KeyWrap
          = ((kpos - seen.key) % KeyWrap) - 1
    BY <1>0, <1>1, AheadByOneLess
  <2> QED BY <1>0, <2>1 DEF NextPos
<1>6. ASSUME NEW q \in Writer PROVE AmongKeys(q)'
  <2>1. AmongKeys(q) /\ lead.keys \in Int
    BY LagFacts DEF KeysInv
  <2> QED BY <1>0, <1>3, <1>4, <2>1 DEF AmongKeys
<1>7. Behind'
  <2>1. ASSUME NEW l \in Int, l <= KeyLag PROVE l - 1 <= KeyLag - 1
    BY <1>3, <2>1
  <2> QED BY <1>2, <1>4, <1>5, <2>1 DEF Behind
<1>8. seen'.key = hdr.wpos <=> KeyLag' = 0
  <2>1. NextPos(seen.key) \in 0..(KeyWrap - 1)
    BY LagFacts, NextPosTyped DEF KeyPos, InputInv
  <2>2. (hdr.wpos - NextPos(seen.key)) % KeyWrap = 0 <=> hdr.wpos = NextPos(seen.key)
    BY <1>1, <2>1, Ahead
  <2> QED BY <1>0, <2>2 DEF KeyLag
<1>9. overrun' <=> overrun /\ KeyLag' # 0
  BY <1>0, <1>8
<1>10. Filled'
  <2>1. At(Viewer, "wpos")' => At(Viewer, "wpos")
    BY <1>0 DEF At
  <2>2. At(Viewer, "wpos") /\ ~overrun' => KeyLag' < Ring
    BY <1>3, <1>4, <1>9, LagFacts DEF KeysInv, Filled
  <2> QED BY <1>0, <2>1, <2>2 DEF KeysInv, Filled
<1>11. FifoInv'
  <2>1. CASE overrun
    <3>1. typed = <<>> /\ typed' = <<>>
      BY <1>0, <2>1 DEF KeysInv, FifoInv
    <3>2. KeyLag' \in Nat /\ (~overrun' => KeyLag' = 0) /\ Ring \in Nat
      BY <1>3, <1>4, <1>9, <2>1, LagFacts
    <3> QED BY <3>1, <3>2 DEF FifoInv, RingIsFifo
  <2>2. CASE ~overrun
    <3>1. Len(typed) = KeyLag /\ KeyLag <= Ring /\ typed \in Seq(Key)
      BY <2>2 DEF KeysInv, FifoInv, RingIsFifo, LoopInv
    <3>2. typed # <<>> /\ typed' = Tail(typed) /\ Len(typed') = KeyLag - 1
      BY <1>0, <1>3, <3>1
    <3>3. ASSUME NEW n \in 1..Len(typed')
          PROVE  hdr'.keyq[(seen'.key + n - 1) % Ring] = typed'[n]
      <4>1. n \in Nat \ {0} /\ n + 1 \in 1..Len(typed) /\ typed'[n] = typed[n + 1]
        BY <1>3, <3>1, <3>2
      <4>2. hdr.keyq[(seen.key + (n + 1) - 1) % Ring] = typed[n + 1]
        BY <2>2, <4>1 DEF KeysInv, FifoInv, RingIsFifo
      <4>3. (NextPos(seen.key) + n - 1) % Ring = (seen.key + (n + 1) - 1) % Ring
        BY <4>1, LagFacts, SlotOfNext DEF InputInv
      <4> QED BY <1>0, <4>1, <4>2, <4>3
    <3>4. ~overrun' /\ Len(typed') = KeyLag' /\ KeyLag' <= Ring
      BY <1>3, <1>4, <1>9, <2>2, <3>1, <3>2, LagFacts
    <3> QED BY <3>3, <3>4 DEF FifoInv, RingIsFifo
  <2> QED BY <2>1, <2>2
<1> QED BY <1>6, <1>7, <1>10, <1>11 DEF KeysInv

-----------------------------------------------------------------------------
LEMMA StoredTyped ==
  ASSUME hdr \in Header, NEW h, NEW f, NEW v, Stored(h, f, v)
  PROVE  h \in Header
  BY DEF Stored

\* A writer that stores a field of the header, or nothing, and goes to a state in
\* which it holds a counter if it is between the load and the store.
LEMMA WriteTyped ==
  ASSUME InputInv, NEW p \in Writer, Starts(p) \/ Continues(p) \/ Completes(p)
  PROVE  /\ hdr' \in Header /\ writer' \in [Writer -> Event]
         /\ \A q \in Writer : AmongCounters(q)'
<1>0. hdr \in Header /\ hdr.mouse \in Counter /\ hdr.wheel \in Counter
      /\ \A q \in Writer : AmongCounters(q)
  BY DEF InputInv, Header
<1>1. ASSUME NEW e, Moved(p, e), e.at \in {"mouse+1", "wheel+1"} => e.reg \in Counter
      PROVE  writer' \in [Writer -> Event] /\ \A q \in Writer : AmongCounters(q)'
  <2>1. OthersStay(p) /\ writer'[p] = e
    BY <1>1, MovedOthers
  <2>2. ASSUME NEW q \in Writer PROVE AmongCounters(q)'
    BY <1>0, <1>1, <2>1 DEF OthersStay, AmongCounters
  <2> QED BY <1>1, <2>2 DEF Moved
<1>2. ASSUME NEW k \in Key, KeyBegins(p, k)
      PROVE  hdr' = hdr /\ \E e : Moved(p, e) /\ e.at \notin {"mouse+1", "wheel+1"}
  <2>1. hdr' = hdr /\ Moved(p, [at |-> "slot", ev |-> k, x |-> 0, y |-> 0, down |-> FALSE,
                                reg |-> hdr.wpos])
    BY <1>2, WriterSteps
  <2> QED BY <2>1
<1>3. ASSUME NEW ex \in X, NEW ey \in Y, NEW d \in BOOLEAN, ButtonBegins(p, ex, ey, d)
      PROVE  hdr' = hdr /\ \E e : Moved(p, e) /\ e.at \notin {"mouse+1", "wheel+1"}
  <2>1. hdr' = hdr /\ Moved(p, [at |-> "x", ev |-> NoKey, x |-> ex, y |-> ey,
                                down |-> d, reg |-> 0])
    BY <1>3, WriterSteps
  <2> QED BY <2>1
<1>4. ASSUME NEW d \in {-1, 1}, WheelBegins(p, d)
      PROVE  hdr' \in Header /\ \E e : Moved(p, e) /\ e.at \notin {"mouse+1", "wheel+1"}
  <2>1. \E v : Stored(hdr', "dy", v)
    BY <1>4, WriterSteps
  <2>2. Moved(p, Having(p, "wheel", writer[p].reg))
    BY <1>4, WriterSteps
  <2> QED BY <1>0, <2>1, <2>2, StoredTyped DEF Having
<1>5. CASE Starts(p)
  BY <1>0, <1>1, <1>2, <1>3, <1>4, <1>5 DEF Starts
<1>6. CASE KeyStored(p) \/ ButtonX(p) \/ ButtonY(p) \/ ButtonState(p)
  <2>1. \E f, v : Stored(hdr', f, v)
    BY <1>6, WriterSteps
  <2>2. \E place \in {"wpos", "y", "state", "mouse"} : \E r : Moved(p, Having(p, place, r))
    BY <1>6, WriterSteps
  <2>3. \E e : Moved(p, e) /\ e.at \notin {"mouse+1", "wheel+1"}
    BY <2>2 DEF Having
  <2> QED BY <1>0, <1>1, <2>1, <2>3, StoredTyped
<1>7. CASE ButtonCounterRead(p) \/ WheelCounterRead(p)
  <2>1. hdr' = hdr /\ \E place \in {"mouse+1", "wheel+1"}, r \in Counter :
                         Moved(p, Having(p, place, r))
    BY <1>0, <1>7, WriterSteps
  <2>2. \E e : Moved(p, e) /\ e.reg \in Counter
    BY <2>1 DEF Having
  <2> QED BY <1>0, <1>1, <2>1, <2>2
<1>8. CASE Completes(p)
  <2>1. (\E f, v : Stored(hdr', f, v)) /\ Moved(p, IdleWriter)
    BY <1>8, WriterSteps DEF Completes
  <2> QED BY <1>0, <1>1, <2>1, StoredTyped DEF IdleWriter
<1> QED BY <1>5, <1>6, <1>7, <1>8 DEF Continues

LEMMA InputKept ==
  ASSUME InputInv, LoopInv, KeysInv, [Next]_vars
  PROVE  InputInv' /\ KeysInv'
<1>1. CASE UNCHANGED vars
  <2>1. UNCHANGED <<hdr, writer, lead, seen, pc, kpos, typed, overrun>>
    BY <1>1 DEF vars, inputVars, loopVars, history
  <2>2. InputInv'
    BY <2>1 DEF InputInv, AmongKeys, AmongCounters, KeyLag
  <2>3. KeysStill
    BY <2>1 DEF KeysStill
  <2> QED BY <2>1, <2>2, <2>3, KeysStillKept
<1>2. ASSUME NEW p \in Writer, Writes(p) PROVE InputInv' /\ KeysInv'
  <2>1. UNCHANGED <<lead, seen, pc, kpos>>
    BY <1>2 DEF Writes, loopVars
  <2>2. FifoInv
    BY DEF KeysInv
  <2>3. KeysInv'
    BY <1>2, <2>1, <2>2, WriteOfKeys, KeysStillKept, KeyStartsKept, SlotFilledKept,
       KeyAnnouncedKept
  <2>4. Starts(p) \/ Continues(p) \/ Completes(p)
    BY <1>2 DEF Writes, Completes
  <2> QED BY <2>1, <2>3, <2>4, WriteTyped DEF InputInv, KeysInv
<1>3. CASE Browser
  <2>1. hdr' = hdr /\ writer' = writer /\ lead' = lead
    BY <1>3, LoopReads
  <2>2. seen' \in Counters /\ (SyncKeys \/ TakeKey \/ ReadsNoKey)
    BY <1>3, BrowserOfKeys
  <2>3. ASSUME ReadsNoKey PROVE KeysInv'
    <3>1. KeysStill
      BY <2>1, <2>3 DEF ReadsNoKey, KeysStill
    <3> QED BY <2>1, <2>3, <3>1, KeysStillKept DEF ReadsNoKey
  <2>4. KeysInv'
    BY <2>2, <2>3, SyncKeysKept, TakeKeyKept
  <2> QED BY <2>1, <2>2, <2>4 DEF InputInv, KeysInv, AmongCounters
<1> QED BY <1>1, <1>2, <1>3 DEF Next

RingInv == InputInv /\ PageInv /\ LoopInv /\ KeysInv

LEMMA RingStarts == Init => RingInv
<1> SUFFICES ASSUME Init PROVE RingInv
  OBVIOUS
<1>1. lead \in Leads /\ IdleWriter \in Event
  BY IdleTyped DEF Init, InitInput
<1>2. /\ hdr = ZeroHeader /\ writer = [p \in Writer |-> IdleWriter]
      /\ seen = [key |-> 0, mouse |-> 0, wheel |-> 0]
  BY DEF Init, InitInput
<1>3. hdr \in Header
  BY <1>1, <1>2, Bounds DEF ZeroHeader, Header
<1>4. InputInv
  BY <1>1, <1>2, <1>3, Bounds DEF InputInv, Counters, IdleWriter, AmongKeys, AmongCounters
<1>5. PageInv
  <2>1. 0 \in 0..MaxEdit /\ 0 \in 0..MaxScroll
    BY MainAssumption
  <2> QED BY <2>1 DEF Init, PageInv, NoEdit, Shows
<1>6. LoopInv
  <2>1. NoClick \in [x : X \cup {0}, y : Y \cup {0}]
        /\ NotDue \in [press : BOOLEAN, x : X \cup {0}, y : Y \cup {0}]
        /\ <<>> \in Seq(Key)
    BY DEF NoClick, NotDue
  <2> QED BY <1>1, <2>1, Bounds DEF Init, LoopInv
<1>7. KeysInv
  <2>1. \A p \in Writer : AmongKeys(p)
    BY <1>4 DEF InputInv
  <2>2. KeyLag = 0
    BY <1>2, <1>4, LagFacts DEF ZeroHeader
  <2>3. typed = <<>> /\ ~overrun /\ pc # "key" /\ ~At(Viewer, "wpos")
    BY <1>2, InputAssumption DEF Init, At, IdleWriter
  <2>4. 0 <= Ring
    BY <1>4, LagFacts
  <2> QED BY <2>1, <2>2, <2>3, <2>4 DEF KeysInv, Behind, Filled, FifoInv, RingIsFifo
<1> QED BY <1>4, <1>5, <1>6, <1>7 DEF RingInv

\* The inductive invariant of the keys holds always.
THEOREM RingInvariant == Spec => []RingInv
<1>1. RingInv /\ [Next]_vars => RingInv'
  BY PageKept, LoopKept, InputKept DEF RingInv
<1> QED BY <1>1, RingStarts, PTL DEF Spec

\* The header, the page and the editor are always of their types; in particular the
\* text of the editor never outgrows its buffer.
THEOREM Typed == Spec => []TypeOK
<1>1. RingInv => TypeOK
  <2> SUFFICES ASSUME RingInv PROVE TypeOK
    OBVIOUS
  <2>1. ASSUME NEW p \in Writer PROVE writer[p].reg \in KeyPos \cup Counter
    BY DEF RingInv, InputInv, Event
  <2> QED BY <2>1 DEF RingInv, InputInv, InputType, Header, Counters, PageInv, LoopInv,
                     TypeOK
<1> QED BY <1>1, RingInvariant, PTL

\* As long as no untaken key was overwritten, what the browser will take is what
\* the viewer has pushed, in that order, nothing twice and nothing left out, in a
\* ring of any size and across the wrap of the position.
THEOREM KeysInOrder == Spec => []RingIsFifo
<1>1. RingInv => RingIsFifo
  BY DEF RingInv, KeysInv, FifoInv
<1> QED BY <1>1, RingInvariant, PTL

-----------------------------------------------------------------------------
(***************************************************************************)
(* The last event of one writer.                                           *)
(***************************************************************************)
InButton == {"x", "y", "state", "mouse", "mouse+1"}
InWheel == {"wheel", "wheel+1"}

\* What the one writer has already stored of its event, and that the browser is
\* less than a wrap behind.
ButtonStored ==
    LET w == writer[Viewer]
    IN  /\ w.at \in {"y", "state", "mouse", "mouse+1"} => hdr.x = w.x
        /\ w.at \in {"state", "mouse", "mouse+1"} => hdr.y = w.y
        /\ w.at \in {"mouse", "mouse+1"} => (hdr.down <=> w.down)
        /\ w.at = "mouse+1" => w.reg = hdr.mouse
        /\ w.at = "wheel+1" => w.reg = hdr.wheel
        /\ w.at \in InButton => Lag(hdr.mouse, seen.mouse) < lead.mouse
        /\ w.at \in InWheel => Lag(hdr.wheel, seen.wheel) < lead.wheel

\* A press that nothing followed is in the header, and unseen or being acted upon.
PressInHeader ==
    due.press /\ writer[Viewer].at \notin InButton =>
        /\ hdr.down /\ hdr.x = due.x /\ hdr.y = due.y
        /\ \/ hdr.mouse # seen.mouse
           \/ pc \in {"state", "x"}
           \/ pc = "y" /\ click.x = due.x

TurnInHeader ==
    turn # 0 /\ writer[Viewer].at \notin InWheel =>
        /\ turn = hdr.dy
        /\ hdr.wheel # seen.wheel \/ pc = "delta"

LatestInv == ButtonStored /\ PressInHeader /\ TurnInHeader

\* Only some fields of the header, and none of the button or of the wheel, change.
ButtonFields == <<hdr.x, hdr.y, hdr.down, hdr.mouse>>
WheelFields == <<hdr.dy, hdr.wheel>>

LEMMA OtherFields ==
  ASSUME NEW h, NEW f, NEW v, Stored(h, f, v)
  PROVE  /\ h[f] = v
         /\ f # "x" => h.x = hdr.x
         /\ f # "y" => h.y = hdr.y
         /\ f # "down" => h.down = hdr.down
         /\ f # "mouse" => h.mouse = hdr.mouse
         /\ f # "dy" => h.dy = hdr.dy
         /\ f # "wheel" => h.wheel = hdr.wheel
  BY DEF Stored, Fields

\* A counter that the reader is less than a wrap behind is not, one further, what
\* the reader has seen.
LEMMA CounterTells ==
  ASSUME NEW W \in Nat, NEW c \in 0..(W - 1), NEW s \in 0..(W - 1), NEW b \in 0..(W - 1),
         (c - s) % W < b
  PROVE  (c + 1) % W # s
<1>1. (c - s) % W \in 0..(W - 1)
  BY Ahead
<1>2. (c - s) % W < W - 1
  BY <1>1
<1>3. (((c + 1) % W) - s) % W = ((c - s) % W) + 1
  BY <1>2, AheadByOneMore
<1>4. (c + 1) % W \in 0..(W - 1)
  BY Following
<1>5. (((c + 1) % W) - s) % W = 0 <=> (c + 1) % W = s
  BY <1>4, Ahead
<1> QED BY <1>1, <1>3, <1>5

LEMMA PushTells ==
  ASSUME InputInv
  PROVE  /\ Lag(hdr.mouse, seen.mouse) < lead.mouse => Inc(hdr.mouse) # seen.mouse
         /\ Lag(hdr.wheel, seen.wheel) < lead.wheel => Inc(hdr.wheel) # seen.wheel
<1>1. /\ WrapAt \in Nat /\ lead.mouse \in 0..(WrapAt - 1) /\ lead.wheel \in 0..(WrapAt - 1)
      /\ hdr.mouse \in 0..(WrapAt - 1) /\ hdr.wheel \in 0..(WrapAt - 1)
      /\ seen.mouse \in 0..(WrapAt - 1) /\ seen.wheel \in 0..(WrapAt - 1)
  BY Bounds DEF InputInv, Header, Counters, Counter
<1>2. Lag(hdr.mouse, seen.mouse) < lead.mouse => Inc(hdr.mouse) # seen.mouse
  BY <1>1, CounterTells DEF Lag, Inc
<1>3. Lag(hdr.wheel, seen.wheel) < lead.wheel => Inc(hdr.wheel) # seen.wheel
  BY <1>1, CounterTells DEF Lag, Inc
<1> QED BY <1>2, <1>3

-----------------------------------------------------------------------------
\* A step of the writer, with what it leaves.
LEMMA KeyWriteKept ==
  ASSUME InputInv, LatestInv, NEW e, Moved(Viewer, e), Viewer \in Writer,
         e.at \notin InButton \cup InWheel, writer[Viewer].at \notin InButton \cup InWheel,
         UNCHANGED <<hdr.x, hdr.y, hdr.down, hdr.mouse, hdr.dy, hdr.wheel>>,
         UNCHANGED <<seen, pc, click, due, turn>>
  PROVE  LatestInv'
<1>1. writer'[Viewer] = e
  BY MovedOthers
<1>2. ButtonStored'
  BY <1>1 DEF ButtonStored, InButton, InWheel
<1>3. PressInHeader'
  BY <1>1 DEF LatestInv, PressInHeader
<1>4. TurnInHeader'
  BY <1>1 DEF LatestInv, TurnInHeader
<1> QED BY <1>2, <1>3, <1>4 DEF LatestInv

\* The writer is in the middle of a button event: it owes what it has stored.
LEMMA ButtonWriteKept ==
  ASSUME InputInv, LatestInv, Viewer \in Writer,
         UNCHANGED <<seen, lead, pc, click, due, turn>>,
         \/ \E ex \in X, ey \in Y, d \in BOOLEAN : ButtonBegins(Viewer, ex, ey, d)
         \/ ButtonX(Viewer) \/ ButtonY(Viewer) \/ ButtonState(Viewer)
         \/ ButtonCounterRead(Viewer)
  PROVE  LatestInv'
<1> DEFINE w == writer[Viewer]
           Next1 == writer'[Viewer]
<1>0. writer[Viewer].at \notin InWheel
  BY DEF ButtonBegins, ButtonX, ButtonY, ButtonState, ButtonCounterRead, At, InWheel
<1>1. ASSUME writer'[Viewer].at \in InButton, hdr'.dy = hdr.dy, hdr'.wheel = hdr.wheel,
             ButtonStored'
      PROVE  LatestInv'
  <2>1. PressInHeader'
    BY <1>1 DEF PressInHeader
  <2>2. TurnInHeader'
    BY <1>0, <1>1 DEF LatestInv, TurnInHeader
  <2> QED BY <1>1, <2>1, <2>2 DEF LatestInv
<1>2. ASSUME NEW ex \in X, NEW ey \in Y, NEW d \in BOOLEAN, ButtonBegins(Viewer, ex, ey, d)
      PROVE  LatestInv'
  <2>1. hdr' = hdr /\ Lag(hdr.mouse, seen.mouse) < lead.mouse
        /\ Moved(Viewer, [at |-> "x", ev |-> NoKey, x |-> ex, y |-> ey, down |-> d,
                          reg |-> 0])
    BY <1>2, WriterSteps
  <2>2. writer'[Viewer].at = "x"
    BY <2>1, MovedOthers
  <2>3. ButtonStored'
    BY <2>1, <2>2 DEF ButtonStored, InWheel
  <2> QED BY <1>1, <2>1, <2>2, <2>3 DEF InButton
<1>3. CASE ButtonX(Viewer)
  <2>1. Stored(hdr', "x", w.x) /\ Moved(Viewer, Having(Viewer, "y", w.reg)) /\ w.at = "x"
    BY <1>3, WriterSteps DEF ButtonX, At
  <2>2. Next1.at = "y" /\ Next1.x = w.x
    BY <2>1, MovedOthers DEF Having
  <2>3. hdr'.x = w.x /\ hdr'.mouse = hdr.mouse /\ hdr'.dy = hdr.dy /\ hdr'.wheel = hdr.wheel
    BY <2>1, OtherFields
  <2>4. ButtonStored'
    BY <2>1, <2>2, <2>3 DEF LatestInv, ButtonStored, InButton, InWheel
  <2> QED BY <1>1, <2>2, <2>3, <2>4 DEF InButton
<1>4. CASE ButtonY(Viewer)
  <2>1. Stored(hdr', "y", w.y) /\ Moved(Viewer, Having(Viewer, "state", w.reg))
        /\ w.at = "y"
    BY <1>4, WriterSteps DEF ButtonY, At
  <2>2. Next1.at = "state" /\ Next1.x = w.x /\ Next1.y = w.y
    BY <2>1, MovedOthers DEF Having
  <2>3. hdr'.y = w.y /\ hdr'.x = hdr.x /\ hdr'.mouse = hdr.mouse /\ hdr'.dy = hdr.dy
        /\ hdr'.wheel = hdr.wheel
    BY <2>1, OtherFields
  <2>4. ButtonStored'
    BY <2>1, <2>2, <2>3 DEF LatestInv, ButtonStored, InButton, InWheel
  <2> QED BY <1>1, <2>2, <2>3, <2>4 DEF InButton
<1>5. CASE ButtonState(Viewer)
  <2>1. Moved(Viewer, Having(Viewer, "mouse", w.reg)) /\ w.at = "state"
    BY <1>5, WriterSteps DEF ButtonState, At
  <2>2. Next1.at = "mouse" /\ Next1.x = w.x /\ Next1.y = w.y /\ (Next1.down <=> w.down)
    BY <2>1, MovedOthers DEF Having
  <2>3. \E v : Stored(hdr', "down", v) /\ v = w.down
    BY <1>5, WriterSteps
  <2>4. hdr'.down = w.down /\ hdr'.x = hdr.x /\ hdr'.y = hdr.y /\ hdr'.mouse = hdr.mouse
        /\ hdr'.dy = hdr.dy /\ hdr'.wheel = hdr.wheel
    BY <2>3, OtherFields
  <2>5. ButtonStored'
    BY <2>1, <2>2, <2>4 DEF LatestInv, ButtonStored, InButton, InWheel
  <2> QED BY <1>1, <2>2, <2>4, <2>5 DEF InButton
<1>6. CASE ButtonCounterRead(Viewer)
  <2>1. hdr' = hdr /\ Moved(Viewer, Having(Viewer, "mouse+1", hdr.mouse)) /\ w.at = "mouse"
    BY <1>6, WriterSteps DEF ButtonCounterRead, At
  <2>2. Next1.at = "mouse+1" /\ Next1.x = w.x /\ Next1.y = w.y /\ (Next1.down <=> w.down)
        /\ Next1.reg = hdr.mouse
    BY <2>1, MovedOthers DEF Having
  <2>3. ButtonStored'
    BY <2>1, <2>2 DEF LatestInv, ButtonStored, InButton, InWheel
  <2> QED BY <1>1, <2>1, <2>2, <2>3 DEF InButton
<1> QED BY <1>2, <1>3, <1>4, <1>5, <1>6

\* The button event is complete: if it is a press, it is in the header, unseen.
LEMMA ButtonPushedKept ==
  ASSUME InputInv, LatestInv, Viewer \in Writer, ButtonPushed(Viewer),
         due' = IF writer[Viewer].down
                THEN [press |-> TRUE, x |-> writer[Viewer].x, y |-> writer[Viewer].y]
                ELSE NotDue,
         UNCHANGED <<seen, lead, pc, click, turn>>
  PROVE  LatestInv'
<1> DEFINE w == writer[Viewer]
<1>1. w.at = "mouse+1" /\ Stored(hdr', "mouse", Inc(w.reg)) /\ Moved(Viewer, IdleWriter)
  BY WriterSteps DEF ButtonPushed, At
<1>2. writer'[Viewer].at = "idle"
  BY <1>1, MovedOthers DEF IdleWriter
<1>3. /\ w.reg = hdr.mouse /\ hdr.x = w.x /\ hdr.y = w.y /\ (hdr.down <=> w.down)
      /\ Lag(hdr.mouse, seen.mouse) < lead.mouse
  BY <1>1 DEF LatestInv, ButtonStored, InButton
<1>4. /\ hdr'.mouse = Inc(hdr.mouse) /\ hdr'.x = hdr.x /\ hdr'.y = hdr.y
      /\ hdr'.down = hdr.down /\ hdr'.dy = hdr.dy /\ hdr'.wheel = hdr.wheel
  BY <1>1, <1>3, OtherFields
<1>5. hdr'.mouse # seen'.mouse
  BY <1>3, <1>4, PushTells
<1>6. PressInHeader'
  BY <1>3, <1>4, <1>5 DEF PressInHeader, NotDue
<1>7. ButtonStored'
  BY <1>2 DEF ButtonStored, InButton, InWheel
<1>8. TurnInHeader'
  BY <1>1, <1>4 DEF LatestInv, TurnInHeader, InWheel
<1> QED BY <1>6, <1>7, <1>8 DEF LatestInv

\* The writer is in the middle of a turn of the wheel.
LEMMA WheelWriteKept ==
  ASSUME InputInv, LatestInv, Viewer \in Writer,
         UNCHANGED <<seen, lead, pc, click, due, turn>>,
         (\E d \in {-1, 1} : WheelBegins(Viewer, d)) \/ WheelCounterRead(Viewer)
  PROVE  LatestInv'
<1> DEFINE w == writer[Viewer]
           Next1 == writer'[Viewer]
<1>0. w.at \notin InButton
  BY DEF WheelBegins, WheelCounterRead, At, InButton
<1>1. ASSUME Next1.at \in InWheel, ButtonStored',
             UNCHANGED <<hdr.x, hdr.y, hdr.down, hdr.mouse>>
      PROVE  LatestInv'
  <2>1. PressInHeader'
    BY <1>0, <1>1 DEF LatestInv, PressInHeader
  <2>2. TurnInHeader'
    BY <1>1 DEF TurnInHeader
  <2> QED BY <1>1, <2>1, <2>2 DEF LatestInv
<1>2. ASSUME NEW d \in {-1, 1}, WheelBegins(Viewer, d) PROVE LatestInv'
  <2>1. Stored(hdr', "dy", d) /\ Lag(hdr.wheel, seen.wheel) < lead.wheel
        /\ Moved(Viewer, Having(Viewer, "wheel", w.reg))
    BY <1>2, WriterSteps
  <2>2. Next1.at = "wheel"
    BY <2>1, MovedOthers DEF Having
  <2>3. UNCHANGED <<hdr.x, hdr.y, hdr.down, hdr.mouse, hdr.wheel>>
    BY <2>1, OtherFields
  <2>4. ButtonStored'
    BY <2>1, <2>2, <2>3 DEF ButtonStored, InButton
  <2> QED BY <1>1, <2>2, <2>3, <2>4 DEF InWheel
<1>3. CASE WheelCounterRead(Viewer)
  <2>1. hdr' = hdr /\ Moved(Viewer, Having(Viewer, "wheel+1", hdr.wheel)) /\ w.at = "wheel"
    BY <1>3, WriterSteps DEF WheelCounterRead, At
  <2>2. Next1.at = "wheel+1" /\ Next1.reg = hdr.wheel
    BY <2>1, MovedOthers DEF Having
  <2>3. ButtonStored'
    BY <2>1, <2>2 DEF LatestInv, ButtonStored, InButton, InWheel
  <2> QED BY <1>1, <2>1, <2>2, <2>3 DEF InWheel
<1> QED BY <1>2, <1>3

\* The turn is complete: it is in the header, unseen.
LEMMA WheelPushedKept ==
  ASSUME InputInv, LatestInv, Viewer \in Writer, WheelPushed(Viewer), turn' = hdr.dy,
         UNCHANGED <<seen, lead, pc, click, due>>
  PROVE  LatestInv'
<1> DEFINE w == writer[Viewer]
<1>1. w.at = "wheel+1" /\ Stored(hdr', "wheel", Inc(w.reg)) /\ Moved(Viewer, IdleWriter)
  BY WriterSteps DEF WheelPushed, At
<1>2. writer'[Viewer].at = "idle"
  BY <1>1, MovedOthers DEF IdleWriter
<1>3. w.reg = hdr.wheel /\ Lag(hdr.wheel, seen.wheel) < lead.wheel
  BY <1>1 DEF LatestInv, ButtonStored, InWheel
<1>4. /\ hdr'.wheel = Inc(hdr.wheel) /\ hdr'.dy = hdr.dy
      /\ UNCHANGED <<hdr.x, hdr.y, hdr.down, hdr.mouse>>
  BY <1>1, <1>3, OtherFields
<1>5. hdr'.wheel # seen'.wheel
  BY <1>3, <1>4, PushTells
<1>6. TurnInHeader'
  BY <1>4, <1>5 DEF TurnInHeader
<1>7. ButtonStored'
  BY <1>2 DEF ButtonStored, InButton, InWheel
<1>8. PressInHeader'
  BY <1>1, <1>4 DEF LatestInv, PressInHeader, InButton
<1> QED BY <1>6, <1>7, <1>8 DEF LatestInv

LEMMA LatestOfWrite ==
  ASSUME Writer = {Viewer}, InputInv, LatestInv, NEW p \in Writer, Writes(p)
  PROVE  LatestInv'
<1>0. p = Viewer /\ Viewer \in Writer /\ UNCHANGED <<seen, lead, pc, click>>
  BY DEF Writes, loopVars
<1>1. CASE Starts(p) /\ UNCHANGED history
  <2>0. UNCHANGED <<due, turn>>
    BY <1>1 DEF history
  <2>1. ASSUME NEW k \in Key, KeyBegins(Viewer, k) PROVE LatestInv'
    <3>1. hdr' = hdr /\ Moved(Viewer, [at |-> "slot", ev |-> k, x |-> 0, y |-> 0,
                                       down |-> FALSE, reg |-> hdr.wpos])
      BY <1>0, <2>1, WriterSteps
    <3>2. writer[Viewer].at = "idle"
      BY <2>1 DEF KeyBegins, At
    <3> QED BY <1>0, <2>0, <3>1, <3>2, KeyWriteKept DEF InButton, InWheel
  <2> QED BY <1>0, <1>1, <2>0, <2>1, ButtonWriteKept, WheelWriteKept DEF Starts
<1>2. CASE Continues(p) /\ UNCHANGED <<due, turn>>
  <2>1. ASSUME KeyStored(Viewer) PROVE LatestInv'
    <3>1. \E v : Stored(hdr', "keyq", v)
      BY <1>0, <2>1, WriterSteps
    <3>2. Moved(Viewer, Having(Viewer, "wpos", hdr.wpos)) /\ writer[Viewer].at = "slot"
      BY <1>0, <2>1, WriterSteps DEF KeyStored, At
    <3>3. UNCHANGED <<hdr.x, hdr.y, hdr.down, hdr.mouse, hdr.dy, hdr.wheel>>
      BY <3>1, OtherFields
    <3> QED BY <1>0, <1>2, <3>2, <3>3, KeyWriteKept DEF InButton, InWheel, Having
  <2> QED BY <1>0, <1>2, <2>1, ButtonWriteKept, WheelWriteKept DEF Continues
<1>3. CASE KeyPushed(p) /\ UNCHANGED <<due, turn>>
  <2>1. \E v : Stored(hdr', "wpos", v)
    BY <1>0, <1>3, WriterSteps
  <2>2. Moved(Viewer, IdleWriter) /\ writer[Viewer].at = "wpos"
    BY <1>0, <1>3, WriterSteps DEF KeyPushed, At
  <2>3. UNCHANGED <<hdr.x, hdr.y, hdr.down, hdr.mouse, hdr.dy, hdr.wheel>>
    BY <2>1, OtherFields
  <2> QED BY <1>0, <1>3, <2>2, <2>3, KeyWriteKept DEF InButton, InWheel, IdleWriter
<1> QED BY <1>0, <1>1, <1>2, <1>3, ButtonPushedKept, WheelPushedKept DEF Writes

\* The browser notes a counter as seen: it is then not behind at all.
LEMMA CaughtUp ==
  ASSUME InputInv
  PROVE  /\ Lag(hdr.mouse, hdr.mouse) = 0 /\ Lag(hdr.wheel, hdr.wheel) = 0
         /\ Lag(hdr.mouse, seen.mouse) \in Nat /\ Lag(hdr.wheel, seen.wheel) \in Nat
         /\ lead.mouse \in Nat /\ lead.wheel \in Nat
<1>1. /\ WrapAt \in Nat /\ lead.mouse \in 0..(WrapAt - 1) /\ lead.wheel \in 0..(WrapAt - 1)
      /\ hdr.mouse \in 0..(WrapAt - 1) /\ hdr.wheel \in 0..(WrapAt - 1)
      /\ seen.mouse \in 0..(WrapAt - 1) /\ seen.wheel \in 0..(WrapAt - 1)
  BY Bounds DEF InputInv, Header, Counters, Counter
<1>2. Lag(hdr.mouse, hdr.mouse) = 0 /\ Lag(hdr.wheel, hdr.wheel) = 0
  BY <1>1, Ahead DEF Lag
<1>3. Lag(hdr.mouse, seen.mouse) \in 0..(WrapAt - 1)
      /\ Lag(hdr.wheel, seen.wheel) \in 0..(WrapAt - 1)
  BY <1>1, Ahead DEF Lag
<1> QED BY <1>1, <1>2, <1>3

LEMMA SeenCounters ==
  ASSUME InputInv, Browser
  PROVE  /\ SyncMouse \/ ReadMouse => seen'.mouse = hdr.mouse /\ seen'.wheel = seen.wheel
         /\ ReadWheel => seen'.wheel = hdr.wheel /\ seen'.mouse = seen.mouse
         /\ ~SyncMouse /\ ~ReadMouse /\ ~ReadWheel =>
              seen'.mouse = seen.mouse /\ seen'.wheel = seen.wheel
<1>0. seen \in Counters
  BY DEF InputInv
<1>1. SyncMouse \/ ReadMouse => seen'.mouse = hdr.mouse /\ seen'.wheel = seen.wheel
  BY <1>0 DEF SyncMouse, ReadMouse, Counters
<1>2. ReadWheel => seen'.wheel = hdr.wheel /\ seen'.mouse = seen.mouse
  BY <1>0 DEF ReadWheel, Counters
<1>3. SyncKeys => seen'.mouse = seen.mouse /\ seen'.wheel = seen.wheel
  BY <1>0 DEF SyncKeys, Counters
<1>4. TakeKey => seen'.mouse = seen.mouse /\ seen'.wheel = seen.wheel
  BY <1>0 DEF TakeKey, Counters
<1>5. Start \/ ReadDelta \/ ReadKeys \/ KeysTaken \/ ReadState \/ ReadX \/ ReadYAndAct
        \/ PumpAndSleep => seen' = seen
  BY DEF Start, ReadDelta, ReadKeys, KeysTaken, ReadState, ReadX, ReadYAndAct, PumpAndSleep
<1> QED BY <1>1, <1>2, <1>3, <1>4, <1>5 DEF Browser

LEMMA LatestOfBrowser ==
  ASSUME InputInv, LoopInv, LatestInv, Browser
  PROVE  LatestInv'
<1>0. hdr' = hdr /\ writer' = writer /\ lead' = lead
  BY LoopReads
<1>1. ButtonStored'
  <2>1. seen'.mouse \in {seen.mouse, hdr.mouse} /\ seen'.wheel \in {seen.wheel, hdr.wheel}
    BY SeenCounters
  <2>2. Lag(hdr.mouse, seen.mouse) < lead.mouse => Lag(hdr.mouse, seen'.mouse) < lead.mouse
    BY <2>1, CaughtUp
  <2>3. Lag(hdr.wheel, seen.wheel) < lead.wheel => Lag(hdr.wheel, seen'.wheel) < lead.wheel
    BY <2>1, CaughtUp
  <2> QED BY <1>0, <2>2, <2>3 DEF LatestInv, ButtonStored
<1>2. PressInHeader'
  <2>1. CASE SyncMouse
    BY <2>1 DEF SyncMouse, NotDue, PressInHeader
  <2>2. CASE ReadMouse
    <3>1. pc = "mouse" /\ due' = due
          /\ pc' = IF hdr.mouse = seen.mouse THEN "pump" ELSE "state"
      BY <2>2 DEF ReadMouse, history
    <3> QED BY <1>0, <3>1 DEF LatestInv, PressInHeader
  <2>3. CASE ReadWheel \/ SyncKeys \/ Start \/ ReadDelta \/ ReadKeys \/ TakeKey \/ KeysTaken
             \/ PumpAndSleep
    <3>1. pc \notin {"state", "x", "y"} /\ due' = due
      BY <2>3 DEF ReadWheel, SyncKeys, Start, ReadDelta, ReadKeys, TakeKey, KeysTaken,
                  PumpAndSleep, history
    <3>2. seen'.mouse = seen.mouse
      BY <2>3, SeenCounters DEF ReadWheel, SyncKeys, Start, ReadDelta, ReadKeys, TakeKey,
                  KeysTaken, PumpAndSleep, SyncMouse, ReadMouse
    <3> QED BY <1>0, <3>1, <3>2 DEF LatestInv, PressInHeader
  <2>4. CASE ReadState
    <3>1. pc' = (IF hdr.down THEN "x" ELSE "pump") /\ due' = due /\ seen' = seen
      BY <2>4 DEF ReadState, history
    <3> QED BY <1>0, <3>1 DEF LatestInv, PressInHeader
  <2>5. CASE ReadX
    <3>1. pc' = "y" /\ due' = due /\ seen' = seen /\ click'.x = hdr.x
      BY <2>5 DEF ReadX, history, LoopInv
    <3> QED BY <1>0, <3>1 DEF LatestInv, PressInHeader
  <2>6. CASE ReadYAndAct
    <3>1. due' = (IF due.x = click.x /\ due.y = hdr.y THEN NotDue ELSE due) /\ seen' = seen
          /\ pc = "y"
      BY <2>6 DEF ReadYAndAct
    <3>2. ~NotDue.press
      BY DEF NotDue
    <3> QED BY <1>0, <3>1, <3>2 DEF LatestInv, PressInHeader
  <2> QED BY <2>1, <2>2, <2>3, <2>4, <2>5, <2>6 DEF Browser
<1>3. TurnInHeader'
  <2>1. CASE ReadWheel
    <3>1. pc = "wheel" /\ turn' = turn
          /\ pc' = IF hdr.wheel = seen.wheel THEN "keys" ELSE "delta"
      BY <2>1 DEF ReadWheel, history
    <3> QED BY <1>0, <3>1 DEF LatestInv, TurnInHeader
  <2>2. CASE ReadDelta
    <3>1. turn' = (IF turn = hdr.dy THEN 0 ELSE turn) /\ seen' = seen
      BY <2>2 DEF ReadDelta
    <3> QED BY <1>0, <3>1 DEF LatestInv, TurnInHeader
  <2>3. CASE ~ReadWheel /\ ~ReadDelta
    <3>1. pc # "delta" /\ turn' = turn
      BY <2>3 DEF Browser, Start, SyncMouse, SyncKeys, ReadKeys, TakeKey,
         KeysTaken, ReadMouse, ReadState, ReadX, ReadYAndAct, PumpAndSleep, history
    <3>2. seen'.wheel = seen.wheel
      BY <2>3, SeenCounters
    <3> QED BY <1>0, <3>1, <3>2 DEF LatestInv, TurnInHeader
  <2> QED BY <2>1, <2>2, <2>3
<1> QED BY <1>1, <1>2, <1>3 DEF LatestInv

\* With one writer, whatever its user does and the program is doing, the browser
\* does not go to sleep on its last press, or on its last turn of the wheel: it has
\* acted on it, with its own coordinates.  (With two writers it may: they overwrite
\* each other's event and counter.)
THEOREM LastEventActed ==
  ASSUME Writer = {Viewer}
  PROVE  Spec => []LatestEventActed
<1>1. Init => LatestInv
  <2>1. Init => writer[Viewer].at = "idle"
    BY InputAssumption DEF Init, InitInput, IdleWriter
  <2>2. Init => ~due.press /\ turn = 0
    BY DEF Init, NotDue
  <2> QED BY <2>1, <2>2 DEF LatestInv, ButtonStored, PressInHeader, TurnInHeader, InButton,
                            InWheel
<1>2. RingInv /\ LatestInv /\ [Next]_vars => LatestInv'
  <2> SUFFICES ASSUME RingInv, LatestInv, [Next]_vars PROVE LatestInv'
    OBVIOUS
  <2>0. InputInv /\ LoopInv
    BY DEF RingInv
  <2>1. CASE UNCHANGED vars
    BY <2>1 DEF vars, inputVars, loopVars, history, LatestInv, ButtonStored,
                PressInHeader, TurnInHeader, Lag
  <2> QED BY <2>0, <2>1, LatestOfWrite, LatestOfBrowser DEF Next
<1>3. LatestInv => LatestEventActed
  <2> SUFFICES ASSUME LatestInv PROVE LatestEventActed
    OBVIOUS
  <2>1. ~Busy({"x", "y", "state", "mouse", "mouse+1"}) => writer[Viewer].at \notin InButton
    BY DEF Busy, InButton
  <2>2. ~Busy({"wheel", "wheel+1"}) => writer[Viewer].at \notin InWheel
    BY DEF Busy, InWheel
  <2> QED BY <2>1, <2>2 DEF LatestInv, PressInHeader, TurnInHeader, LatestEventActed
<1> QED BY <1>1, <1>2, <1>3, RingInvariant, PTL DEF Spec
=============================================================================
