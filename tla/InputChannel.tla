---------------------------- MODULE InputChannel ----------------------------
(***************************************************************************)
(* The input half of the shared header of core/cfb.h, and the programs     *)
(* that write it: the SDL viewer and inputd.  The browser reads it in the  *)
(* module MainLoop.                                                        *)
(*                                                                         *)
(* The header is plain shared memory.  A writer stores field after field   *)
(* and then bumps a counter, which takes a load and a store; each of them  *)
(* is a step, seen by the reader in program order (x86), but for two pairs *)
(* of stores that are one step: kind and character of a key, button and    *)
(* state of the mouse.  Keys go through a ring of slots, mouse and wheel   *)
(* events through a single slot each.  down is a press of the left button: *)
(* any other button event is alike to the browser.  Fields nobody reads    *)
(* (input_counter, mouse_x, mouse_y, mouse_buttons) are left out.  The     *)
(* counters wrap at 2^32 or 2^64 in the program; lead keeps the reader     *)
(* less than a wrap behind here, as it always is there.                    *)
(***************************************************************************)
EXTENDS Integers, Sequences

CONSTANTS Writer,   \* processes that write the header
          Viewer,   \* the one that pushes keys
          Key,      \* what a key event can be: kind and character
          NoKey,    \* a slot of the zeroed ring
          X, Y,     \* coordinates of a click
          Ring,     \* CFB_KEYQ_SIZE, 32 in the program
          KeyWrap,  \* where the position in the ring wraps
          WrapAt,   \* where the mouse and wheel counters wrap
          Leads     \* users: how many events of each kind they may be ahead

ASSUME InputAssumption ==
    /\ Viewer \in Writer /\ NoKey \notin Key
    /\ Ring \in Nat \ {0}
    /\ KeyWrap \in Nat /\ KeyWrap % Ring = 0 /\ WrapAt \in Nat
    /\ Leads \subseteq [keys : 0..(KeyWrap - 1), mouse : 0..(WrapAt - 1),
                        wheel : 0..(WrapAt - 1)]

VARIABLES hdr,     \* struct cfb_header, the fields the browser reads
          writer,  \* where each writer is, and what it holds in registers
          lead,    \* the bound on what this user does
          seen     \* the counters the browser has caught up with

inputVars == <<hdr, writer, lead, seen>>

Slot == 0..(Ring - 1)
KeyPos == 0..(KeyWrap - 1)
Counter == 0..(WrapAt - 1)

NextPos(w) == (w + 1) % KeyWrap
KeyLag == (hdr.wpos - seen.key) % KeyWrap
Inc(c) == (c + 1) % WrapAt
Lag(c, last) == (c - last) % WrapAt

\* shm_fb_open of the browser zeroes the header.
ZeroHeader ==
    [wpos |-> 0, keyq |-> [s \in Slot |-> NoKey],
     x |-> 0, y |-> 0, down |-> FALSE, mouse |-> 0,
     dy |-> 0, wheel |-> 0]

IdleWriter == [at |-> "idle", ev |-> NoKey, x |-> 0, y |-> 0, down |-> FALSE, reg |-> 0]

InitInput ==
    /\ hdr = ZeroHeader
    /\ writer = [p \in Writer |-> IdleWriter]
    /\ lead \in Leads
    /\ seen = [key |-> 0, mouse |-> 0, wheel |-> 0]

At(p, place) == writer[p].at = place
Goes(p, place) == writer' = [writer EXCEPT ![p].at = place]
Done(p) == writer' = [writer EXCEPT ![p] = IdleWriter]

-----------------------------------------------------------------------------
(***************************************************************************)
(* A key: read the write position, fill the slot, advance the position.    *)
(* Nothing looks at how far the browser is.                                *)
(***************************************************************************)
KeyBegins(p, k) ==
    /\ p = Viewer /\ At(p, "idle")
    /\ KeyLag < lead.keys
    /\ writer' = [writer EXCEPT ![p] =
                    [IdleWriter EXCEPT !.at = "slot", !.ev = k, !.reg = hdr.wpos]]
    /\ UNCHANGED hdr

KeyStored(p) ==
    /\ At(p, "slot")
    /\ hdr' = [hdr EXCEPT !.keyq[writer[p].reg % Ring] = writer[p].ev]
    /\ Goes(p, "wpos")

KeyPushed(p) ==
    /\ At(p, "wpos")
    /\ hdr' = [hdr EXCEPT !.wpos = NextPos(writer[p].reg)]
    /\ Done(p)

-----------------------------------------------------------------------------
(***************************************************************************)
(* A mouse button: coordinates, state, and mouse_event_counter++.          *)
(***************************************************************************)
ButtonBegins(p, ex, ey, d) ==
    /\ At(p, "idle")
    /\ Lag(hdr.mouse, seen.mouse) < lead.mouse
    /\ writer' = [writer EXCEPT ![p] =
                    [IdleWriter EXCEPT !.at = "x", !.x = ex, !.y = ey, !.down = d]]
    /\ UNCHANGED hdr

ButtonX(p) ==
    /\ At(p, "x")
    /\ hdr' = [hdr EXCEPT !.x = writer[p].x]
    /\ Goes(p, "y")

ButtonY(p) ==
    /\ At(p, "y")
    /\ hdr' = [hdr EXCEPT !.y = writer[p].y]
    /\ Goes(p, "state")

ButtonState(p) ==
    /\ At(p, "state")
    /\ hdr' = [hdr EXCEPT !.down = writer[p].down]
    /\ Goes(p, "mouse")

ButtonCounterRead(p) ==
    /\ At(p, "mouse")
    /\ writer' = [writer EXCEPT ![p].at = "mouse+1", ![p].reg = hdr.mouse]
    /\ UNCHANGED hdr

ButtonPushed(p) ==
    /\ At(p, "mouse+1")
    /\ hdr' = [hdr EXCEPT !.mouse = Inc(writer[p].reg)]
    /\ Done(p)

-----------------------------------------------------------------------------
(***************************************************************************)
(* The wheel: reserved0 is the delta, reserved2 the counter.               *)
(***************************************************************************)
WheelBegins(p, d) ==
    /\ At(p, "idle")
    /\ Lag(hdr.wheel, seen.wheel) < lead.wheel
    /\ hdr' = [hdr EXCEPT !.dy = d]
    /\ Goes(p, "wheel")

WheelCounterRead(p) ==
    /\ At(p, "wheel")
    /\ writer' = [writer EXCEPT ![p].at = "wheel+1", ![p].reg = hdr.wheel]
    /\ UNCHANGED hdr

WheelPushed(p) ==
    /\ At(p, "wheel+1")
    /\ hdr' = [hdr EXCEPT !.wheel = Inc(writer[p].reg)]
    /\ Done(p)

\* A writer starts an event, or goes on with it.
Starts(p) ==
    \/ \E k \in Key : KeyBegins(p, k)
    \/ \E ex \in X, ey \in Y, d \in BOOLEAN : ButtonBegins(p, ex, ey, d)
    \/ \E d \in {-1, 1} : WheelBegins(p, d)

Continues(p) ==
    \/ KeyStored(p)
    \/ ButtonX(p) \/ ButtonY(p) \/ ButtonState(p) \/ ButtonCounterRead(p)
    \/ WheelCounterRead(p)

Completes(p) == KeyPushed(p) \/ ButtonPushed(p) \/ WheelPushed(p)

InputType ==
    /\ hdr \in [wpos : KeyPos, keyq : [Slot -> Key \cup {NoKey}],
                x : X \cup {0}, y : Y \cup {0}, down : BOOLEAN, mouse : Counter,
                dy : {-1, 0, 1}, wheel : Counter]
    /\ \A p \in Writer : writer[p].reg \in KeyPos \cup Counter
    /\ seen \in [key : KeyPos, mouse : Counter, wheel : Counter]
=============================================================================
