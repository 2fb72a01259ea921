----------------------------- MODULE PixelStore -----------------------------
(***************************************************************************)
(* What the decoded-image pixel pool of browser_img.c promises its users.  *)
(*                                                                         *)
(* A cache entry either has no pixels or owns one contiguous block of the  *)
(* pool.  A block is handed out whole, stays put and untouched until its   *)
(* entry gives it up, and never overlaps a block of another entry: the     *)
(* pixels an entry shows are the ones decoded for it.  Nothing is said of  *)
(* where a block is placed, nor of when an allocation must succeed.        *)
(***************************************************************************)
EXTENDS Integers

CONSTANTS Owner,    \* the cache entries, one block each at most
          Cap       \* pixels in g_img_pixel_pool

VARIABLE live       \* entry -> its block; len = 0 is !has_pixels

Block   == [off : 0..Cap, len : 0..Cap]
NoBlock == [off |-> 0, len |-> 0]

End(b) == b.off + b.len

\* Two blocks share no pixel.
Apart(a, b) == \/ a.len = 0
               \/ b.len = 0
               \/ End(a) <= b.off
               \/ End(b) <= a.off

-----------------------------------------------------------------------------

Init == live = [o \in Owner |-> NoBlock]

\* A decode stored its pixels in a block no other entry owns.
Acquire(o, b) ==
    /\ live[o].len = 0
    /\ b.len > 0
    /\ End(b) <= Cap
    /\ \A p \in Owner \ {o} : Apart(b, live[p])
    /\ live' = [live EXCEPT ![o] = b]

\* An eviction, or the replacement of an entry's pixels.
Release(o) ==
    /\ live[o].len > 0
    /\ live' = [live EXCEPT ![o] = NoBlock]

Next == \E o \in Owner : Release(o) \/ \E b \in Block : Acquire(o, b)

Spec == Init /\ [][Next]_live
=============================================================================
