----------------------------- MODULE PixelPool ------------------------------
(***************************************************************************)
(* The pixel pool allocator of browser_img.c: a bump pointer, and a short  *)
(* unordered array of free blocks (img_pixel_alloc, img_pixel_free,        *)
(* img_pixel_try_shrink_tail), with the two users that hand blocks to      *)
(* cache entries: the collection of a worker's result in img_workers_pump  *)
(* and the in-process decode of img_decode_large_pump_one.                 *)
(*                                                                         *)
(* img_pixel_free is not one step here.  Its merge pass compares one pair  *)
(* of array slots per step, its compaction moves one slot per step and its *)
(* tail shrink removes one block per step, in the order of the C loops:    *)
(* what the pass does NOT merge depends on that order.  All users run in   *)
(* one process, so an operation starts only when the last one is over      *)
(* (stage = "idle").                                                       *)
(*                                                                         *)
(* A slot of the array at or above freeN holds stale data in the program,  *)
(* which never reads it; here it holds NoBlock.                            *)
(***************************************************************************)
EXTENDS Integers, FiniteSets

CONSTANTS Owner,      \* the cache entries (g_img_sniff_cache)
          Cap,        \* pixels in g_img_pixel_pool (2M in the program)
          MaxFree     \* slots of g_img_pix_free (128 in the program)

ASSUME PoolAssumption == /\ Cap \in Nat \ {0}
                         /\ MaxFree \in Nat \ {0}

VARIABLES used,       \* g_img_pixel_pool_used, the bump pointer
          free,       \* g_img_pix_free
          freeN,      \* g_img_pix_free_n
          live,       \* entry -> [off, len] of its pixels; len = 0: has none
          stage,      \* where img_pixel_free is
          i, j, w,    \* its loop variables
          saved       \* old_used of img_decode_large_pump_one, else NotSaved

poolVars == <<used, free, freeN, live, stage, i, j, w, saved>>

Store == INSTANCE PixelStore WITH Owner <- Owner, Cap <- Cap, live <- live

Slot     == 0..(MaxFree - 1)
NotSaved == -1

-----------------------------------------------------------------------------

PoolInit ==
    /\ used = 0
    /\ free = [k \in Slot |-> Store!NoBlock]
    /\ freeN = 0
    /\ live = [o \in Owner |-> Store!NoBlock]
    /\ stage = "idle"
    /\ i = 0 /\ j = 0 /\ w = 0
    /\ saved = NotSaved

(***************************************************************************)
(* img_pixel_alloc: the first of the smallest free blocks that are large   *)
(* enough, carved from its front; else the bump pointer.                   *)
(***************************************************************************)
Fits(n) == {k \in 0..(freeN - 1) : free[k].len >= n}

BestFit(n, k) ==
    /\ k \in Fits(n)
    /\ \A m \in Fits(n) : \/ free[k].len < free[m].len
                          \/ free[k].len = free[m].len /\ k <= m

\* Mutant of DropSlot: the last block is not moved down.
DropSlotForgets(k) ==
    /\ free' = [free EXCEPT ![freeN - 1] = Store!NoBlock]
    /\ freeN' = freeN - 1

\* The free array without slot k: the last block takes its place.
DropSlot(k) ==
    /\ free' = [free EXCEPT ![k] = free[freeN - 1],
                            ![freeN - 1] = Store!NoBlock]
    /\ freeN' = freeN - 1

CarveFree(n, b) ==
    \E k \in Slot :
        /\ BestFit(n, k)
        /\ b = [off |-> free[k].off, len |-> n]
        /\ IF free[k].len = n
           THEN DropSlot(k)
           ELSE /\ free' = [free EXCEPT ![k] = [off |-> @.off + n,
                                                len |-> @.len - n]]
                /\ UNCHANGED freeN

Bump(n, b) ==
    /\ Fits(n) = {}
    /\ Cap - used >= n
    /\ b = [off |-> used, len |-> n]
    /\ UNCHANGED <<free, freeN>>

\* What a successful img_pixel_alloc(n) does to the array, with the bump
\* pointer it leaves behind.
Take(n, b, top) ==
    \/ CarveFree(n, b) /\ top = used
    \/ Bump(n, b) /\ top = used + n

Idle == stage = "idle"

\* A worker's pixels are copied into the pool.
Alloc(o) ==
    /\ Idle /\ saved = NotSaved
    /\ live[o].len = 0
    /\ \E b \in Store!Block :
        /\ b.len > 0
        /\ Take(b.len, b, used')
        /\ live' = [live EXCEPT ![o] = b]
    /\ UNCHANGED <<stage, i, j, w, saved>>

-----------------------------------------------------------------------------
(***************************************************************************)
(* img_pixel_free, called when an entry is evicted or its pixels are       *)
(* replaced.  With a full array the block is not recorded at all.          *)
(***************************************************************************)
FreeBegin(o) ==
    /\ Idle
    /\ live[o].len > 0
    /\ IF freeN < MaxFree
       THEN /\ free' = [free EXCEPT ![freeN] = live[o]]
            /\ freeN' = freeN + 1
       ELSE UNCHANGED <<free, freeN>>
    /\ live' = [live EXCEPT ![o] = Store!NoBlock]
    /\ stage' = "merge"
    /\ i' = 0 /\ j' = 0
    /\ UNCHANGED <<used, w, saved>>

\* Mutant of Absorbs: blocks with a gap or an overlap the wrong way merge too.
AbsorbsOverGap(a, b) ==
    /\ a # b
    /\ free[a].len > 0 /\ free[b].len > 0
    /\ Store!End(free[a]) >= free[b].off

\* The body of the double loop for one pair of slots.
Absorbs(a, b) ==
    /\ a # b
    /\ free[a].len > 0 /\ free[b].len > 0
    /\ Store!End(free[a]) = free[b].off

\* Mutant of MergeStep: the inner loop looks only at the slots after i.
MergeStepForward ==
    /\ stage = "merge"
    /\ i < freeN
    /\ IF j < freeN
       THEN /\ IF i < j /\ Absorbs(i, j)
               THEN free' = [free EXCEPT ![i].len = @ + free[j].len,
                                         ![j].len = 0]
               ELSE UNCHANGED free
            /\ j' = j + 1
            /\ UNCHANGED i
       ELSE /\ i' = i + 1 /\ j' = 0
            /\ UNCHANGED free
    /\ UNCHANGED <<used, freeN, live, stage, w, saved>>

\* Mutant of MergeStep: the absorbed block's length is not added.
MergeStepLoses ==
    /\ stage = "merge"
    /\ i < freeN
    /\ IF j < freeN
       THEN /\ IF Absorbs(i, j)
               THEN free' = [free EXCEPT ![j].len = 0]
               ELSE UNCHANGED free
            /\ j' = j + 1
            /\ UNCHANGED i
       ELSE /\ i' = i + 1 /\ j' = 0
            /\ UNCHANGED free
    /\ UNCHANGED <<used, freeN, live, stage, w, saved>>

MergeStep ==
    /\ stage = "merge"
    /\ i < freeN
    /\ IF j < freeN
       THEN /\ IF Absorbs(i, j)
               THEN free' = [free EXCEPT ![i].len = @ + free[j].len,
                                         ![j].len = 0]
               ELSE UNCHANGED free
            /\ j' = j + 1
            /\ UNCHANGED i
       ELSE /\ i' = i + 1 /\ j' = 0
            /\ UNCHANGED free
    /\ UNCHANGED <<used, freeN, live, stage, w, saved>>

MergeDone ==
    /\ stage = "merge"
    /\ i = freeN
    /\ stage' = "compact"
    /\ i' = 0 /\ j' = 0 /\ w' = 0
    /\ UNCHANGED <<used, free, freeN, live, saved>>

CompactStep ==
    /\ stage = "compact"
    /\ i < freeN
    /\ IF free[i].len = 0
       THEN UNCHANGED <<free, w>>
       ELSE /\ free' = [free EXCEPT ![w] = free[i]]
            /\ w' = w + 1
    /\ i' = i + 1
    /\ UNCHANGED <<used, freeN, live, stage, j, saved>>

\* Mutant of CompactDone: the shrink of the tail is forgotten.
CompactDoneNoShrink ==
    /\ stage = "compact"
    /\ i = freeN
    /\ free' = [k \in Slot |-> IF k < w THEN free[k] ELSE Store!NoBlock]
    /\ freeN' = w
    /\ stage' = "idle"
    /\ i' = 0 /\ w' = 0
    /\ UNCHANGED <<used, live, j, saved>>

CompactDone ==
    /\ stage = "compact"
    /\ i = freeN
    /\ free' = [k \in Slot |-> IF k < w THEN free[k] ELSE Store!NoBlock]
    /\ freeN' = w
    /\ stage' = "shrink"
    /\ i' = 0 /\ w' = 0
    /\ UNCHANGED <<used, live, j, saved>>

(***************************************************************************)
(* img_pixel_try_shrink_tail: while some free block ends at the bump       *)
(* pointer, take the first such block off the array and off the pool.      *)
(***************************************************************************)
AtTail(k) == /\ k < freeN
             /\ free[k].len > 0
             /\ Store!End(free[k]) = used

ShrinkStep ==
    /\ stage = "shrink"
    /\ \E k \in Slot :
        /\ AtTail(k)
        /\ \A m \in 0..(k - 1) : ~AtTail(m)
        /\ used' = used - free[k].len
        /\ DropSlot(k)
    /\ UNCHANGED <<live, stage, i, j, w, saved>>

ShrinkDone ==
    /\ stage = "shrink"
    /\ \A k \in Slot : ~AtTail(k)
    /\ stage' = "idle"
    /\ UNCHANGED <<used, free, freeN, live, i, j, w, saved>>

-----------------------------------------------------------------------------
(***************************************************************************)
(* img_decode_large_pump_one: remember the bump pointer, allocate (evicting*)
(* as long as that fails: FreeBegin), decode in place.  A failed decode    *)
(* undoes the allocation by restoring the bump pointer and nothing else.   *)
(***************************************************************************)
LargeBegin ==
    /\ Idle /\ saved = NotSaved
    /\ saved' = used
    /\ UNCHANGED <<used, free, freeN, live, stage, i, j, w>>

LargeDecoded(o) ==
    /\ Idle /\ saved # NotSaved
    /\ live[o].len = 0
    /\ \E b \in Store!Block :
        /\ b.len > 0
        /\ Take(b.len, b, used')
        /\ live' = [live EXCEPT ![o] = b]
    /\ saved' = NotSaved
    /\ UNCHANGED <<stage, i, j, w>>

LargeFails ==
    /\ Idle /\ saved # NotSaved
    /\ \E b \in Store!Block, top \in 0..Cap :
        /\ b.len > 0
        /\ Take(b.len, b, top)
    /\ used' = saved
    /\ saved' = NotSaved
    /\ UNCHANGED <<live, stage, i, j, w>>

\* No room even after evictions.
LargeGivesUp ==
    /\ Idle /\ saved # NotSaved
    /\ saved' = NotSaved
    /\ UNCHANGED <<used, free, freeN, live, stage, i, j, w>>

-----------------------------------------------------------------------------

PoolNext ==
    \/ \E o \in Owner : Alloc(o) \/ FreeBegin(o) \/ LargeDecoded(o)
    \/ MergeStep \/ MergeDone
    \/ CompactStep \/ CompactDone
    \/ ShrinkStep \/ ShrinkDone
    \/ LargeBegin \/ LargeFails \/ LargeGivesUp

PoolSpec == PoolInit /\ [][PoolNext]_poolVars

-----------------------------------------------------------------------------
(***************************************************************************)
(* Invariants.                                                             *)
(***************************************************************************)

\* Every variable of the allocator and of its loops stays in range.
PoolTypeOK ==
    /\ used \in 0..Cap
    /\ free \in [Slot -> Store!Block]
    /\ freeN \in 0..MaxFree
    /\ live \in [Owner -> Store!Block]
    /\ stage \in {"idle", "merge", "compact", "shrink"}
    /\ i \in 0..MaxFree /\ j \in 0..MaxFree /\ w \in 0..MaxFree
    /\ saved \in {NotSaved} \cup 0..Cap

\* The slots that count: during compaction, those already moved and those
\* not yet looked at.
ActiveSlot ==
    {k \in Slot : k < freeN /\ (stage = "compact" => k < w \/ k >= i)}

\* The pixels two entries show are never the same memory.
LiveApart ==
    \A o, p \in Owner : o # p => Store!Apart(live[o], live[p])

\* No free block overlaps a block in use, nor another free block: the next
\* allocation cannot scribble over an image on the screen.
FreeApart ==
    /\ \A k \in ActiveSlot, o \in Owner : Store!Apart(free[k], live[o])
    /\ \A k, m \in ActiveSlot : k # m => Store!Apart(free[k], free[m])

\* The bump pointer is above every block, live or free; so is the value a
\* failed decode will restore.
BelowTop ==
    /\ \A o \in Owner : live[o].len > 0 => Store!End(live[o]) <= used
    /\ \A k \in ActiveSlot : free[k].len > 0 => Store!End(free[k]) <= used
    /\ saved # NotSaved => used <= saved

\* Loop bounds, and no empty block outside the merge pass.
LoopState ==
    /\ stage = "merge" => i <= freeN /\ j <= freeN
    /\ stage = "compact" => w <= i /\ i <= freeN
    /\ stage = "compact" => \A k \in Slot : k < w => free[k].len > 0
    /\ stage \in {"idle", "shrink"} =>
            \A k \in ActiveSlot : free[k].len > 0

\* The strengthening of LiveApart that every step preserves.
PoolInv == PoolTypeOK /\ LiveApart /\ FreeApart /\ BelowTop /\ LoopState

\* Between operations no free block touches the bump pointer: memory at the
\* top of the pool always goes back to the bump allocator, whose blocks can
\* be of any size.
TailTrimmed == Idle => \A k \in Slot : ~AtTail(k)

\* The merge pass compares each pair of slots once, so a block freed between
\* two free neighbours joins only one of them; but never is more than one
\* such seam left between operations, however long the sequence of calls.
Seam(a, b) == a < freeN /\ b < freeN /\ Absorbs(a, b)
AtMostOneSeam ==
    Idle => Cardinality({s \in Slot \X Slot : Seam(s[1], s[2])}) <= 1

-----------------------------------------------------------------------------
(***************************************************************************)
(* Leaks.  A pixel below the bump pointer that is neither in a live block  *)
(* nor in a recorded free block is lost.                                   *)
(***************************************************************************)
Pixels(b) == b.off .. (Store!End(b) - 1)

LostPixels == (0..(used - 1))
            \ ( (UNION {Pixels(live[o]) : o \in Owner})
                \cup (UNION {Pixels(free[k]) : k \in ActiveSlot}) )

\* Only two steps lose pixels: freeing into a full array, and undoing the
\* allocation of a failed large decode.
LostOnlyByOverflowOrFailedDecode ==
    [][ LostPixels' \subseteq LostPixels \/ LargeFails
        \/ \E o \in Owner : FreeBegin(o) /\ freeN = MaxFree ]_poolVars

\* The allocator implements what its users rely on.
StoreSpec == Store!Spec
=============================================================================
