---------------------------- MODULE ImgPipeline -----------------------------
(***************************************************************************)
(* The image pipeline of browser_img.c: a cache of sniffed and decoded     *)
(* images in the browser process, and forked worker processes that fetch,  *)
(* sniff and decode small images into a shared mapping.                    *)
(*                                                                         *)
(* The browser process runs one loop (main.c): an event or a navigation,   *)
(* then img_workers_pump, which collects finished workers one by one and   *)
(* dispatches new jobs one by one, then a repaint, and now and then the    *)
(* in-process decode of one large image.  The workers run at their own     *)
(* pace and touch only their slot of the mapping, so a browser step that   *)
(* does not read or write the mapping is one step here; collecting and     *)
(* dispatching are split where a worker can get in between, which includes *)
(* the two writes `w->state = 1u; w->rc = 0;` of a dispatch.               *)
(*                                                                         *)
(* Abstractions.  A key ("host|/path") is a model value, one entry per     *)
(* key; format and dimensions are one Kind; generations are reduced to     *)
(* "is the current one"; last_use ticks are reduced to the order they      *)
(* induce, kept in lru; the pixel pool is reduced to sizes, in units, and  *)
(* an allocation may fail although the sizes fit (PixelPool shows how); an *)
(* allocation loop gives up only when nothing is left to evict, as it does *)
(* in a cache of no more entries than its 32 or 64 rounds.  Which of the   *)
(* wanted large images is next depends on array indices: any may be.       *)
(* The fields of an idle slot are never read and hold their initial values.*)
(***************************************************************************)
EXTENDS Integers, FiniteSets, Sequences, SequencesExt

CONSTANTS Key,          \* image keys
          NoKey,        \* the empty key of a slot never used
          NWorkers,     \* IMG_WORKERS, 4 in the program
          MaxEntries,   \* slots of g_img_sniff_cache, 1024 in the program
          PoolUnits,    \* size of the pixel pool
          MaxFailures,  \* failures of an image before giving up, 3
          Kinds,        \* the kinds of image the network can deliver
          ForkMayFail,  \* can sys_fork or sys_mmap fail in img_workers_init?
          MayDie        \* can a worker process die on its own?

ASSUME PipelineAssumption ==
    /\ NoKey \notin Key /\ IsFiniteSet(Key)
    /\ NWorkers \in Nat \ {0}
    /\ MaxEntries \in Nat \ {0}
    /\ PoolUnits \in Nat
    /\ MaxFailures \in Nat \ {0}
    /\ ForkMayFail \in BOOLEAN /\ MayDie \in BOOLEAN

Worker == 0..(NWorkers - 1)

(***************************************************************************)
(* fmt, has_dims, w and h of an entry:                                     *)
(*   none    no decodable format: unknown, or WEBP, SVG, AVIF              *)
(*   nodims  JPG, PNG or GIF, no usable dimensions in the sniffed prefix   *)
(*   small   ... at most 128 x 128: workers decode it                      *)
(*   large   ... at most 512 x 512: img_decode_large_pump_one decodes it   *)
(*   huge    ... larger: never decoded                                     *)
(***************************************************************************)
Kind == {"none", "nodims", "small", "large", "huge"}
ASSUME KindsAssumption == Kinds \subseteq Kind

HasDims(kind) == kind \in {"small", "large", "huge"}
Size(kind)    == IF kind = "small" THEN 1 ELSE IF kind = "large" THEN 2 ELSE 0

Entry == [state    : {"empty", "pending", "done"},
          inflight : BOOLEAN,       \* dispatched to a worker
          want     : BOOLEAN,       \* want_pixels
          cur      : BOOLEAN,       \* gen = g_img_generation
          fetchFailures : 0..MaxFailures,
          pixFailures   : 0..MaxFailures,
          kind     : Kind,
          pix      : Nat]           \* units of the pool it owns, 0: no pixels

EmptyEntry == [state |-> "empty", inflight |-> FALSE, want |-> FALSE,
               cur |-> FALSE, fetchFailures |-> 0, pixFailures |-> 0,
               kind |-> "none", pix |-> 0]

NewEntry == [EmptyEntry EXCEPT !.state = "pending", !.want = TRUE, !.cur = TRUE]

VARIABLES cache,    \* Key -> Entry
          lru,      \* the used keys, least recently used first
          page,     \* the images of the page, in document order
          mapped,   \* g_img_workers is not null
          shm,      \* Worker -> the worker's slot of the mapping
          proc,     \* Worker -> "none" (not forked or dead), "idle", "busy"
          pc,       \* where the browser process is
          wi,       \* the loop variable of img_workers_pump
          dirty,    \* any_dims_changed, any_pixels_changed, or a navigation
          told      \* history: did the worker store success in its rc?

browserVars == <<cache, lru, page, mapped, pc, wi, dirty>>
vars == <<cache, lru, page, mapped, shm, proc, pc, wi, dirty, told>>

IdleSlot == [state |-> "idle", key |-> NoKey, ok |-> TRUE,
             kind |-> "none", pix |-> 0]

-----------------------------------------------------------------------------
(***************************************************************************)
(* The cache on its own.  A cache state is [e |-> entries, l |-> order].   *)
(***************************************************************************)
Here == [e |-> cache, l |-> lru]

Become(s) == cache' = s.e /\ lru' = s.l

\* The order l without the keys of ks.
Without(l, ks) ==
    LET kept[n \in 0..Len(l)] ==
            IF n = 0 THEN <<>>
            ELSE IF l[n] \in ks THEN kept[n - 1]
            ELSE Append(kept[n - 1], l[n])
    IN  kept[Len(l)]

Touch(s, k) == [s EXCEPT !.l = Append(Without(@, {k}), k)]

\* Entries thrown out of the cache; their pixels go back to the pool.
Drop(s, ks) == [e |-> [k \in Key |-> IF k \in ks THEN EmptyEntry ELSE s.e[k]],
                l |-> Without(s.l, ks)]

\* The least recently used key of ks.
Oldest(s, ks) == s.l[CHOOSE n \in DOMAIN s.l :
                        s.l[n] \in ks /\ \A m \in 1..(n - 1) : s.l[m] \notin ks]

\* Mutant of Evictable: entries in flight are not spared.
EvictableInflight(s, size) ==
    {k \in Key : s.e[k].state = "done" /\ s.e[k].pix >= size}

\* What img_cache_evict_one (size 0) and img_cache_evict_one_min_len can take.
Evictable(s, size) ==
    {k \in Key : /\ s.e[k].state = "done"
                 /\ ~s.e[k].inflight
                 /\ s.e[k].pix >= size}

\* The victim of one round of the eviction loops: an entry whose pixels are
\* enough, else any finished one.  At most one key.
Victim(s, size) ==
    LET fit == Evictable(s, size)
        any == Evictable(s, 0)
    IN  IF fit # {} THEN {Oldest(s, fit)}
        ELSE IF any # {} THEN {Oldest(s, any)}
        ELSE {}

\* The caches after some rounds, as long as there are victims.
EvictRounds(s, size) ==
    LET after[n \in 0..Cardinality(Key)] ==
            IF n = 0 THEN {s}
            ELSE {Drop(t, Victim(t, size)) : t \in after[n - 1]}
    IN  UNION {after[n] : n \in 0..Cardinality(Key)}

UnitsUsed(s) == LET sum[n \in 0..Len(s.l)] ==
                        IF n = 0 THEN 0 ELSE sum[n - 1] + s.e[s.l[n]].pix
                IN  sum[Len(s.l)]

\* Allocate, evicting until it succeeds: the possible caches afterwards.
Allocated(s, size) ==
    {t \in EvictRounds(s, size) : UnitsUsed(t) + size <= PoolUnits}

\* Everything evictable is gone and there is still no room.
Exhausted(s, size) ==
    {t \in EvictRounds(s, size) : Victim(t, size) = {}}

\* img_cache_find_done
FindDone(s, k) == IF s.e[k].state = "done" THEN Touch(s, k) ELSE s

\* The slot a new key can have when all are used: img_cache_drop_pending_one
\* prefers entries nobody wants, then img_cache_evict_one.
Droppable(s, wanted) ==
    {k \in Key : /\ s.e[k].state = "pending"
                 /\ ~s.e[k].inflight
                 /\ s.e[k].want = wanted}

MakeRoom(s) ==
    IF Len(s.l) < MaxEntries THEN s
    ELSE IF Droppable(s, FALSE) # {}
         THEN Drop(s, {Oldest(s, Droppable(s, FALSE))})
    ELSE IF Droppable(s, TRUE) # {}
         THEN Drop(s, {Oldest(s, Droppable(s, TRUE))})
    ELSE Drop(s, Victim(s, 0))

\* Mutant of GetOrMarkPending: an image asked for again is tried again.
GetOrMarkRearmed(s, k) ==
    IF s.e[k].state # "empty"
    THEN Touch([s EXCEPT !.e[k].want = TRUE, !.e[k].cur = TRUE,
                         !.e[k].fetchFailures = 0,
                         !.e[k].state = IF @ = "done" /\ s.e[k].kind = "none"
                                        THEN "pending" ELSE @], k)
    ELSE LET r == MakeRoom(s)
         IN  IF Len(r.l) < MaxEntries
             THEN Touch([r EXCEPT !.e[k] = NewEntry], k)
             ELSE r

\* img_cache_get_or_mark_pending
GetOrMarkPending(s, k) ==
    IF s.e[k].state # "empty"
    THEN Touch([s EXCEPT !.e[k].want = TRUE, !.e[k].cur = TRUE], k)
    ELSE LET r == MakeRoom(s)
         IN  IF Len(r.l) < MaxEntries
             THEN Touch([r EXCEPT !.e[k] = NewEntry], k)
             ELSE r

\* prefetch_page_images, and the display of the images in a window of the page
\* by browser_render_page.
MarkAll(s, ks) == FoldLeft(GetOrMarkPending, s, ks)

\* The dimension lookups of the text extraction.
LookupAll(s, ks) == FoldLeft(FindDone, s, ks)

\* A window of the page.
Shown == {SubSeq(page, a, b) : a \in 1..(Len(page) + 1), b \in 0..Len(page)}

-----------------------------------------------------------------------------
(***************************************************************************)
(* Worker processes: img_worker_loop.                                      *)
(***************************************************************************)

\* A request is seen; the result fields are reset, rc to failure.
WorkerStart(n) ==
    /\ proc[n] = "idle"
    /\ shm[n].state = "req"
    /\ proc' = [proc EXCEPT ![n] = "busy"]
    /\ shm' = [shm EXCEPT ![n].ok = FALSE, ![n].kind = "none", ![n].pix = 0]
    /\ UNCHANGED <<browserVars, told>>

\* The end of a job: the network failed (rc -1), a small image could not be
\* decoded (rc -2, with its kind in the slot), or the sniff succeeded and a
\* small image is there with its pixels.
WorkerFinish(n) ==
    /\ proc[n] = "busy"
    /\ \E ok \in BOOLEAN, kind \in Kinds \cup {"none"} :
        /\ ~ok => kind \in {"none", "small"}
        /\ ok => kind \in Kinds
        /\ shm' = [shm EXCEPT
                    ![n].state = "done", ![n].ok = ok, ![n].kind = kind,
                    ![n].pix = IF ok /\ kind = "small" THEN Size(kind) ELSE 0]
        /\ told' = [told EXCEPT ![n] = ok]
    /\ proc' = [proc EXCEPT ![n] = "idle"]
    /\ UNCHANGED browserVars

\* A crash.  Nothing in the browser notices.
WorkerDies(n) ==
    /\ MayDie
    /\ proc[n] # "none"
    /\ proc' = [proc EXCEPT ![n] = "none"]
    /\ UNCHANGED <<browserVars, shm, told>>

-----------------------------------------------------------------------------
(***************************************************************************)
(* Navigation: browser_do_https_status.                                    *)
(***************************************************************************)

\* Mutant of RestartWorkers: the workers of the old page carry on.
RestartWorkersNot == UNCHANGED <<mapped, shm, proc, told>>

\* img_workers_cancel_all, then img_workers_init: fresh slots, and a process
\* for each, unless the mapping or a fork fails.
RestartWorkers ==
    /\ shm' = [n \in Worker |-> IdleSlot]
    /\ told' = [n \in Worker |-> TRUE]
    /\ \E forked \in 0..NWorkers :
        /\ forked = NWorkers \/ ForkMayFail
        /\ proc' = [n \in Worker |-> IF n < forked THEN "idle" ELSE "none"]
    /\ \/ mapped' = TRUE
       \/ mapped' = FALSE /\ ForkMayFail /\ \A n \in Worker : proc'[n] = "none"

\* Mutant of NewGeneration: the entries of cancelled jobs stay in flight.
NewGenerationInflight(s) ==
    [s EXCEPT !.e = [k \in Key |-> [@[k] EXCEPT !.want = FALSE,
                                                !.cur = FALSE]]]

\* What cancelling the jobs and img_cache_begin_new_page leave of the entries.
NewGeneration(s) ==
    [s EXCEPT !.e = [k \in Key |-> [@[k] EXCEPT !.inflight = FALSE,
                                                !.want = FALSE,
                                                !.cur = FALSE]]]

\* The page arrives: its images are looked up and marked, and pumping starts.
NavigateTo(p) ==
    /\ pc = "top"
    /\ RestartWorkers
    /\ page' = p
    /\ Become(MarkAll(LookupAll(NewGeneration(Here), p), p))
    /\ pc' = "collect" /\ wi' = 0 /\ dirty' = {"page"}

\* The host cannot be reached: an early return, with no page to pump for.
NavigateFails ==
    /\ pc = "top"
    /\ RestartWorkers
    /\ page' = <<>>
    /\ Become(NewGeneration(Here))
    /\ UNCHANGED <<pc, wi, dirty>>

Pages == UNION {SetToSeqs(ks) : ks \in SUBSET Key}

Navigate == NavigateFails \/ \E p \in Pages : NavigateTo(p)

-----------------------------------------------------------------------------
(***************************************************************************)
(* The main loop: an event that repaints, or none, then img_workers_pump.  *)
(***************************************************************************)
StartPump ==
    /\ pc' = "collect"
    /\ wi' = 0 /\ dirty' = {}

LoopQuiet ==
    /\ pc = "top"
    /\ StartPump
    /\ UNCHANGED <<cache, lru, page, mapped, shm, proc, told>>

\* A scroll, a key, a click in the URL bar.
LoopEvent ==
    /\ pc = "top"
    /\ StartPump
    /\ \E ks \in Shown : Become(MarkAll(Here, ks))
    /\ UNCHANGED <<page, mapped, shm, proc, told>>

(***************************************************************************)
(* Collecting: the entry e of slot n is given the slot's result.           *)
(***************************************************************************)

\* rc says failure: back to pending, or give up.
FailedResult(k) ==
    LET e == cache[k]
        f == IF e.fetchFailures < MaxFailures THEN e.fetchFailures + 1
             ELSE MaxFailures
    IN  /\ cache' = [cache EXCEPT ![k] =
                        [e EXCEPT !.inflight = FALSE, !.fetchFailures = f,
                                  !.state = IF f = MaxFailures THEN "done"
                                            ELSE "pending",
                                  !.want = IF f = MaxFailures THEN FALSE
                                           ELSE @]]
        /\ UNCHANGED <<lru, dirty>>

\* rc says success: format and dimensions are stored, and the entry stays
\* marked in flight while its pixels are being placed.
Stored(k, r) == [Here EXCEPT !.e[k].fetchFailures = 0, !.e[k].kind = r.kind]

Finished(s, k) ==
    Touch([s EXCEPT !.e[k].state = "done", !.e[k].inflight = FALSE], k)

DimsNews(k, r) ==
    IF HasDims(r.kind) /\ ~HasDims(cache[k].kind) THEN {"dims"} ELSE {}

\* The slot holds pixels: replace the entry's, evicting others if need be.
PixelResult(k, r) ==
    LET s == [Stored(k, r) EXCEPT !.e[k].pix = 0]
    IN  \/ \E t \in Allocated(s, r.pix) :
            /\ Become(Finished([t EXCEPT !.e[k].pix = r.pix,
                                         !.e[k].pixFailures = 0], k))
            /\ dirty' = dirty \cup DimsNews(k, r) \cup {"pixels"}
        \/ \E t \in Exhausted(s, r.pix) :
            /\ Become(Finished(t, k))
            /\ dirty' = dirty \cup DimsNews(k, r)

\* No pixels: stop wanting what will never be decoded, count the failure of
\* what should have been.
BareResult(k, r) ==
    LET s == Stored(k, r)
        isCur == s.e[k].cur /\ s.e[k].want
        huge == isCur /\ r.kind = "huge" /\ s.e[k].pix = 0
        small == isCur /\ r.kind = "small" /\ s.e[k].pix = 0
        f == IF small /\ s.e[k].pixFailures < MaxFailures
             THEN s.e[k].pixFailures + 1 ELSE s.e[k].pixFailures
        stop == huge \/ r.kind = "none" \/ (small /\ f = MaxFailures)
    IN  /\ Become(Finished([s EXCEPT !.e[k].pixFailures = f,
                                     !.e[k].want = @ /\ ~stop], k))
        /\ dirty' = dirty \cup IF isCur THEN DimsNews(k, r) ELSE {}

\* The next slot the loop finds in a given state.  Slots passed over on the
\* way are not looked at again in this pump.
NextIn(state, n) ==
    /\ n \in wi..(NWorkers - 1) /\ shm[n].state = state
    /\ \A m \in wi..(n - 1) : shm[m].state # state

CollectOne ==
    /\ pc = "collect"
    /\ \E n \in Worker :
        /\ NextIn("done", n)
        /\ LET k == shm[n].key
               r == shm[n]
           IN  IF cache[k].state = "empty" THEN UNCHANGED <<cache, lru, dirty>>
               ELSE IF ~r.ok THEN FailedResult(k)
               ELSE IF cache[k].cur /\ cache[k].want /\ r.pix > 0
                    THEN PixelResult(k, r)
               ELSE BareResult(k, r)
        /\ shm' = [shm EXCEPT ![n] = IdleSlot]
        /\ told' = [told EXCEPT ![n] = TRUE]
        /\ wi' = n + 1
    /\ UNCHANGED <<page, mapped, proc, pc>>

CollectEnd ==
    /\ pc = "collect"
    /\ \A n \in Worker : ~NextIn("done", n)
    /\ pc' = "dispatch" /\ wi' = 0
    /\ UNCHANGED <<cache, lru, page, mapped, shm, proc, dirty, told>>

(***************************************************************************)
(* Dispatching: the most recently used entry that needs a worker.          *)
(***************************************************************************)
Eligible ==
    {k \in Key :
        /\ cache[k].want /\ cache[k].cur /\ ~cache[k].inflight
        /\ \/ cache[k].state = "pending"
           \/ /\ cache[k].state = "done"
              /\ cache[k].kind = "small" /\ cache[k].pix = 0
              /\ cache[k].pixFailures < MaxFailures}

Newest(ks) == lru[CHOOSE n \in DOMAIN lru :
                    lru[n] \in ks /\ \A m \in (n + 1)..Len(lru) : lru[m] \notin ks]

\* The job is published: w->state = 1.
DispatchState ==
    /\ pc = "dispatch" /\ mapped
    /\ Eligible # {}
    /\ \E n \in Worker :
        /\ NextIn("idle", n)
        /\ LET k == Newest(Eligible)
           IN  /\ cache' = [cache EXCEPT ![k].inflight = TRUE]
               /\ shm' = [shm EXCEPT ![n].state = "req", ![n].key = k]
        /\ wi' = n
    /\ pc' = "dispatchRc"
    /\ UNCHANGED <<lru, page, mapped, proc, dirty, told>>

\* Its result code is cleared: w->rc = 0, after the worker may have run.
DispatchRc ==
    /\ pc = "dispatchRc"
    /\ shm' = [shm EXCEPT ![wi].ok = TRUE]
    /\ pc' = "dispatch" /\ wi' = wi + 1
    /\ UNCHANGED <<cache, lru, page, mapped, proc, dirty, told>>

\* The end of the pump: nothing to dispatch, no worker left or no mapping.  New dimensions
\* mean a new layout and a new prefetch; news of either kind, or a new page, a
\* repaint.
PumpEnd ==
    /\ pc = "dispatch"
    /\ ~mapped \/ Eligible = {} \/ \A n \in Worker : ~NextIn("idle", n)
    /\ LET s == IF "dims" \in dirty THEN MarkAll(LookupAll(Here, page), page)
                ELSE Here
       IN  IF dirty = {} THEN Become(s)
           ELSE \E ks \in Shown : Become(MarkAll(s, ks))
    /\ pc' = "top" /\ wi' = 0 /\ dirty' = {}
    /\ UNCHANGED <<page, mapped, shm, proc, told>>

-----------------------------------------------------------------------------
(***************************************************************************)
(* img_decode_large_pump_one: fetch, allocate and decode one large image in*)
(* the browser process, in a quiet moment.                                 *)
(***************************************************************************)
LargeWanted ==
    {k \in Key : /\ cache[k].state = "done"
                 /\ cache[k].want /\ cache[k].cur
                 /\ ~cache[k].inflight
                 /\ cache[k].kind = "large" /\ cache[k].pix = 0}

Unwanted(s, k) == [s EXCEPT !.e[k].want = FALSE]

LargeFetchFails ==
    /\ pc = "top"
    /\ \E k \in LargeWanted : Become(Unwanted(Here, k))
    /\ UNCHANGED <<page, mapped, shm, proc, pc, wi, dirty, told>>

\* The evictions took everything there was to take, k's own entry included:
\* it is finished, not in flight, and owns no pixels.
LargeNoRoom ==
    /\ pc = "top"
    /\ \E k \in LargeWanted : \E t \in Exhausted(Here, Size("large")) :
        LET f == t.e[k].pixFailures
        IN  Become(IF t.e[k].state = "empty" THEN t
                   ELSE Unwanted([t EXCEPT !.e[k].pixFailures =
                            IF f < MaxFailures THEN f + 1 ELSE f], k))
    /\ UNCHANGED <<page, mapped, shm, proc, pc, wi, dirty, told>>

\* Decoded, and painted.
LargeDecodes ==
    /\ pc = "top"
    /\ \E k \in LargeWanted : \E t \in Allocated(Here, Size("large")) :
        /\ t.e[k].state = "done"
        /\ \E ks \in Shown :
              Become(MarkAll(Touch([t EXCEPT !.e[k].pix = Size("large")], k), ks))
    /\ UNCHANGED <<page, mapped, shm, proc, pc, wi, dirty, told>>

\* The decoder refuses the data, or the entry was evicted on the way and its
\* format with it.
LargeDecodeFails ==
    /\ pc = "top"
    /\ \E k \in LargeWanted : \E t \in Allocated(Here, Size("large")) :
        Become(IF t.e[k].state = "empty" THEN t ELSE Unwanted(t, k))
    /\ UNCHANGED <<page, mapped, shm, proc, pc, wi, dirty, told>>

LargePump ==
    LargeFetchFails \/ LargeNoRoom \/ LargeDecodes \/ LargeDecodeFails

-----------------------------------------------------------------------------

\* Workers are started once before the first navigation (main).
Init ==
    /\ cache = [k \in Key |-> EmptyEntry]
    /\ lru = <<>>
    /\ page = <<>>
    /\ mapped = TRUE
    /\ shm = [n \in Worker |-> IdleSlot]
    /\ proc = [n \in Worker |-> "idle"]
    /\ told = [n \in Worker |-> TRUE]
    /\ pc = "top" /\ wi = 0 /\ dirty = {}

Pump == \/ CollectOne \/ CollectEnd
        \/ DispatchState \/ DispatchRc \/ PumpEnd

Browser == Navigate \/ LoopQuiet \/ LoopEvent \/ Pump \/ LargePump

Next == \/ Browser
        \/ \E n \in Worker : WorkerStart(n) \/ WorkerFinish(n) \/ WorkerDies(n)

Spec == Init /\ [][Next]_vars

\* The kernel schedules the browser process and every worker, and a fetch ends
\* (each network call has a timeout).
FairSpec ==
    /\ Spec
    /\ WF_vars(Pump)
    /\ WF_vars(LoopQuiet)
    /\ \A n \in Worker : WF_vars(WorkerStart(n)) /\ WF_vars(WorkerFinish(n))

-----------------------------------------------------------------------------
TypeOK ==
    /\ cache \in [Key -> Entry]
    /\ ToSet(lru) = {k \in Key : cache[k].state # "empty"}
    /\ Len(lru) = Cardinality(ToSet(lru)) /\ Len(lru) <= MaxEntries
    /\ page \in Pages
    /\ mapped \in BOOLEAN
    /\ shm \in [Worker -> [state : {"idle", "req", "done"},
                           key : Key \cup {NoKey}, ok : BOOLEAN,
                           kind : Kind, pix : 0..Size("large")]]
    /\ proc \in [Worker -> {"none", "idle", "busy"}]
    /\ told \in [Worker -> BOOLEAN]
    /\ pc \in {"top", "collect", "dispatch", "dispatchRc"}
    /\ wi \in 0..NWorkers
    /\ dirty \subseteq {"dims", "pixels", "page"}

\* An entry is in flight exactly when one worker slot holds its job: no job is
\* done twice, and no entry waits for a job nobody has, across evictions,
\* dropped entries and cancelled pages.
HasJob(n, k) == shm[n].state # "idle" /\ shm[n].key = k
InflightIffOneJob ==
    \A k \in Key :
        /\ cache[k].inflight <=> \E n \in Worker : HasJob(n, k)
        /\ \A n, m \in Worker : HasJob(n, k) /\ HasJob(m, k) => n = m

\* A job in flight belongs to the page on the screen and its entry still wants
\* the result: no result of an old page can reach an entry, whenever the
\* worker finished (img_cache_begin_new_page).
JobsAreForThisPage ==
    \A n \in Worker, k \in Key :
        HasJob(n, k) => cache[k].cur /\ cache[k].want

\* Once the browser has given up on an image it knows nothing about, no event
\* and no later page makes it try again, not even a reload: only the recycling
\* of its slot forgets the failures.
GivenUp(k) == /\ cache[k].state = "done"
              /\ cache[k].kind = "none"
              /\ cache[k].fetchFailures = MaxFailures
GivenUpStays ==
    [][ \A k \in Key : GivenUp(k) =>
            GivenUp(k)' \/ cache'[k] \in {EmptyEntry, NewEntry} ]_vars

\* A pending image the page wants is settled, or dropped for want of slots,
\* unless the user navigates for ever.  A dead worker loses at most the image
\* it was given; the others go on with the rest.
Waiting(k) == cache[k].state = "pending" /\ cache[k].want
Lost(k) == \E n \in Worker : HasJob(n, k) /\ proc[n] = "none"

Settles ==
    (<>[][~Navigate]_vars /\ <>[](\E n \in Worker : proc[n] # "none")) =>
        \A k \in Key : Waiting(k) ~> (~Waiting(k) \/ Lost(k))

-----------------------------------------------------------------------------
(***************************************************************************)
(* What comments of the code say, and the code does not do.                *)
(***************************************************************************)

\* "if fork failed, just leave fewer workers": the workers there are get the
\* jobs.
JobHasWorker ==
    \A n \in Worker : shm[n].state = "req" => proc[n] # "none"

\* "Transient failure: keep pending so we can retry a few times": a failed
\* fetch, as the worker knows it, leaves the entry pending until the third.
FailureKeepsPending ==
    [][ \A n \in Worker, k \in Key :
          (CollectOne /\ wi' = n + 1 /\ HasJob(n, k) /\ ~told[n]
            /\ cache[k].fetchFailures + 1 < MaxFailures)
                => cache'[k].state = "pending" ]_vars

\* "evicting old decoded entries": making room for a large image takes only
\* entries that have pixels.
LargeEvictsDecoded ==
    [][ LargePump => \A k \in Key : cache[k].state # "empty" /\ cache[k].pix = 0
                        => cache'[k].state # "empty" ]_vars
=============================================================================
