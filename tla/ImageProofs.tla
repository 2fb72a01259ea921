---------------------------- MODULE ImageProofs -----------------------------
(***************************************************************************)
(* What is proved about images: the cache, its workers and their pump      *)
(* (ImgPipeline), and the pixel pool their pixels live in (PixelPool).     *)
(* Neither module refers to the other: each has a specification of its own *)
(* and a part of this module.                                              *)
(***************************************************************************)
EXTENDS ImgPipeline, PixelPool, FiniteSetTheorems, SequenceTheorems, TLAPS

-----------------------------------------------------------------------------
(***************************************************************************)
(* THE CACHE AND ITS WORKERS, for every set of images, number of workers   *)
(* and size of the cache and of the pool: an entry is in flight exactly    *)
(* when one slot holds its job, a job belongs to the page on the screen,   *)
(* and an image that was given up stays given up.                          *)
(*                                                                         *)
(* The proof goes the way of the code.  Every helper on a cache state s    *)
(* (touch, drop, evict, mark, look up) gives a state in After(s): it is    *)
(* sound, entries in flight are spared and settled ones stay settled.  The *)
(* loops (the eviction rounds, the marking of all images of a page) are    *)
(* inductions over their rounds, by the lemmas of Iteration.  IInv adds to *)
(* the two invariants what the steps rely on: a sound cache, slots whose   *)
(* keys are keys, workers that work only on requests, and that an entry in *)
(* flight has not been given up.                                           *)
(***************************************************************************)

\* k is in the order l.
In(k, l) == \E n \in 1..Len(l) : l[n] = k

\* One element of Without, with what is left out.
KeepOrSkip(kept, p) == IF p[1] \in p[2] THEN kept ELSE Append(kept, p[1])
W == INSTANCE Iteration WITH op <- KeepOrSkip

\* The order without some keys has the other keys.
LEMMA WithoutFacts ==
  ASSUME NEW l \in Seq(Key), NEW ks
  PROVE  /\ Without(l, ks) \in Seq(Key)
         /\ \A k \in Key : In(k, Without(l, ks)) <=> k \notin ks /\ In(k, l)
<1> DEFINE n == Len(l)
           seq == [d \in 1..n |-> <<l[d], ks>>]
           Is(g) == g = [d \in 0..n |-> IF d = 0 THEN <<>>
                            ELSE IF l[d] \in ks THEN g[d - 1]
                            ELSE Append(g[d - 1], l[d])]
           f == CHOOSE g : Is(g)
           G == {p \in Nat \X Seq(Key) : \A k \in Key :
                    In(k, p[2]) <=> k \notin ks /\ \E d \in 1..p[1] : l[d] = k}
<1>1. n \in Nat /\ \A d \in 1..n : l[d] \in Key
  BY LenProperties, ElementOfSeq
<1>2. ASSUME NEW g PROVE W!Iterates(g, <<>>, seq, n) <=> Is(g)
  <2>1. ASSUME NEW d \in 0..n
        PROVE (IF d = 0 THEN <<>> ELSE KeepOrSkip(g[d - 1], seq[d]))
                 = IF d = 0 THEN <<>>
                   ELSE IF l[d] \in ks THEN g[d - 1] ELSE Append(g[d - 1], l[d])
    BY <1>1 DEF KeepOrSkip
  <2> QED BY <2>1 DEF W!Iterates
<1>3. W!Iterates(f, <<>>, seq, n)
  <2>1. \E g : W!Iterates(g, <<>>, seq, n)
    BY <1>1, W!IterationExists
  <2> QED BY <1>2, <2>1
<1>4. Without(l, ks) = f[n]
  BY DEF Without
<1>5. <<0, <<>>>> \in G
  <2>1. <<>> \in Seq(Key) /\ Len(<<>>) = 0
    BY EmptySeq
  <2>2. \A k : ~ In(k, <<>>)
    BY <2>1 DEF In
  <2>3. ASSUME NEW k \in Key
        PROVE  In(k, <<>>) <=> k \notin ks /\ \E d \in 1..0 : l[d] = k
    BY <2>2
  <2>4. PICK e : e = <<>>
    OBVIOUS
  <2>5. e \in Seq(Key) /\ \A k \in Key : In(k, e) <=> k \notin ks /\ \E d \in 1..0 : l[d] = k
    BY <2>1, <2>3, <2>4
  <2>6. <<0, e>> \in G
    <3> HIDE DEF n, seq, f
    <3> QED BY <2>5
  <2> QED BY <2>4, <2>6
<1>6. ASSUME NEW d \in 1..n, NEW x, <<d - 1, x>> \in G
      PROVE  <<d, KeepOrSkip(x, seq[d])>> \in G
  <2>1. x \in Seq(Key) /\ d \in Nat /\ d - 1 \in Nat /\ l[d] \in Key /\ seq[d] = <<l[d], ks>>
    BY <1>1, <1>6
  <2>2. \A k \in Key : In(k, x) <=> k \notin ks /\ \E other \in 1..(d - 1) : l[other] = k
    BY <1>6
  <2>3. \A k : (\E other \in 1..d : l[other] = k) <=> (l[d] = k \/ \E other \in 1..(d - 1) : l[other] = k)
    BY <1>1, <2>1
  <2>4. CASE l[d] \in ks
    <3>1. KeepOrSkip(x, seq[d]) = x
      BY <2>1, <2>4 DEF KeepOrSkip
    <3> QED BY <2>1, <2>2, <2>3, <2>4, <3>1
  <2>5. CASE l[d] \notin ks
    <3>1. KeepOrSkip(x, seq[d]) = Append(x, l[d])
      BY <2>1, <2>5 DEF KeepOrSkip
    <3>2. Append(x, l[d]) \in Seq(Key)
      BY <2>1, AppendProperties
    <3>3. \A k \in Key : In(k, Append(x, l[d])) <=> In(k, x) \/ k = l[d]
      BY <2>1, AppendProperties DEF In
    <3> QED BY <2>1, <2>2, <2>3, <2>5, <3>1, <3>2, <3>3
  <2> QED BY <2>4, <2>5
<1>7. <<n, f[n]>> \in G
  <2> HIDE DEF G, seq, f, n
  <2>1. \A k \in 0..n : <<k, f[k]>> \in G
    BY <1>1, <1>3, <1>5, <1>6, W!IterationKeeps
  <2> QED BY <1>1, <2>1
<1> HIDE DEF f
<1>8. f[n] \in Seq(Key) /\ \A k \in Key : In(k, f[n]) <=> k \notin ks /\ \E d \in 1..n : l[d] = k
  BY <1>7
<1>9. \A k : In(k, l) <=> \E d \in 1..n : l[d] = k
  BY DEF In
<1> HIDE DEF n, G
<1> QED BY <1>4, <1>8, <1>9

-----------------------------------------------------------------------------
(***************************************************************************)
(* Cache states, and what happens to the entries of one.                   *)
(***************************************************************************)
\* A state of the cache, as Here is.
CacheState == [e : [Key -> Entry], l : Seq(Key)]

\* The used entries but k's are in the order, and only used ones are in flight.
SoundBut(k) ==
    {s \in CacheState : \A other \in Key :
        /\ s.e[other].state # "empty" /\ other # k => In(other, s.l)
        /\ s.e[other].inflight => s.e[other].state # "empty"}

Sound ==
    {s \in CacheState : \A other \in Key :
        /\ s.e[other].state # "empty" => In(other, s.l)
        /\ s.e[other].inflight => s.e[other].state # "empty"}

\* Given up, or forgotten since.
Settled(e) ==
    \/ e \in {EmptyEntry, NewEntry}
    \/ e.state = "done" /\ e.kind = "none" /\ e.fetchFailures = MaxFailures

\* What an entry e may become, f, while no result is collected and no job is
\* dispatched.
Spares(e, f) ==
    /\ f.inflight = e.inflight
    /\ e.inflight => /\ f.state = e.state /\ f.kind = e.kind
                     /\ e.cur => f.cur
                     /\ e.want => f.want
    /\ Settled(e) => Settled(f)

After(s) == {t \in Sound : \A k \in Key : Spares(s.e[k], t.e[k])}

\* When a cache state given by its two fields is sound.
LEMMA SoundIf ==
  ASSUME NEW e, NEW l, [e |-> e, l |-> l] \in CacheState,
         \A other \in Key : e[other].state # "empty" => In(other, l),
         \A other \in Key : e[other].inflight => e[other].state # "empty"
  PROVE  [e |-> e, l |-> l] \in Sound
  BY DEF Sound

\* Nothing happening is one of the things that may happen.
LEMMA AfterItself == ASSUME NEW s \in Sound PROVE s \in After(s)
  BY DEF After, Spares

\* What may happen can happen repeatedly.
LEMMA AfterAfter ==
  ASSUME NEW s, NEW t \in After(s), NEW u \in After(t)
  PROVE  u \in After(s)
  BY DEF After, Spares

\* Touching k is sound when k was the only used entry missing in the order.
LEMMA TouchFacts ==
  ASSUME NEW k \in Key, NEW s \in SoundBut(k)
  PROVE  Touch(s, k) \in Sound /\ Touch(s, k).e = s.e
<1> DEFINE rest == Without(s.l, {k})
           t == Append(rest, k)
<1>1. s \in CacheState /\ s.l \in Seq(Key)
  BY DEF SoundBut, CacheState
<1>2. rest \in Seq(Key) /\ \A other \in Key : In(other, rest) <=> other # k /\ In(other, s.l)
  BY <1>1, WithoutFacts
<1>3. t \in Seq(Key) /\ \A other \in Key : In(other, t) <=> In(other, rest) \/ other = k
  <2> HIDE DEF rest
  <2> QED BY <1>2, AppendProperties DEF In
<1>4. Touch(s, k) = [s EXCEPT !.l = t]
  BY DEF Touch
<1> HIDE DEF rest, t
<1>4a. Touch(s, k) = [e |-> s.e, l |-> t]
  BY <1>1, <1>4 DEF CacheState
<1>5. Touch(s, k) \in CacheState
  BY <1>1, <1>3, <1>4a DEF CacheState
<1> QED BY <1>2, <1>3, <1>4a, <1>5 DEF Sound, SoundBut

\* Touching an entry changes none.
LEMMA TouchAfter ==
  ASSUME NEW s \in Sound, NEW k \in Key
  PROVE  Touch(s, k) \in After(s)
<1>1. s \in SoundBut(k)
  BY DEF Sound, SoundBut
<1>2. Touch(s, k) \in Sound /\ Touch(s, k).e = s.e
  BY <1>1, TouchFacts
<1> QED BY <1>2 DEF After, Spares

\* Entries can be dropped when none of them is in flight.
LEMMA DropAfter ==
  ASSUME NEW s \in Sound, NEW ks, \A k \in Key : k \in ks => ~ s.e[k].inflight
  PROVE  Drop(s, ks) \in After(s)
<1> DEFINE e == [k \in Key |-> IF k \in ks THEN EmptyEntry ELSE s.e[k]]
           rest == Without(s.l, ks)
<1>1. s \in CacheState /\ s.l \in Seq(Key) /\ s.e \in [Key -> Entry]
  BY DEF Sound, CacheState
<1>2. rest \in Seq(Key) /\ \A other \in Key : In(other, rest) <=> other \notin ks /\ In(other, s.l)
  BY <1>1, WithoutFacts
<1>3. EmptyEntry \in Entry /\ EmptyEntry.state = "empty" /\ ~ EmptyEntry.inflight
  BY PipelineAssumption DEF EmptyEntry, Entry, Kind
<1>4. e \in [Key -> Entry]
  BY <1>1, <1>3
<1>5. Drop(s, ks) = [e |-> e, l |-> rest]
  BY DEF Drop
<1> HIDE DEF rest
<1>6. Drop(s, ks) \in CacheState
  BY <1>2, <1>4, <1>5 DEF CacheState
<1>7. Drop(s, ks) \in Sound
  BY <1>2, <1>3, <1>5, <1>6 DEF Sound
<1>8. ASSUME NEW k \in Key PROVE Spares(s.e[k], Drop(s, ks).e[k])
  <2>1. CASE k \in ks
    <3>1. Drop(s, ks).e[k] = EmptyEntry
      BY <1>5, <2>1
    <3>2. s.e[k].inflight = FALSE /\ EmptyEntry.inflight = FALSE
      BY <1>1, <2>1 DEF Entry, EmptyEntry
    <3> QED BY <3>1, <3>2 DEF Spares, Settled
  <2>2. CASE k \notin ks
    <3>1. Drop(s, ks).e[k] = s.e[k]
      BY <1>5, <2>2
    <3> QED BY <3>1 DEF Spares
  <2> QED BY <2>1, <2>2
<1> QED BY <1>7, <1>8 DEF After

\* The oldest key is one of those asked about.
LEMMA OldestIsOne ==
  ASSUME NEW s \in Sound, NEW ks \in SUBSET Key, ks # {},
         \A k \in ks : s.e[k].state # "empty"
  PROVE  Oldest(s, ks) \in ks
<1> DEFINE S == {n \in 1..Len(s.l) : s.l[n] \in ks}
<1>1. s.l \in Seq(Key) /\ Len(s.l) \in Nat /\ DOMAIN s.l = 1..Len(s.l)
  BY LenProperties DEF Sound, CacheState
<1>2. S # {} /\ S \subseteq Nat
  BY <1>1 DEF Sound, In
<1>3. PICK n \in S : \A m \in S : n <= m
  BY <1>2, W!LeastElement
<1>4. n \in DOMAIN s.l /\ s.l[n] \in ks /\ \A m \in 1..(n - 1) : s.l[m] \notin ks
  BY <1>1, <1>3
<1> QED BY <1>4 DEF Oldest

\* The victim of an eviction round is not in flight.
LEMMA VictimFacts ==
  ASSUME NEW s \in Sound, NEW size
  PROVE  \A k \in Victim(s, size) : k \in Key /\ ~ s.e[k].inflight
<1>1. ASSUME NEW n PROVE /\ Evictable(s, n) \in SUBSET Key
                         /\ \A k \in Evictable(s, n) : s.e[k].state # "empty" /\ ~ s.e[k].inflight
  BY DEF Evictable
<1>2. ASSUME NEW n, Evictable(s, n) # {} PROVE Oldest(s, Evictable(s, n)) \in Evictable(s, n)
  BY <1>1, <1>2, OldestIsOne
<1> QED BY <1>1, <1>2 DEF Victim

-----------------------------------------------------------------------------
(***************************************************************************)
(* Making room: the eviction loops, and a slot for a new entry.            *)
(***************************************************************************)

\* One round of an eviction loop, from any of the caches of ts.
Round(ts, size) == {Drop(t, Victim(t, size)) : t \in ts}
R == INSTANCE Iteration WITH op <- Round

\* A round takes an entry that is not in flight.
LEMMA RoundAfter ==
  ASSUME NEW s, NEW ts \in SUBSET After(s), NEW size
  PROVE  Round(ts, size) \in SUBSET After(s)
<1> SUFFICES ASSUME NEW t \in ts PROVE Drop(t, Victim(t, size)) \in After(s)
  BY DEF Round
<1>1. t \in Sound
  BY DEF After
<1>2. Drop(t, Victim(t, size)) \in After(t)
  BY <1>1, VictimFacts, DropAfter
<1> QED BY <1>2, AfterAfter

\* Whatever number of rounds is taken.
LEMMA EvictRoundsAfter ==
  ASSUME NEW s \in Sound, NEW size, NEW t \in EvictRounds(s, size)
  PROVE  t \in After(s)
<1> DEFINE n == Cardinality(Key)
           seq == [d \in 1..n |-> size]
           Is(g) == g = [d \in 0..n |-> IF d = 0 THEN {s}
                            ELSE {Drop(x, Victim(x, size)) : x \in g[d - 1]}]
           f == CHOOSE g : Is(g)
           G == Nat \X SUBSET After(s)
<1>1. n \in Nat
  BY PipelineAssumption, FS_CardinalityType
<1>2. ASSUME NEW g PROVE R!Iterates(g, {s}, seq, n) <=> Is(g)
  <2>1. ASSUME NEW d \in 0..n
        PROVE (IF d = 0 THEN {s} ELSE Round(g[d - 1], seq[d]))
                 = IF d = 0 THEN {s} ELSE {Drop(x, Victim(x, size)) : x \in g[d - 1]}
    <3>1. CASE d = 0
      BY <3>1
    <3>2. CASE d # 0
      <4>1. seq[d] = size
        BY <1>1, <3>2
      <4> HIDE DEF seq
      <4> QED BY <3>2, <4>1 DEF Round
    <3> QED BY <3>1, <3>2
  <2> QED BY <2>1 DEF R!Iterates
<1>3. R!Iterates(f, {s}, seq, n)
  <2>1. \E g : R!Iterates(g, {s}, seq, n)
    BY <1>1, R!IterationExists
  <2> QED BY <1>2, <2>1
<1>4. PICK d \in 0..n : t \in f[d]
  BY DEF EvictRounds
<1>5. <<0, {s}>> \in G
  BY AfterItself
<1>6. ASSUME NEW other \in 1..n, NEW x, <<other - 1, x>> \in G
      PROVE  <<other, Round(x, seq[other])>> \in G
  BY <1>1, <1>6, RoundAfter
<1>7. \A other \in 0..n : <<other, f[other]>> \in G
  <2> HIDE DEF G, seq, f, n
  <2> QED BY <1>1, <1>3, <1>5, <1>6, R!IterationKeeps
<1>8. <<d, f[d]>> \in G
  BY <1>7
<1> HIDE DEF f
<1> QED BY <1>4, <1>8

\* A slot is freed at the cost of entries that are not in flight.
LEMMA MakeRoomAfter ==
  ASSUME NEW s \in Sound
  PROVE  MakeRoom(s) \in After(s)
<1>1. ASSUME NEW rest PROVE /\ Droppable(s, rest) \in SUBSET Key
                         /\ \A k \in Droppable(s, rest) : s.e[k].state # "empty" /\ ~ s.e[k].inflight
  BY DEF Droppable
<1>2. ASSUME NEW rest, Droppable(s, rest) # {}
      PROVE  Drop(s, {Oldest(s, Droppable(s, rest))}) \in After(s)
  <2>1. Oldest(s, Droppable(s, rest)) \in Droppable(s, rest)
    BY <1>1, <1>2, OldestIsOne
  <2> QED BY <1>1, <2>1, DropAfter
<1>3. Drop(s, Victim(s, 0)) \in After(s)
  BY VictimFacts, DropAfter
<1> QED BY <1>2, <1>3, AfterItself DEF MakeRoom

-----------------------------------------------------------------------------
(***************************************************************************)
(* Lookups and marks: of one image, and of all the images of a list.       *)
(***************************************************************************)
M == INSTANCE Iteration WITH op <- GetOrMarkPending
L == INSTANCE Iteration WITH op <- FindDone

\* A lookup touches at most.
LEMMA FindDoneAfter ==
  ASSUME NEW s, NEW t \in After(s), NEW k \in Key
  PROVE  FindDone(t, k) \in After(s)
<1>1. t \in Sound
  BY DEF After
<1>2. FindDone(t, k) \in After(t)
  BY <1>1, TouchAfter, AfterItself DEF FindDone
<1> QED BY <1>2, AfterAfter

\* A new entry is pending and not in flight.
LEMMA NewEntryIs ==
  NewEntry \in Entry /\ NewEntry.state = "pending" /\ NewEntry.inflight = FALSE
<1>1. 0 \in 0..MaxFailures
  BY PipelineAssumption
<1>2. EmptyEntry \in Entry
  BY <1>1 DEF EmptyEntry, Entry, Kind
<1>3. NewEntry \in Entry
  BY <1>2 DEF NewEntry, Entry
<1>4. NewEntry.state = "pending" /\ NewEntry.inflight = FALSE
  BY DEF NewEntry, EmptyEntry
<1> QED BY <1>3, <1>4

\* Replacing the entry of k by a used one, and touching it.
LEMMA PutFacts ==
  ASSUME NEW s \in Sound, NEW k \in Key, NEW f \in Entry, f.state # "empty"
  PROVE  LET t == Touch([s EXCEPT !.e[k] = f], k)
         IN  t \in Sound /\ t.e = [s.e EXCEPT ![k] = f]
<1> DEFINE r == [s EXCEPT !.e[k] = f]
<1>1. s \in CacheState /\ s.e \in [Key -> Entry]
  BY DEF Sound, CacheState
<1>2. r = [e |-> [s.e EXCEPT ![k] = f], l |-> s.l]
  BY <1>1 DEF CacheState
<1>3. r \in SoundBut(k)
  <2>1. r \in CacheState
    BY <1>1, <1>2 DEF CacheState
  <2>2. \A other \in Key : r.e[other] = IF other = k THEN f ELSE s.e[other]
    BY <1>1, <1>2
  <2> QED BY <1>2, <2>1, <2>2 DEF SoundBut, Sound
<1> HIDE DEF r
<1>4. Touch(r, k) \in Sound /\ Touch(r, k).e = r.e
  BY <1>3, TouchFacts
<1> QED BY <1>2, <1>4 DEF r

\* img_cache_get_or_mark_pending, the slot it may have to free included.
LEMMA MarkAfter ==
  ASSUME NEW s, NEW t \in After(s), NEW k \in Key
  PROVE  GetOrMarkPending(t, k) \in After(s)
<1>1. t \in Sound /\ t \in CacheState /\ t.e \in [Key -> Entry]
  BY DEF After, Sound, CacheState
<1>2. GetOrMarkPending(t, k) \in After(t)
  <2>1. CASE t.e[k].state # "empty"
    <3> DEFINE f == [t.e[k] EXCEPT !.want = TRUE, !.cur = TRUE]
    <3>1. f \in Entry /\ f.state = t.e[k].state
      BY <1>1 DEF Entry
    <3>2. GetOrMarkPending(t, k) = Touch([t EXCEPT !.e[k] = f], k)
      <4>1. [t EXCEPT !.e[k].want = TRUE, !.e[k].cur = TRUE] = [t EXCEPT !.e[k] = f]
        BY <1>1 DEF CacheState
      <4> QED BY <2>1, <4>1 DEF GetOrMarkPending
    <3>3. Spares(t.e[k], f)
      <4>1. PICK e \in Entry : e = t.e[k]
        BY <1>1
      <4>2. f = [e EXCEPT !.want = TRUE, !.cur = TRUE]
        BY <4>1
      <4> HIDE DEF f
      <4>3. f \in Entry /\ f.inflight = e.inflight /\ f.state = e.state /\ f.kind = e.kind
            /\ f.fetchFailures = e.fetchFailures /\ f.cur /\ f.want
        BY <4>2 DEF Entry
      <4>4. e.state # "empty" /\ e # EmptyEntry
        BY <2>1, <4>1 DEF EmptyEntry
      <4>5. e = NewEntry => f = NewEntry
        BY <4>2 DEF NewEntry, EmptyEntry
      <4>6. Settled(e) => Settled(f)
        BY <4>3, <4>4, <4>5 DEF Settled
      <4> QED BY <4>1, <4>3, <4>6 DEF Spares
    <3> HIDE DEF f
    <3> QED BY <1>1, <2>1, <3>1, <3>2, <3>3, PutFacts, AfterItself DEF After
  <2>2. CASE t.e[k].state = "empty"
    <3> DEFINE r == MakeRoom(t)
    <3>1. r \in After(t) /\ r \in Sound
      BY <1>1, MakeRoomAfter DEF After
    <3>2. CASE Len(r.l) < MaxEntries
      <4>1. NewEntry \in Entry /\ NewEntry.state = "pending" /\ NewEntry.inflight = FALSE
        BY NewEntryIs
      <4>2. GetOrMarkPending(t, k) = Touch([r EXCEPT !.e[k] = NewEntry], k)
        BY <2>2, <3>2 DEF GetOrMarkPending
      <4>3. t.e[k].inflight = FALSE
        BY <1>1, <2>2 DEF Sound, Entry
      <4>4. Spares(t.e[k], NewEntry)
        BY <4>1, <4>3 DEF Spares, Settled
      <4> HIDE DEF r
      <4>5. r.e \in [Key -> Entry]
        BY <3>1 DEF Sound, CacheState
      <4> DEFINE u == Touch([r EXCEPT !.e[k] = NewEntry], k)
      <4>6. u \in Sound /\ u.e = [r.e EXCEPT ![k] = NewEntry]
        BY <3>1, <4>1, PutFacts
      <4>7. \A other \in Key : u.e[other] = IF other = k THEN NewEntry ELSE r.e[other]
        BY <4>5, <4>6
      <4> HIDE DEF u
      <4>8. \A other \in Key : Spares(t.e[other], u.e[other])
        BY <3>1, <4>4, <4>7 DEF After
      <4>9. u \in After(t)
        BY <4>6, <4>8 DEF After
      <4> QED BY <4>2, <4>9 DEF u
    <3>3. CASE ~ (Len(r.l) < MaxEntries)
      BY <2>2, <3>1, <3>3 DEF GetOrMarkPending
    <3> QED BY <3>2, <3>3
  <2> QED BY <2>1, <2>2
<1> QED BY <1>2, AfterAfter

\* prefetch_page_images and the display of a window.
LEMMA MarkAllAfter ==
  ASSUME NEW s \in Sound, NEW ks \in Seq(Key)
  PROVE  MarkAll(s, ks) \in After(s)
<1>1. M!Fold(s, ks) = MarkAll(s, ks)
  BY DEF M!Fold, MarkAll, FoldLeft, MapThenFoldSet, Max, M!Largest
<1>2. M!Fold(s, ks) \in After(s)
  BY AfterItself, MarkAfter, M!FoldKeeps
<1> QED BY <1>1, <1>2

\* The lookups of the text extraction.
LEMMA LookupAllAfter ==
  ASSUME NEW s \in Sound, NEW ks \in Seq(Key)
  PROVE  LookupAll(s, ks) \in After(s)
<1>1. L!Fold(s, ks) = LookupAll(s, ks)
  BY DEF L!Fold, LookupAll, FoldLeft, MapThenFoldSet, Max, L!Largest
<1>2. L!Fold(s, ks) \in After(s)
  BY AfterItself, FindDoneAfter, L!FoldKeeps
<1> QED BY <1>1, <1>2

-----------------------------------------------------------------------------
(***************************************************************************)
(* The inductive invariant.                                                *)
(***************************************************************************)
\* An entry in flight has not been given up: it waits for its first result, or
\* for its pixels.
InflightOpen ==
    \A k \in Key : cache[k].inflight =>
        \/ cache[k].state = "pending"
        \/ cache[k].state = "done" /\ cache[k].kind = "small"

SlotsOK ==
    /\ shm \in [Worker -> [state : {"idle", "req", "done"},
                           key : Key \cup {NoKey}, ok : BOOLEAN,
                           kind : Kind, pix : 0..Size("large")]]
    /\ \A n \in Worker : shm[n].state # "idle" => shm[n].key \in Key

\* A worker at work has a request in its slot.
BusyHasJob ==
    /\ proc \in [Worker -> {"none", "idle", "busy"}]
    /\ \A n \in Worker : proc[n] = "busy" => shm[n].state = "req"

IInv ==
    /\ Here \in Sound
    /\ page \in Seq(Key)
    /\ SlotsOK
    /\ BusyHasJob
    /\ InflightIffOneJob
    /\ JobsAreForThisPage
    /\ InflightOpen

\* What a sound cache means for the two variables.
LEMMA SoundNow ==
  ASSUME Here \in Sound
  PROVE  /\ cache \in [Key -> Entry] /\ lru \in Seq(Key)
         /\ \A k \in Key : cache[k].state # "empty" => In(k, lru)
         /\ \A k \in Key : cache[k].inflight => cache[k].state # "empty"
<1>1. Here.e = cache /\ Here.l = lru
  BY DEF Here
<1> QED BY <1>1 DEF Sound, CacheState

\* The cache after a step that makes it t.
LEMMA SoundNext ==
  ASSUME NEW t \in Sound, Become(t)
  PROVE  (Here \in Sound)' /\ cache' = t.e
<1>1. cache' = t.e /\ lru' = t.l
  BY DEF Become
<1>2. t = [e |-> t.e, l |-> t.l]
  BY DEF Sound, CacheState
<1>3. Here' = t
  BY <1>1, <1>2 DEF Here
<1> QED BY <1>1, <1>3 DEF Sound, CacheState, In

\* A step of the browser that collects and dispatches nothing.
LEMMA QuietKeeps ==
  ASSUME IInv, NEW t \in After(Here), Become(t), shm' = shm, proc' = proc, page' \in Seq(Key)
  PROVE  IInv'
<1>1. t \in Sound /\ \A k \in Key : Spares(cache[k], t.e[k])
  BY DEF After, Here
<1>2. (Here \in Sound)' /\ cache' = t.e
  BY <1>1, SoundNext
<1>3. \A k \in Key : Spares(cache[k], cache'[k])
  BY <1>1, <1>2
<1>4. SlotsOK' /\ BusyHasJob'
  BY DEF IInv, SlotsOK, BusyHasJob
<1>5. \A n \in Worker, k \in Key : HasJob(n, k)' <=> HasJob(n, k)
  BY DEF HasJob
<1>6. InflightIffOneJob'
  BY <1>3, <1>5 DEF IInv, InflightIffOneJob, Spares
<1>7. JobsAreForThisPage'
  BY <1>3, <1>5 DEF IInv, InflightIffOneJob, JobsAreForThisPage, Spares
<1>8. InflightOpen'
  BY <1>3 DEF IInv, InflightOpen, Spares
<1> QED BY <1>2, <1>4, <1>6, <1>7, <1>8 DEF IInv

\* Such a step leaves what was given up given up, or forgets it.
LEMMA QuietForgets ==
  ASSUME NEW t \in After(Here), Become(t), NEW k \in Key, GivenUp(k)
  PROVE  Settled(cache'[k])
<1>1. Spares(cache[k], t.e[k]) /\ cache' = t.e
  BY DEF After, Here, Become
<1>2. Settled(cache[k])
  BY DEF GivenUp, Settled
<1> QED BY <1>1, <1>2 DEF Spares

\* The collecting of slot n, whose job was for k.
LEMMA CollectKeeps ==
  ASSUME IInv, NEW n \in Worker, NEW k \in Key, HasJob(n, k), shm[n].state = "done",
         NEW t \in Sound, Become(t), ~ t.e[k].inflight,
         \A other \in Key : other # k => Spares(cache[other], t.e[other]),
         shm' = [shm EXCEPT ![n] = IdleSlot], proc' = proc, page' = page
  PROVE  IInv'
<1>2. (Here \in Sound)' /\ cache' = t.e
  BY SoundNext
<1>3. \A other \in Key : other # k => Spares(cache[other], cache'[other])
  BY <1>2
<1>4. SlotsOK' /\ BusyHasJob'
  <2>1. IdleSlot \in [state : {"idle", "req", "done"}, key : Key \cup {NoKey},
                       ok : BOOLEAN, kind : Kind, pix : 0..Size("large")]
    BY DEF IdleSlot, Kind, Size
  <2>2. IdleSlot.state = "idle"
    BY DEF IdleSlot
  <2> HIDE DEF IdleSlot
  <2>3. SlotsOK'
    BY <2>1, <2>2 DEF IInv, SlotsOK
  <2>4. BusyHasJob'
    BY DEF IInv, SlotsOK, BusyHasJob
  <2> QED BY <2>3, <2>4
<1>5. \A m \in Worker, other \in Key : HasJob(m, other)' <=> HasJob(m, other) /\ m # n
  <2>1. \A m \in Worker : shm'[m] = IF m = n THEN IdleSlot ELSE shm[m]
    BY DEF IInv, SlotsOK
  <2>2. IdleSlot.state = "idle"
    BY DEF IdleSlot
  <2> QED BY <2>1, <2>2 DEF HasJob
<1>6. \A m \in Worker, other \in Key : HasJob(m, other) /\ m # n => other # k
  BY DEF IInv, InflightIffOneJob
<1>6a. \A m \in Worker, other \in Key : HasJob(m, other) /\ other # k => m # n
  BY DEF HasJob
<1>7. InflightIffOneJob'
  BY <1>2, <1>3, <1>5, <1>6, <1>6a DEF IInv, InflightIffOneJob, Spares
<1>8. JobsAreForThisPage'
  BY <1>3, <1>5, <1>6 DEF IInv, InflightIffOneJob, JobsAreForThisPage, Spares
<1>9. InflightOpen'
  BY <1>2, <1>3 DEF IInv, InflightOpen, Spares
<1> QED BY <1>2, <1>4, <1>7, <1>8, <1>9 DEF IInv

-----------------------------------------------------------------------------
(***************************************************************************)
(* What the steps do to the cache.                                         *)
(***************************************************************************)

\* Changing a used entry, without touching it.
LEMMA AlterFacts ==
  ASSUME NEW s \in Sound, NEW k \in Key, s.e[k].state # "empty",
         NEW f \in Entry, f.state # "empty"
  PROVE  LET t == [s EXCEPT !.e[k] = f]
         IN  t \in Sound /\ t.e = [s.e EXCEPT ![k] = f]
<1> DEFINE t == [s EXCEPT !.e[k] = f]
<1>1. s \in CacheState /\ s.e \in [Key -> Entry]
  BY DEF Sound, CacheState
<1>2. t = [e |-> [s.e EXCEPT ![k] = f], l |-> s.l]
  BY <1>1 DEF CacheState
<1>3. t \in CacheState
  BY <1>1, <1>2 DEF CacheState
<1>4. \A other \in Key : t.e[other] = IF other = k THEN f ELSE s.e[other]
  BY <1>1, <1>2
<1>5. t \in Sound
  <2>1. t.l = s.l
    BY <1>2
  <2> HIDE DEF t
  <2> QED BY <1>3, <1>4, <2>1 DEF Sound
<1>6. t.e = [s.e EXCEPT ![k] = f]
  BY <1>2
<1> QED BY <1>5, <1>6

\* Finishing the entry f of k.
LEMMA FinishFacts ==
  ASSUME NEW s \in Sound, NEW k \in Key, NEW f \in Entry,
         NEW x, x = [s EXCEPT !.e[k] = f]
  PROVE  LET t == Finished(x, k)
         IN  /\ t \in Sound
             /\ ~ t.e[k].inflight
             /\ \A other \in Key : other # k => t.e[other] = s.e[other]
<1> DEFINE h == [f EXCEPT !.state = "done", !.inflight = FALSE]
           t == Touch([s EXCEPT !.e[k] = h], k)
<1>1. s \in CacheState /\ s.e \in [Key -> Entry]
  BY DEF Sound, CacheState
<1>2. h \in Entry /\ h.state = "done" /\ h.inflight = FALSE
  BY DEF Entry
<1>3. [x EXCEPT !.e[k].state = "done", !.e[k].inflight = FALSE] = [s EXCEPT !.e[k] = h]
  BY <1>1 DEF CacheState
<1>4. Finished(x, k) = t
  BY <1>3 DEF Finished
<1> HIDE DEF h
<1>5. t \in Sound /\ t.e = [s.e EXCEPT ![k] = h]
  BY <1>2, PutFacts
<1> HIDE DEF t
<1> QED BY <1>1, <1>2, <1>4, <1>5

\* What collecting a result for k makes of the cache.
CollectsTo(k, t) ==
    /\ t \in Sound
    /\ ~ t.e[k].inflight
    /\ \A other \in Key : other # k => Spares(cache[other], t.e[other])

\* The three ways a result is given to the entry of k: it is out of flight, and
\* the others are spared.  First a failure,
LEMMA FailedCollects ==
  ASSUME Here \in Sound, NEW k \in Key, cache[k].state # "empty", FailedResult(k)
  PROVE  \E t : Become(t) /\ CollectsTo(k, t)
<1> DEFINE n == IF cache[k].fetchFailures < MaxFailures
                THEN cache[k].fetchFailures + 1 ELSE MaxFailures
           f == [cache[k] EXCEPT !.inflight = FALSE, !.fetchFailures = n,
                                 !.state = IF n = MaxFailures THEN "done" ELSE "pending",
                                 !.want = IF n = MaxFailures THEN FALSE ELSE @]
           t == [Here EXCEPT !.e[k] = f]
<1>1. cache \in [Key -> Entry]
  BY SoundNow
<1>2. f \in Entry /\ f.state # "empty" /\ ~ f.inflight
  <2>1. n \in 0..MaxFailures
    BY <1>1, PipelineAssumption DEF Entry
  <2> HIDE DEF n
  <2> QED BY <1>1, <2>1 DEF Entry
<1>3. cache' = [cache EXCEPT ![k] = f] /\ lru' = lru
  BY DEF FailedResult
<1>4. Here.e = cache /\ Here.l = lru
  BY DEF Here
<1> HIDE DEF f
<1>5. t \in Sound /\ t.e = [cache EXCEPT ![k] = f] /\ t.l = lru
  BY <1>2, <1>4, AlterFacts DEF Here
<1> HIDE DEF t
<1>6. Become(t)
  BY <1>3, <1>5 DEF Become
<1>7. CollectsTo(k, t)
  BY <1>1, <1>2, <1>5 DEF CollectsTo, Spares
<1> QED BY <1>6, <1>7

\* storing the format and dimensions,
LEMMA StoredFacts ==
  ASSUME Here \in Sound, NEW k \in Key, cache[k].state # "empty",
         NEW r, r.kind \in Kind
  PROVE  LET f == [cache[k] EXCEPT !.fetchFailures = 0, !.kind = r.kind]
         IN  /\ f \in Entry /\ f.state # "empty"
             /\ Stored(k, r) = [Here EXCEPT !.e[k] = f]
<1>1. cache \in [Key -> Entry] /\ Here.e = cache /\ Here \in CacheState
  BY SoundNow DEF Here, Sound
<1>2. 0 \in 0..MaxFailures
  BY PipelineAssumption
<1> DEFINE f == [cache[k] EXCEPT !.fetchFailures = 0, !.kind = r.kind]
<1>3. f \in Entry /\ f.state # "empty"
  BY <1>1, <1>2 DEF Entry
<1>4. Stored(k, r) = [Here EXCEPT !.e[k] = f]
  BY <1>1 DEF Stored, CacheState
<1> QED BY <1>3, <1>4

\* then a result with pixels, for which others may be evicted,
LEMMA PixelCollects ==
  ASSUME Here \in Sound, NEW k \in Key, cache[k].state # "empty",
         NEW r, r.kind \in Kind, r.pix \in Nat, PixelResult(k, r)
  PROVE  \E t : Become(t) /\ CollectsTo(k, t)
<1> DEFINE f == [cache[k] EXCEPT !.fetchFailures = 0, !.kind = r.kind]
           g == [f EXCEPT !.pix = 0]
           s == [Stored(k, r) EXCEPT !.e[k].pix = 0]
<1>1. cache \in [Key -> Entry] /\ Here.e = cache /\ Here \in CacheState
  BY SoundNow DEF Here, Sound
<1>2. f \in Entry /\ f.state # "empty" /\ Stored(k, r) = [Here EXCEPT !.e[k] = f]
  BY StoredFacts
<1> HIDE DEF f
<1>3. g \in Entry /\ g.state # "empty"
  BY <1>2 DEF Entry
<1>4. s = [Here EXCEPT !.e[k] = g]
  BY <1>1, <1>2 DEF CacheState
<1> HIDE DEF g
<1>5. s \in Sound /\ s.e = [cache EXCEPT ![k] = g]
  <2> HIDE DEF s
  <2>1. PICK h : h = Here
    OBVIOUS
  <2>2. h \in Sound /\ h.e[k].state # "empty" /\ h.e = cache /\ s = [h EXCEPT !.e[k] = g]
    BY <1>1, <1>4, <2>1
  <2> QED BY <1>3, <2>2, AlterFacts
<1>6. \A other \in Key : other # k => s.e[other] = cache[other]
  BY <1>1, <1>5
<1>7. ASSUME NEW size, NEW t \in EvictRounds(s, size)
      PROVE  /\ t \in Sound /\ t.e[k] \in Entry /\ t \in CacheState
             /\ \A other \in Key : other # k => Spares(cache[other], t.e[other])
  <2> HIDE DEF s
  <2>1. t \in After(s)
    BY <1>5, <1>7, EvictRoundsAfter
  <2> QED BY <1>6, <2>1 DEF After, Sound, CacheState
<1>8. PixelResult(k, r) =>
         \/ \E t \in EvictRounds(s, r.pix) :
                Become(Finished([t EXCEPT !.e[k].pix = r.pix, !.e[k].pixFailures = 0], k))
         \/ \E t \in EvictRounds(s, r.pix) : Become(Finished(t, k))
  BY DEF PixelResult, Allocated, Exhausted
<1> HIDE DEF s
<1>9. ASSUME NEW t \in EvictRounds(s, r.pix), Become(Finished(t, k))
      PROVE  \E u : Become(u) /\ CollectsTo(k, u)
  <2>1. t = [t EXCEPT !.e[k] = t.e[k]]
    BY <1>7 DEF CacheState
  <2> QED BY <1>7, <1>9, <2>1, FinishFacts DEF CollectsTo
<1>10. ASSUME NEW t \in EvictRounds(s, r.pix),
              Become(Finished([t EXCEPT !.e[k].pix = r.pix, !.e[k].pixFailures = 0], k))
       PROVE  \E u : Become(u) /\ CollectsTo(k, u)
  <2> DEFINE h == [t.e[k] EXCEPT !.pix = r.pix, !.pixFailures = 0]
             x == [t EXCEPT !.e[k].pix = r.pix, !.e[k].pixFailures = 0]
  <2>1. 0 \in 0..MaxFailures
    BY PipelineAssumption
  <2>2. h \in Entry
    <3>1. PICK e \in Entry : e = t.e[k]
      BY <1>7
    <3>2. h = [e EXCEPT !.pix = r.pix, !.pixFailures = 0]
      BY <3>1
    <3> HIDE DEF h
    <3> QED BY <2>1, <3>2 DEF Entry
  <2>3. x = [t EXCEPT !.e[k] = h]
    BY <1>7 DEF CacheState
  <2> HIDE DEF h, x
  <2>4. Become(Finished(x, k))
    BY <1>10 DEF x
  <2> QED BY <1>7, <2>2, <2>3, <2>4, FinishFacts DEF CollectsTo
<1> QED BY <1>8, <1>9, <1>10

\* and a result without.
LEMMA BareCollects ==
  ASSUME Here \in Sound, NEW k \in Key, cache[k].state # "empty",
         NEW r, r.kind \in Kind, BareResult(k, r)
  PROVE  \E t : Become(t) /\ CollectsTo(k, t)
<1> DEFINE f == [cache[k] EXCEPT !.fetchFailures = 0, !.kind = r.kind]
           s == Stored(k, r)
           isCur == s.e[k].cur /\ s.e[k].want
           huge == isCur /\ r.kind = "huge" /\ s.e[k].pix = 0
           small == isCur /\ r.kind = "small" /\ s.e[k].pix = 0
           n == IF small /\ s.e[k].pixFailures < MaxFailures
                THEN s.e[k].pixFailures + 1 ELSE s.e[k].pixFailures
           stop == huge \/ r.kind = "none" \/ (small /\ n = MaxFailures)
           x == [s EXCEPT !.e[k].pixFailures = n, !.e[k].want = @ /\ ~stop]
           g == [f EXCEPT !.pixFailures = n, !.want = @ /\ ~stop]
<1>1. cache \in [Key -> Entry] /\ Here.e = cache /\ Here \in CacheState
  BY SoundNow DEF Here, Sound
<1>2. f \in Entry /\ f.state # "empty" /\ s = [Here EXCEPT !.e[k] = f]
  BY StoredFacts
<1>3. Become(Finished(x, k))
  BY DEF BareResult
<1> HIDE DEF f, s
<1>4. s.e[k] = f /\ s \in CacheState
  BY <1>1, <1>2 DEF CacheState
<1>5. n \in 0..MaxFailures
  BY <1>2, <1>4, PipelineAssumption DEF Entry
<1> HIDE DEF n
<1>6. (f.want /\ ~stop) \in BOOLEAN
  OBVIOUS
<1> HIDE DEF stop
<1>7. g \in Entry
  BY <1>2, <1>5, <1>6 DEF Entry
<1>8. x = [Here EXCEPT !.e[k] = g]
  BY <1>1, <1>2, <1>4 DEF CacheState
<1> HIDE DEF x, g
<1>9. LET t == Finished(x, k)
      IN  t \in Sound /\ ~ t.e[k].inflight /\ \A other \in Key : other # k => t.e[other] = cache[other]
  BY <1>1, <1>7, <1>8, FinishFacts
<1> QED BY <1>3, <1>9 DEF CollectsTo, Spares

\* img_workers_pump takes one result.
LEMMA CollectOneKeeps ==
  ASSUME IInv, CollectOne
  PROVE  /\ IInv'
         /\ \A k \in Key : GivenUp(k) => Settled(cache[k])'
<1>1. PICK n \in Worker :
        /\ shm[n].state = "done"
        /\ LET k == shm[n].key
               r == shm[n]
           IN  IF cache[k].state = "empty" THEN UNCHANGED <<cache, lru, dirty>>
               ELSE IF ~r.ok THEN FailedResult(k)
               ELSE IF cache[k].cur /\ cache[k].want /\ r.pix > 0
                    THEN PixelResult(k, r)
               ELSE BareResult(k, r)
        /\ shm' = [shm EXCEPT ![n] = IdleSlot]
  BY DEF CollectOne, NextIn
<1>2. PICK k : k = shm[n].key
  OBVIOUS
<1>3. k \in Key /\ HasJob(n, k)
  BY <1>1, <1>2 DEF IInv, SlotsOK, HasJob
<1>4. cache[k].inflight /\ cache[k].state # "empty" /\ Here \in Sound
  BY <1>3, SoundNow DEF IInv, InflightIffOneJob
<1>5. shm[n].kind \in Kind /\ shm[n].pix \in Nat
  BY DEF IInv, SlotsOK, Size
<1>6. FailedResult(k) \/ PixelResult(k, shm[n]) \/ BareResult(k, shm[n])
  BY <1>1, <1>2, <1>4
<1>7. PICK t : Become(t) /\ CollectsTo(k, t)
  BY <1>3, <1>4, <1>5, <1>6, FailedCollects, PixelCollects, BareCollects
<1>8. t \in Sound /\ ~ t.e[k].inflight /\ \A other \in Key : other # k => Spares(cache[other], t.e[other])
  BY <1>7 DEF CollectsTo
<1>9. IInv'
  BY <1>1, <1>3, <1>7, <1>8, CollectKeeps DEF CollectOne
<1>10. ASSUME NEW other \in Key, GivenUp(other) PROVE Settled(cache'[other])
  <2>1. other # k
    BY <1>4, <1>10 DEF IInv, InflightOpen, GivenUp
  <2>2. Spares(cache[other], cache'[other])
    BY <1>7, <1>8, <2>1, SoundNext
  <2> QED BY <1>10, <2>2 DEF Spares, Settled, GivenUp
<1> QED BY <1>9, <1>10

\* A page is a sequence of keys, and so is a window of it.
LEMMA PagesAreSeqs == Pages \subseteq Seq(Key)
<1> SUFFICES ASSUME NEW ks \in SUBSET Key, NEW p \in SetToSeqs(ks) PROVE p \in Seq(Key)
  BY DEF Pages
<1>1. Cardinality(ks) \in Nat
  BY PipelineAssumption, FS_Subset, FS_CardinalityType
<1>2. p \in [1..Cardinality(ks) -> Key]
  BY DEF SetToSeqs
<1> QED BY <1>1, <1>2

\* A window of the page is a sequence of keys.
LEMMA ShownAreSeqs ==
  ASSUME page \in Seq(Key), NEW ks \in Shown
  PROVE  ks \in Seq(Key)
<1>1. PICK a \in 1..(Len(page) + 1), b \in 0..Len(page) : ks = SubSeq(page, a, b)
  BY DEF Shown
<1>2. Len(page) \in Nat /\ a \in Int /\ b \in Int /\ \A d \in a..b : page[d] \in Key
  BY LenProperties, ElementOfSeq
<1> QED BY <1>1, <1>2, SubSeqProperties

\* A repaint of a window, after whatever t came of.
LEMMA ShowKeeps ==
  ASSUME IInv, NEW t \in After(Here),
         \E ks \in Shown : Become(MarkAll(t, ks)), shm' = shm, proc' = proc, page' = page
  PROVE  /\ IInv'
         /\ \A k \in Key : GivenUp(k) => Settled(cache[k])'
<1>1. PICK ks \in Shown : Become(MarkAll(t, ks))
  OBVIOUS
<1>2. page \in Seq(Key) /\ t \in Sound
  BY DEF IInv, After
<1>3. MarkAll(t, ks) \in After(Here)
  BY <1>2, ShownAreSeqs, MarkAllAfter, AfterAfter
<1> QED BY <1>1, <1>2, <1>3, QuietKeeps, QuietForgets

\* A new page.
LEMMA NavigateKeeps ==
  ASSUME IInv, Navigate
  PROVE  /\ IInv'
         /\ \A k \in Key : GivenUp(k) => Settled(cache[k])'
<1> DEFINE s == NewGeneration(Here)
           e == [k \in Key |-> [cache[k] EXCEPT !.inflight = FALSE, !.want = FALSE,
                                                !.cur = FALSE]]
<1>1. cache \in [Key -> Entry] /\ lru \in Seq(Key)
      /\ \A k \in Key : cache[k].state # "empty" => In(k, lru)
  BY SoundNow DEF IInv
<1>2. s = [e |-> e, l |-> lru]
  <2>1. Here.e = cache /\ Here = [e |-> cache, l |-> lru]
    BY DEF Here
  <2>2. s = [Here EXCEPT !.e = e]
    BY <2>1 DEF NewGeneration
  <2> HIDE DEF e, s
  <2> QED BY <2>1, <2>2
<1>3. ASSUME NEW k \in Key
      PROVE  /\ e[k] \in Entry /\ e[k].inflight = FALSE
             /\ e[k].state = cache[k].state /\ e[k].kind = cache[k].kind
             /\ e[k].fetchFailures = cache[k].fetchFailures
  BY <1>1 DEF Entry
<1> HIDE DEF e, s
<1>4. s \in Sound
  <2>1. e \in [Key -> Entry]
    BY <1>3 DEF e
  <2> QED BY <1>1, <1>2, <1>3, <2>1 DEF Sound, CacheState
<1>5. \E t \in After(s) : Become(t)
  <2>1. CASE NavigateFails
    BY <1>4, <2>1, AfterItself DEF NavigateFails, s
  <2>2. ASSUME NEW p \in Pages, NavigateTo(p) PROVE \E t \in After(s) : Become(t)
    <3>1. Become(MarkAll(LookupAll(s, p), p)) /\ p \in Seq(Key)
      BY <2>2, PagesAreSeqs DEF NavigateTo, s
    <3>2. LookupAll(s, p) \in After(s) /\ LookupAll(s, p) \in Sound
      BY <1>4, <3>1, LookupAllAfter DEF After
    <3>3. MarkAll(LookupAll(s, p), p) \in After(s)
      BY <3>1, <3>2, MarkAllAfter, AfterAfter
    <3> QED BY <3>1, <3>3
  <2> QED BY <2>1, <2>2 DEF Navigate
<1>6. PICK t \in After(s) : Become(t)
  BY <1>5
<1>7. t \in Sound /\ \A k \in Key : Spares(s.e[k], t.e[k])
  BY <1>6 DEF After
<1>8. (Here \in Sound)' /\ cache' = t.e
  BY <1>6, <1>7, SoundNext
<1>9. shm' = [n \in Worker |-> IdleSlot] /\ page' \in Seq(Key)
  <2>1. <<>> \in Seq(Key)
    BY EmptySeq
  <2>2. page' = <<>> \/ page' \in Pages
    BY DEF Navigate, NavigateFails, NavigateTo
  <2>3. page' \in Seq(Key)
    BY <2>1, <2>2, PagesAreSeqs
  <2>4. RestartWorkers
    BY DEF Navigate, NavigateFails, NavigateTo
  <2> QED BY <2>3, <2>4 DEF RestartWorkers
<1>10. \A n \in Worker : shm'[n] = IdleSlot
  BY <1>9
<1>11. IdleSlot.state = "idle" /\
       IdleSlot \in [state : {"idle", "req", "done"}, key : Key \cup {NoKey},
                     ok : BOOLEAN, kind : Kind, pix : 0..Size("large")]
  BY DEF IdleSlot, Kind, Size
<1> HIDE DEF IdleSlot
<1>12. SlotsOK' /\ \A n \in Worker, k \in Key : ~ HasJob(n, k)'
  BY <1>9, <1>10, <1>11 DEF SlotsOK, HasJob
<1>13. \A k \in Key : ~ cache'[k].inflight
  BY <1>2, <1>3, <1>7, <1>8 DEF Spares
<1>13a. BusyHasJob'
  <2>1. RestartWorkers
    BY DEF Navigate, NavigateFails, NavigateTo
  <2>2. PICK forked \in 0..NWorkers :
            proc' = [n \in Worker |-> IF n < forked THEN "idle" ELSE "none"]
    BY <2>1 DEF RestartWorkers
  <2> QED BY <2>2 DEF BusyHasJob
<1>14. IInv'
  BY <1>8, <1>9, <1>12, <1>13, <1>13a DEF IInv, InflightIffOneJob, JobsAreForThisPage, InflightOpen
<1>15. ASSUME NEW k \in Key, GivenUp(k) PROVE Settled(cache'[k])
  <2>1. Settled(s.e[k])
    BY <1>2, <1>3, <1>15 DEF GivenUp, Settled
  <2> QED BY <1>7, <1>8, <2>1 DEF Spares
<1> QED BY <1>14, <1>15

\* The newest key is one of those asked about.
LEMMA NewestIsOne ==
  ASSUME Here \in Sound, NEW ks \in SUBSET Key, ks # {},
         \A k \in ks : cache[k].state # "empty"
  PROVE  Newest(ks) \in ks
<1> DEFINE S == {d \in 0..Len(lru) : d < Len(lru) /\ lru[Len(lru) - d] \in ks}
<1>1. lru \in Seq(Key) /\ Len(lru) \in Nat /\ DOMAIN lru = 1..Len(lru)
  BY SoundNow, LenProperties
<1>2. PICK n \in 1..Len(lru) : lru[n] \in ks
  BY SoundNow DEF In
<1>3. Len(lru) - n \in 0..Len(lru) /\ Len(lru) - n < Len(lru)
      /\ Len(lru) - (Len(lru) - n) = n
  BY <1>1
<1>4. S # {} /\ S \subseteq Nat
  BY <1>1, <1>2, <1>3
<1>5. PICK d \in S : \A other \in S : d <= other
  BY <1>4, W!LeastElement
<1> DEFINE m == Len(lru) - d
<1>6. m \in 1..Len(lru) /\ lru[m] \in ks
  BY <1>1, <1>5
<1>7. ASSUME NEW other \in (m + 1)..Len(lru), lru[other] \in ks PROVE FALSE
  <2>1. Len(lru) - other \in 0..Len(lru) /\ Len(lru) - other < Len(lru)
        /\ Len(lru) - (Len(lru) - other) = other /\ ~ (d <= Len(lru) - other)
    BY <1>1, <1>5, <1>6
  <2>2. Len(lru) - other \in S
    BY <1>7, <2>1
  <2> QED BY <1>5, <2>1, <2>2
<1>8. m \in DOMAIN lru /\ lru[m] \in ks /\ \A other \in (m + 1)..Len(lru) : lru[other] \notin ks
  BY <1>1, <1>6, <1>7
<1> HIDE DEF m
<1> QED BY <1>8 DEF Newest

\* A job is given to an idle slot.
LEMMA DispatchKeeps ==
  ASSUME IInv, DispatchState
  PROVE  /\ IInv'
         /\ \A k \in Key : GivenUp(k) => Settled(cache[k])'
<1> DEFINE k == Newest(Eligible)
<1>1. PICK n \in Worker :
        /\ shm[n].state = "idle"
        /\ cache' = [cache EXCEPT ![k].inflight = TRUE]
        /\ shm' = [shm EXCEPT ![n].state = "req", ![n].key = k]
  BY DEF DispatchState, NextIn
<1>2. cache \in [Key -> Entry] /\ lru' = lru /\ page' = page /\ lru \in Seq(Key)
  BY SoundNow DEF DispatchState, IInv
<1>3. k \in Eligible
  <2>1. Eligible \in SUBSET Key /\ \A other \in Eligible : cache[other].state # "empty"
    BY DEF Eligible
  <2> QED BY <2>1, NewestIsOne DEF DispatchState, IInv
<1>4. k \in Key /\ ~ cache[k].inflight /\ cache[k].want /\ cache[k].cur
      /\ \/ cache[k].state = "pending"
         \/ cache[k].state = "done" /\ cache[k].kind = "small"
  BY <1>3 DEF Eligible
<1> HIDE DEF k
<1> DEFINE f == [cache[k] EXCEPT !.inflight = TRUE]
<1>5. f \in Entry /\ f.inflight /\ f.state = cache[k].state /\ f.kind = cache[k].kind
      /\ f.cur = cache[k].cur /\ f.want = cache[k].want
  BY <1>2, <1>4 DEF Entry
<1>6. cache' = [cache EXCEPT ![k] = f]
  BY <1>1
<1> HIDE DEF f
<1>7. cache' \in [Key -> Entry] /\ \A other \in Key : cache'[other] = IF other = k THEN f ELSE cache[other]
  BY <1>2, <1>4, <1>5, <1>6
<1>8. (Here \in Sound)'
  <2>1. Here' = [e |-> cache', l |-> lru']
    BY DEF Here
  <2>2. \A other \in Key : cache[other].state # "empty" => In(other, lru)
    BY SoundNow DEF IInv
  <2>3. \A other \in Key : cache[other].inflight => cache[other].state # "empty"
    BY SoundNow DEF IInv
  <2>4. /\ \A other \in Key : cache'[other].state # "empty" => In(other, lru')
        /\ \A other \in Key : cache'[other].inflight => cache'[other].state # "empty"
    BY <1>2, <1>4, <1>5, <1>7, <2>2, <2>3
  <2>5. Here' \in CacheState
    BY <1>2, <1>7, <2>1 DEF CacheState
  <2> QED BY <2>1, <2>4, <2>5, SoundIf
<1> DEFINE g == [shm[n] EXCEPT !.state = "req", !.key = k]
<1>9. g \in [state : {"idle", "req", "done"}, key : Key \cup {NoKey}, ok : BOOLEAN,
             kind : Kind, pix : 0..Size("large")]
      /\ g.state = "req" /\ g.key = k
  BY <1>4 DEF IInv, SlotsOK
<1>10. shm' = [shm EXCEPT ![n] = g]
  BY <1>1
<1> HIDE DEF g
<1>11. \A m \in Worker : shm'[m] = IF m = n THEN g ELSE shm[m]
  BY <1>10 DEF IInv, SlotsOK
<1>12. SlotsOK'
  BY <1>4, <1>9, <1>10, <1>11 DEF IInv, SlotsOK
<1>12a. BusyHasJob'
  BY <1>1, <1>11 DEF IInv, BusyHasJob, DispatchState
<1>13. \A m \in Worker, other \in Key : HasJob(m, other)' <=> HasJob(m, other) \/ (m = n /\ other = k)
  BY <1>1, <1>9, <1>11 DEF HasJob
<1>14. \A m \in Worker : ~ HasJob(m, k)
  BY <1>4 DEF IInv, InflightIffOneJob
<1>15. InflightIffOneJob'
  BY <1>4, <1>5, <1>7, <1>13, <1>14 DEF IInv, InflightIffOneJob
<1>16. JobsAreForThisPage'
  BY <1>4, <1>5, <1>7, <1>13 DEF IInv, JobsAreForThisPage
<1>17. InflightOpen'
  BY <1>4, <1>5, <1>7 DEF IInv, InflightOpen
<1>18. ASSUME NEW other \in Key, GivenUp(other) PROVE Settled(cache'[other])
  <2>1. other # k
    BY <1>4, <1>18 DEF GivenUp
  <2> QED BY <1>7, <1>18, <2>1 DEF GivenUp, Settled
<1>19. IInv'
  BY <1>2, <1>8, <1>12, <1>12a, <1>15, <1>16, <1>17 DEF IInv
<1> QED BY <1>18, <1>19

\* A step that leaves cache, page and the jobs of the slots alone.
LEMMA WorkKeeps ==
  ASSUME IInv, UNCHANGED <<cache, lru, page>>,
         SlotsOK', BusyHasJob',
         \A n \in Worker : (shm'[n].state = "idle" <=> shm[n].state = "idle")
                         /\ shm'[n].key = shm[n].key
  PROVE  /\ IInv'
         /\ \A k \in Key : GivenUp(k) => Settled(cache[k])'
<1>1. (Here \in Sound)'
  BY DEF IInv, Here, Sound, CacheState, In
<1>3. \A n \in Worker, k \in Key : HasJob(n, k)' <=> HasJob(n, k)
  BY DEF HasJob
<1>4. InflightIffOneJob' /\ JobsAreForThisPage' /\ InflightOpen'
  BY <1>3 DEF IInv, InflightIffOneJob, JobsAreForThisPage, InflightOpen
<1>5. IInv'
  BY <1>1, <1>4 DEF IInv
<1> QED BY <1>5 DEF GivenUp, Settled

\* The end of a job, and the other steps of a worker and of a dispatch.
LEMMA WorkersKeep ==
  ASSUME IInv,
         DispatchRc \/ \E n \in Worker : WorkerStart(n) \/ WorkerFinish(n) \/ WorkerDies(n)
  PROVE  /\ IInv'
         /\ \A k \in Key : GivenUp(k) => Settled(cache[k])'
<1> DEFINE JobSlot == [state : {"idle", "req", "done"}, key : Key \cup {NoKey},
                    ok : BOOLEAN, kind : Kind, pix : 0..Size("large")]
<1>1. shm \in [Worker -> JobSlot] /\ \A n \in Worker : shm[n].state # "idle" => shm[n].key \in Key
  BY DEF IInv, SlotsOK
<1>2. ASSUME NEW n \in Worker, NEW g \in JobSlot, g.key = shm[n].key,
             g.state = "idle" <=> shm[n].state = "idle",
             shm' = [shm EXCEPT ![n] = g], UNCHANGED <<cache, lru, page>>,
             BusyHasJob'
      PROVE  /\ IInv'
             /\ \A k \in Key : GivenUp(k) => Settled(cache[k])'
  <2>1. shm' \in [Worker -> JobSlot] /\ \A m \in Worker : shm'[m] = IF m = n THEN g ELSE shm[m]
    BY <1>1, <1>2
  <2>2. SlotsOK'
    BY <1>1, <1>2, <2>1 DEF SlotsOK
  <2> HIDE DEF JobSlot
  <2> QED BY <1>2, <2>1, <2>2, WorkKeeps
<1>3. CASE DispatchRc
  <2>1. shm' = [shm EXCEPT ![wi].ok = TRUE] /\ UNCHANGED <<cache, lru, page>>
    BY <1>3 DEF DispatchRc
  <2>1a. BusyHasJob'
    BY <1>1, <1>3, <2>1 DEF IInv, BusyHasJob, DispatchRc
  <2>2. CASE wi \in Worker
    <3> DEFINE g == [shm[wi] EXCEPT !.ok = TRUE]
    <3>1. g \in JobSlot /\ g.key = shm[wi].key /\ (g.state = "idle" <=> shm[wi].state = "idle")
      BY <1>1, <2>2
    <3>2. shm' = [shm EXCEPT ![wi] = g]
      BY <2>1
    <3> QED BY <1>2, <2>1, <2>1a, <2>2, <3>1, <3>2
  <2>3. CASE wi \notin Worker
    <3>1. shm' = shm
      BY <1>1, <2>1, <2>3
    <3>2. SlotsOK'
      BY <3>1 DEF IInv, SlotsOK
    <3> QED BY <2>1, <2>1a, <3>1, <3>2, WorkKeeps
  <2> QED BY <2>2, <2>3
<1>4. ASSUME NEW n \in Worker, WorkerStart(n)
      PROVE  /\ IInv'
             /\ \A k \in Key : GivenUp(k) => Settled(cache[k])'
  <2> DEFINE g == [shm[n] EXCEPT !.ok = FALSE, !.kind = "none", !.pix = 0]
  <2>1. g \in JobSlot /\ g.key = shm[n].key /\ (g.state = "idle" <=> shm[n].state = "idle")
    <3>1. "none" \in Kind /\ 0 \in 0..Size("large")
      BY DEF Kind, Size
    <3>2. PICK h \in JobSlot : h = shm[n]
      BY <1>1
    <3> QED BY <3>1, <3>2
  <2>2. shm' = [shm EXCEPT ![n] = g] /\ UNCHANGED <<cache, lru, page>>
    BY <1>4 DEF WorkerStart, browserVars
  <2>3. BusyHasJob'
    <3>1. g.state = "req" /\ proc' = [proc EXCEPT ![n] = "busy"]
      BY <1>1, <1>4 DEF WorkerStart
    <3> HIDE DEF g
    <3> QED BY <1>1, <2>2, <3>1 DEF IInv, BusyHasJob
  <2> HIDE DEF g
  <2> QED BY <1>2, <2>1, <2>2, <2>3
<1>5. ASSUME NEW n \in Worker, WorkerFinish(n)
      PROVE  /\ IInv'
             /\ \A k \in Key : GivenUp(k) => Settled(cache[k])'
  <2>1. PICK ok \in BOOLEAN, kind \in Kinds \cup {"none"} :
            shm' = [shm EXCEPT
                    ![n].state = "done", ![n].ok = ok, ![n].kind = kind,
                    ![n].pix = IF ok /\ kind = "small" THEN Size(kind) ELSE 0]
    BY <1>5 DEF WorkerFinish
  <2> DEFINE pix == IF ok /\ kind = "small" THEN Size(kind) ELSE 0
             g == [shm[n] EXCEPT !.state = "done", !.ok = ok, !.kind = kind, !.pix = pix]
  <2>2. kind \in Kind /\ pix \in 0..Size("large")
    BY KindsAssumption DEF Kind, Size
  <2>3. shm' = [shm EXCEPT ![n] = g]
    BY <2>1
  <2>4. shm[n].state # "idle"
    BY <1>5 DEF IInv, BusyHasJob, WorkerFinish
  <2> HIDE DEF pix
  <2>5. g \in JobSlot /\ g.key = shm[n].key /\ g.state # "idle"
    <3>1. PICK h \in JobSlot : h = shm[n]
      BY <1>1
    <3> QED BY <2>2, <3>1
  <2>6. UNCHANGED <<cache, lru, page>>
    BY <1>5 DEF WorkerFinish, browserVars
  <2> HIDE DEF g
  <2>7. BusyHasJob'
    <3>1. proc' = [proc EXCEPT ![n] = "idle"]
      BY <1>5 DEF WorkerFinish
    <3> QED BY <1>1, <2>3, <3>1 DEF IInv, BusyHasJob
  <2> QED BY <1>2, <2>3, <2>4, <2>5, <2>6, <2>7
<1>6. ASSUME NEW n \in Worker, WorkerDies(n)
      PROVE  /\ IInv'
             /\ \A k \in Key : GivenUp(k) => Settled(cache[k])'
  <2>1. shm' = shm /\ UNCHANGED <<cache, lru, page>> /\ proc' = [proc EXCEPT ![n] = "none"]
    BY <1>6 DEF WorkerDies, browserVars
  <2>2. SlotsOK'
    BY <2>1 DEF IInv, SlotsOK
  <2>3. BusyHasJob'
    BY <2>1 DEF IInv, BusyHasJob
  <2> QED BY <2>1, <2>2, <2>3, WorkKeeps
<1> QED BY <1>3, <1>4, <1>5, <1>6

\* What img_decode_large_pump_one does to its own entry.
LEMMA LargeAfter ==
  ASSUME Here \in Sound, NEW k \in LargeWanted, NEW t \in After(Here),
         t.e[k].state # "empty", NEW f \in Entry, f.state # "empty", ~ f.inflight
  PROVE  /\ [t EXCEPT !.e[k] = f] \in After(Here)
         /\ Touch([t EXCEPT !.e[k] = f], k) \in After(Here)
<1>1. k \in Key /\ cache[k].state = "done" /\ ~ cache[k].inflight /\ cache[k].kind = "large"
  BY DEF LargeWanted
<1>2. ~ Settled(cache[k])
  <2>1. EmptyEntry.state = "empty" /\ NewEntry.state = "pending"
    BY NewEntryIs DEF EmptyEntry
  <2> QED BY <1>1, <2>1 DEF Settled
<1>3. cache[k].inflight = FALSE /\ f.inflight = FALSE
  BY <1>1, SoundNow DEF Entry
<1>4. Spares(cache[k], f)
  BY <1>2, <1>3 DEF Spares
<1>5. t \in Sound /\ t.e \in [Key -> Entry] /\ \A other \in Key : Spares(cache[other], t.e[other])
  BY DEF After, Sound, CacheState, Here
<1>6. ASSUME NEW u \in Sound, u.e = [t.e EXCEPT ![k] = f] PROVE u \in After(Here)
  <2>1. \A other \in Key : Spares(cache[other], u.e[other])
    BY <1>1, <1>4, <1>5, <1>6
  <2> QED BY <2>1 DEF After, Here
<1> DEFINE u == [t EXCEPT !.e[k] = f]
           v == Touch([t EXCEPT !.e[k] = f], k)
<1>7. u \in Sound /\ u.e = [t.e EXCEPT ![k] = f]
  BY <1>1, <1>5, AlterFacts
<1>8. v \in Sound /\ v.e = [t.e EXCEPT ![k] = f]
  BY <1>1, <1>5, PutFacts
<1> HIDE DEF u, v
<1>9. u \in After(Here) /\ v \in After(Here)
  BY <1>6, <1>7, <1>8
<1> QED BY <1>9 DEF u, v

\* img_decode_large_pump_one, however far it gets.
LEMMA LargeKeeps ==
  ASSUME IInv, LargePump
  PROVE  /\ IInv'
         /\ \A k \in Key : GivenUp(k) => Settled(cache[k])'
<1>1. Here \in Sound /\ Here \in After(Here) /\ page \in Seq(Key)
  BY AfterItself DEF IInv
<1>2. UNCHANGED <<page, shm, proc>>
  BY DEF LargePump, LargeFetchFails, LargeNoRoom, LargeDecodes, LargeDecodeFails
<1>3. ASSUME NEW t \in After(Here), Become(t)
      PROVE  /\ IInv'
             /\ \A k \in Key : GivenUp(k) => Settled(cache[k])'
  BY <1>1, <1>2, <1>3, QuietKeeps, QuietForgets
<1>4. ASSUME NEW k \in LargeWanted, NEW t \in After(Here), t.e[k].state # "empty"
      PROVE  /\ k \in Key /\ t \in CacheState /\ t.e[k] \in Entry /\ ~ t.e[k].inflight
             /\ Unwanted(t, k) \in After(Here)
  <2>1. k \in Key /\ ~ cache[k].inflight
    BY DEF LargeWanted
  <2>2. t \in CacheState /\ t.e[k] \in Entry /\ ~ t.e[k].inflight
    BY <2>1 DEF After, Sound, CacheState, Spares, Here
  <2> DEFINE f == [t.e[k] EXCEPT !.want = FALSE]
  <2>3. f \in Entry /\ f.state = t.e[k].state /\ ~ f.inflight
    BY <2>2 DEF Entry
  <2>4. Unwanted(t, k) = [t EXCEPT !.e[k] = f]
    BY <2>1, <2>2 DEF Unwanted, CacheState
  <2>3a. f.state # "empty"
    BY <1>4, <2>3
  <2> HIDE DEF f
  <2>5. Unwanted(t, k) \in After(Here)
    <3>1. [t EXCEPT !.e[k] = f] \in After(Here)
      BY <1>1, <1>4, <2>3, <2>3a, LargeAfter
    <3> QED BY <2>4, <3>1
  <2> QED BY <2>1, <2>2, <2>5
<1>5. ASSUME NEW size, NEW t \in EvictRounds(Here, size) PROVE t \in After(Here)
  BY <1>1, EvictRoundsAfter
<1>6. CASE LargeFetchFails
  <2>1. PICK k \in LargeWanted : Become(Unwanted(Here, k))
    BY <1>6 DEF LargeFetchFails
  <2>2. Here.e[k].state # "empty"
    BY DEF LargeWanted, Here
  <2> QED BY <1>1, <1>3, <1>4, <2>1, <2>2
<1>7. CASE LargeNoRoom
  <2>1. PICK k \in LargeWanted, t \in Exhausted(Here, Size("large")) :
            LET f == t.e[k].pixFailures
            IN  Become(IF t.e[k].state = "empty" THEN t
                   ELSE Unwanted([t EXCEPT !.e[k].pixFailures =
                            IF f < MaxFailures THEN f + 1 ELSE f], k))
    BY <1>7 DEF LargeNoRoom
  <2>2. t \in After(Here)
    BY <1>5 DEF Exhausted
  <2>3. CASE t.e[k].state = "empty"
    BY <1>3, <2>1, <2>2, <2>3
  <2>4. CASE t.e[k].state # "empty"
    <3> DEFINE n == IF t.e[k].pixFailures < MaxFailures
                    THEN t.e[k].pixFailures + 1 ELSE t.e[k].pixFailures
               g == [t.e[k] EXCEPT !.pixFailures = n]
               u == [t EXCEPT !.e[k] = g]
    <3>1. k \in Key /\ t \in CacheState /\ t.e[k] \in Entry /\ ~ t.e[k].inflight
      BY <1>4, <2>2, <2>4
    <3>2. n \in 0..MaxFailures
      BY <3>1, PipelineAssumption DEF Entry
    <3>3. Become(Unwanted([t EXCEPT !.e[k].pixFailures = n], k))
      BY <2>1, <2>4
    <3> HIDE DEF n
    <3>4. g \in Entry /\ g.state # "empty" /\ ~ g.inflight
      BY <2>4, <3>1, <3>2 DEF Entry
    <3>5. [t EXCEPT !.e[k].pixFailures = n] = u
      BY <3>1 DEF CacheState
    <3>6. u.e[k] = g
      BY <3>1 DEF CacheState
    <3> HIDE DEF g
    <3>7. u \in After(Here)
      BY <1>1, <2>2, <2>4, <3>4, LargeAfter
    <3> HIDE DEF u
    <3>8. Unwanted(u, k) \in After(Here)
      BY <1>4, <3>4, <3>6, <3>7
    <3> QED BY <1>3, <3>3, <3>5, <3>8
  <2> QED BY <2>3, <2>4
<1>8. CASE LargeDecodes
  <2>1. PICK k \in LargeWanted, t \in Allocated(Here, Size("large")) :
            /\ t.e[k].state = "done"
            /\ \E ks \in Shown :
                  Become(MarkAll(Touch([t EXCEPT !.e[k].pix = Size("large")], k), ks))
    BY <1>8 DEF LargeDecodes
  <2>2. t \in After(Here)
    BY <1>5 DEF Allocated
  <2> DEFINE g == [t.e[k] EXCEPT !.pix = Size("large")]
             u == Touch([t EXCEPT !.e[k] = g], k)
  <2>3. k \in Key /\ t \in CacheState /\ t.e[k] \in Entry /\ ~ t.e[k].inflight
    BY <1>4, <2>1, <2>2
  <2>4. Size("large") \in Nat
    BY DEF Size
  <2>5. g \in Entry /\ g.state # "empty" /\ ~ g.inflight
    BY <2>1, <2>3, <2>4 DEF Entry
  <2>6. Touch([t EXCEPT !.e[k].pix = Size("large")], k) = u
    BY <2>3 DEF CacheState
  <2> HIDE DEF g
  <2>7. u \in After(Here)
    BY <1>1, <2>1, <2>2, <2>5, LargeAfter
  <2> HIDE DEF u
  <2>8. \E ks \in Shown : Become(MarkAll(u, ks))
    BY <2>1, <2>6
  <2> QED BY <1>2, <2>7, <2>8, ShowKeeps
<1>9. CASE LargeDecodeFails
  <2>1. PICK k \in LargeWanted, t \in Allocated(Here, Size("large")) :
            Become(IF t.e[k].state = "empty" THEN t ELSE Unwanted(t, k))
    BY <1>9 DEF LargeDecodeFails
  <2>2. t \in After(Here)
    BY <1>5 DEF Allocated
  <2>3. CASE t.e[k].state = "empty"
    BY <1>3, <2>1, <2>2, <2>3
  <2>4. CASE t.e[k].state # "empty"
    BY <1>3, <1>4, <2>1, <2>2, <2>4
  <2> QED BY <2>3, <2>4
<1> QED BY <1>6, <1>7, <1>8, <1>9 DEF LargePump

\* The loop steps that only mark images, or nothing, and the end of collecting.
LEMMA LoopKeeps ==
  ASSUME IInv, LoopQuiet \/ LoopEvent \/ CollectEnd \/ PumpEnd
  PROVE  /\ IInv'
         /\ \A k \in Key : GivenUp(k) => Settled(cache[k])'
<1>1. Here \in Sound /\ Here \in After(Here) /\ page \in Seq(Key)
  BY AfterItself DEF IInv
<1>2. UNCHANGED <<page, shm, proc>>
  BY DEF LoopQuiet, LoopEvent, CollectEnd, PumpEnd
<1>3. ASSUME NEW t \in After(Here), Become(t)
      PROVE  /\ IInv'
             /\ \A k \in Key : GivenUp(k) => Settled(cache[k])'
  BY <1>1, <1>2, <1>3, QuietKeeps, QuietForgets
<1>4. CASE LoopQuiet \/ CollectEnd
  BY <1>1, <1>3, <1>4 DEF LoopQuiet, CollectEnd, Become, Here
<1>5. CASE LoopEvent
  BY <1>1, <1>2, <1>5, ShowKeeps DEF LoopEvent
<1>6. CASE PumpEnd
  <2> DEFINE s == IF "dims" \in dirty THEN MarkAll(LookupAll(Here, page), page) ELSE Here
  <2>1. s \in After(Here)
    <3>1. LookupAll(Here, page) \in After(Here) /\ LookupAll(Here, page) \in Sound
      BY <1>1, LookupAllAfter DEF After
    <3>2. MarkAll(LookupAll(Here, page), page) \in After(Here)
      BY <1>1, <3>1, MarkAllAfter, AfterAfter
    <3> QED BY <1>1, <3>2
  <2>2. Become(s) \/ \E ks \in Shown : Become(MarkAll(s, ks))
    BY <1>6 DEF PumpEnd
  <2> HIDE DEF s
  <2> QED BY <1>2, <1>3, <2>1, <2>2, ShowKeeps
<1> QED BY <1>4, <1>5, <1>6

-----------------------------------------------------------------------------
\* Nothing is cached and no job is out at the start.
LEMMA InitIInv == Init => IInv
<1> SUFFICES ASSUME Init PROVE IInv
  OBVIOUS
<1>1. EmptyEntry \in Entry /\ EmptyEntry.state = "empty" /\ ~ EmptyEntry.inflight
  <2>1. 0 \in 0..MaxFailures
    BY PipelineAssumption
  <2> QED BY <2>1 DEF EmptyEntry, Entry, Kind
<1>2. <<>> \in Seq(Key)
  BY EmptySeq
<1>3. cache = [k \in Key |-> EmptyEntry] /\ lru = <<>> /\ page = <<>>
      /\ shm = [n \in Worker |-> IdleSlot] /\ proc = [n \in Worker |-> "idle"]
  BY DEF Init
<1> HIDE DEF EmptyEntry
<1>4. cache \in [Key -> Entry] /\ lru \in Seq(Key)
      /\ \A k \in Key : cache[k].state = "empty" /\ ~ cache[k].inflight
  BY <1>1, <1>2, <1>3
<1>5. Here \in Sound
  <2>1. Here = [e |-> cache, l |-> lru]
    BY DEF Here
  <2> QED BY <1>4, <2>1 DEF Sound, CacheState
<1>6. IdleSlot.state = "idle" /\
      IdleSlot \in [state : {"idle", "req", "done"}, key : Key \cup {NoKey},
                    ok : BOOLEAN, kind : Kind, pix : 0..Size("large")]
  BY DEF IdleSlot, Kind, Size
<1> HIDE DEF IdleSlot
<1>7. SlotsOK /\ BusyHasJob /\ \A n \in Worker, k \in Key : ~ HasJob(n, k)
  BY <1>3, <1>6 DEF SlotsOK, BusyHasJob, HasJob
<1> QED BY <1>2, <1>3, <1>4, <1>5, <1>7 DEF IInv, InflightIffOneJob, JobsAreForThisPage, InflightOpen

\* Every step keeps the invariant, and what was given up.
LEMMA NextKeeps ==
  ASSUME IInv, [Next]_vars
  PROVE  /\ IInv'
         /\ \A k \in Key : GivenUp(k) => Settled(cache[k])'
<1>1. CASE Navigate
  BY <1>1, NavigateKeeps
<1>2. CASE LoopQuiet \/ LoopEvent \/ CollectEnd \/ PumpEnd
  BY <1>2, LoopKeeps
<1>3. CASE CollectOne
  BY <1>3, CollectOneKeeps
<1>4. CASE DispatchState
  BY <1>4, DispatchKeeps
<1>5. CASE DispatchRc \/ \E n \in Worker : WorkerStart(n) \/ WorkerFinish(n) \/ WorkerDies(n)
  BY <1>5, WorkersKeep
<1>6. CASE LargePump
  BY <1>6, LargeKeeps
<1>7. CASE UNCHANGED vars
  <2>1. UNCHANGED <<cache, lru, page, shm, proc>>
    BY <1>7 DEF vars
  <2>2. SlotsOK' /\ BusyHasJob'
    BY <2>1 DEF IInv, SlotsOK, BusyHasJob
  <2> QED BY <2>1, <2>2, WorkKeeps
<1> QED BY <1>1, <1>2, <1>3, <1>4, <1>5, <1>6, <1>7 DEF Next, Browser, Pump

\* The inductive invariant.
THEOREM PipelineInvariant == Spec => []IInv
  BY InitIInv, NextKeeps, PTL DEF Spec

\* An entry is in flight exactly when one worker slot holds its job, across
\* evictions, dropped entries and cancelled pages.
THEOREM OneJobPerEntry == Spec => []InflightIffOneJob
<1>1. IInv => InflightIffOneJob
  BY DEF IInv
<1> QED BY <1>1, PipelineInvariant, PTL

\* No job of an old page is out, and every entry with a job still wants the result
\* (img_cache_begin_new_page, img_workers_cancel_all).
THEOREM NoJobOfAnOldPage == Spec => []JobsAreForThisPage
<1>1. IInv => JobsAreForThisPage
  BY DEF IInv
<1> QED BY <1>1, PipelineInvariant, PTL

\* What the browser has given up on it never tries again, until the slot of the
\* cache is recycled (the failure counters of img_workers_pump).
THEOREM NoImageIsTriedForEver == Spec => GivenUpStays
<1>1. IInv /\ [Next]_vars =>
        [\A k \in Key : GivenUp(k) => GivenUp(k)' \/ cache'[k] \in {EmptyEntry, NewEntry}]_vars
  BY NextKeeps DEF Settled, GivenUp
<1> QED BY <1>1, PipelineInvariant, PTL DEF Spec, GivenUpStays

-----------------------------------------------------------------------------
(***************************************************************************)
(* THE PIXEL POOL, for every number of entries, every pool size and every  *)
(* length of the free array.                                               *)
(***************************************************************************)
USE DEF NotSaved

-----------------------------------------------------------------------------
(***************************************************************************)
(* Geometry of blocks.                                                     *)
(***************************************************************************)

\* Apart does not depend on the order of its arguments.
LEMMA ApartSym ==
  ASSUME NEW a \in Store!Block, NEW b \in Store!Block, Store!Apart(a, b)
  PROVE  Store!Apart(b, a)
BY DEF Store!Apart

\* The block made of two adjacent ones touches nothing they did not touch.
LEMMA ApartUnion ==
  ASSUME NEW a \in Store!Block, NEW b \in Store!Block, NEW c \in Store!Block,
         NEW u \in Store!Block,
         a.len > 0, b.len > 0,
         Store!End(a) = b.off,
         u.off = a.off, u.len = a.len + b.len,
         Store!Apart(a, c), Store!Apart(b, c)
  PROVE  Store!Apart(u, c)
BY PoolAssumption DEF Store!Apart, Store!Block, Store!End

\* Carving n pixels off the front of a free block leaves two disjoint parts,
\* each of which touches nothing the block did not touch.
LEMMA ApartSplit ==
  ASSUME NEW f \in Store!Block, NEW b \in Store!Block, NEW r \in Store!Block,
         NEW c \in Store!Block,
         b.off = f.off, b.len <= f.len,
         r.off = f.off + b.len, r.len = f.len - b.len,
         Store!Apart(f, c)
  PROVE  Store!Apart(b, c) /\ Store!Apart(r, c) /\ Store!Apart(r, b)
BY PoolAssumption DEF Store!Apart, Store!Block, Store!End

\* An index below a legal length is a slot.
LEMMA SlotBelow ==
  ASSUME NEW n \in 0..MaxFree, NEW k \in 0..(n - 1)
  PROVE  k \in Slot
BY PoolAssumption DEF Slot

\* A slot is an index below the capacity, so a legal length bounds it.
LEMMA BelowSlot ==
  ASSUME NEW n \in 0..MaxFree, NEW k \in Slot, k < n
  PROVE  k \in 0..(n - 1)
BY PoolAssumption DEF Slot

\* What removing slot q leaves in the others: every remaining block was in
\* the array before, at a slot other than q, and no two come from the same.
LEMMA DropSlotFacts ==
  ASSUME PoolTypeOK, NEW q \in 0..(freeN - 1), DropSlot(q)
  PROVE  /\ free' \in [Slot -> Store!Block]
         /\ freeN' = freeN - 1 /\ freeN' \in 0..MaxFree
         /\ \A k \in 0..(freeN' - 1) :
               free'[k] = IF k = q THEN free[freeN - 1] ELSE free[k]
<1> USE PoolAssumption DEF Slot
<1>1. /\ free \in [Slot -> Store!Block] /\ freeN \in 0..MaxFree
      /\ freeN - 1 \in Slot /\ q \in Slot
  BY DEF PoolTypeOK
<1>2. Store!NoBlock \in Store!Block
  BY DEF Store!NoBlock, Store!Block
<1>3. /\ free' = [free EXCEPT ![q] = free[freeN - 1],
                              ![freeN - 1] = Store!NoBlock]
      /\ freeN' = freeN - 1
  BY DEF DropSlot
<1> QED
  BY <1>1, <1>2, <1>3

-----------------------------------------------------------------------------
(***************************************************************************)
(* A successful allocation, whoever asks for it.                           *)
(***************************************************************************)

\* The free blocks of an idle pool.
LEMMA IdleFree ==
  ASSUME PoolInv, stage \in {"idle", "merge", "shrink"},
         NEW k \in 0..(freeN - 1)
  PROVE  /\ k \in Slot
         /\ free[k] \in Store!Block
         /\ stage # "merge" => free[k].len > 0
         /\ free[k].len > 0 => Store!End(free[k]) <= used
         /\ \A o \in Owner : Store!Apart(free[k], live[o])
         /\ \A m \in 0..(freeN - 1) : k # m => Store!Apart(free[k], free[m])
<1>1. /\ free \in [Slot -> Store!Block] /\ freeN \in 0..MaxFree
  BY DEF PoolInv, PoolTypeOK
<1>2. ActiveSlot = 0..(freeN - 1)
  BY <1>1, PoolAssumption DEF ActiveSlot, Slot
<1> QED
  BY <1>1, <1>2, PoolAssumption
     DEF PoolInv, FreeApart, BelowTop, LoopState, Slot

\* A successful img_pixel_alloc hands out a block apart from every live one
\* and keeps the free list apart from both.
LEMMA TakeFacts ==
  ASSUME PoolInv, Idle,
         NEW b \in Store!Block, b.len > 0,
         NEW top, Take(b.len, b, top)
  PROVE  /\ free' \in [Slot -> Store!Block]
         /\ freeN' \in 0..MaxFree
         /\ top \in used..Cap
         /\ Store!End(b) <= top
         /\ \A o \in Owner : Store!Apart(b, live[o])
         /\ \A k \in 0..(freeN' - 1) :
               /\ free'[k].len > 0
               /\ Store!End(free'[k]) <= used
               /\ Store!Apart(free'[k], b)
               /\ \A o \in Owner : Store!Apart(free'[k], live[o])
               /\ \A m \in 0..(freeN' - 1) :
                     k # m => Store!Apart(free'[k], free'[m])
<1>1. /\ used \in 0..Cap /\ freeN \in 0..MaxFree
      /\ free \in [Slot -> Store!Block] /\ live \in [Owner -> Store!Block]
      /\ Cap \in Nat /\ MaxFree \in Nat
      /\ PoolTypeOK
  BY PoolAssumption DEF PoolInv, PoolTypeOK
<1>2. \A k \in 0..(freeN - 1) :
            /\ k \in Slot
            /\ free[k] \in Store!Block
            /\ free[k].len > 0
            /\ Store!End(free[k]) <= used
            /\ \A o \in Owner : Store!Apart(free[k], live[o])
            /\ \A m \in 0..(freeN - 1) :
                  k # m => Store!Apart(free[k], free[m])
  BY IdleFree DEF Idle
<1>3. CASE CarveFree(b.len, b) /\ top = used
  <2>1. PICK q \in Slot :
            /\ BestFit(b.len, q)
            /\ b = [off |-> free[q].off, len |-> b.len]
            /\ IF free[q].len = b.len
               THEN DropSlot(q)
               ELSE /\ free' = [free EXCEPT ![q] = [off |-> @.off + b.len,
                                                    len |-> @.len - b.len]]
                    /\ UNCHANGED freeN
    BY <1>3 DEF CarveFree
  <2>2. q \in 0..(freeN - 1) /\ free[q].len >= b.len /\ b.off = free[q].off
    BY <2>1 DEF BestFit, Fits
  <2> DEFINE r == [off |-> free[q].off + b.len, len |-> free[q].len - b.len]
  <2>3. /\ r \in Store!Block /\ Store!End(r) <= used /\ Store!End(b) <= used
        /\ r.off = free[q].off + b.len /\ r.len = free[q].len - b.len
    BY <1>1, <1>2, <2>2 DEF Store!Block, Store!End
  <2> HIDE DEF r
  <2>4. ASSUME NEW c \in Store!Block, Store!Apart(free[q], c)
        PROVE  Store!Apart(b, c) /\ Store!Apart(r, c) /\ Store!Apart(r, b)
    BY <1>2, <2>2, <2>3, <2>4, ApartSplit
  <2>5. \A o \in Owner : Store!Apart(b, live[o]) /\ Store!Apart(r, live[o])
    BY <1>1, <1>2, <2>2, <2>4
  <2>6. \A k \in 0..(freeN - 1) : k # q =>
            Store!Apart(free[k], b) /\ Store!Apart(free[k], r)
                /\ Store!Apart(r, free[k])
    BY <1>2, <2>2, <2>3, <2>4, ApartSym
  <2>7. CASE free[q].len = b.len
    <3>1. DropSlot(q)
      BY <2>1, <2>7
    <3>2. /\ free' \in [Slot -> Store!Block]
          /\ freeN' = freeN - 1 /\ freeN' \in 0..MaxFree
          /\ \A k \in 0..(freeN' - 1) :
               free'[k] = IF k = q THEN free[freeN - 1] ELSE free[k]
      BY <1>1, <2>2, <3>1, DropSlotFacts
    <3> QED
      BY <1>1, <1>2, <1>3, <2>2, <2>3, <2>5, <2>6, <3>2, SMTT(30)
  <2>8. CASE free[q].len # b.len
    <3>1. free' = [free EXCEPT ![q] = r] /\ freeN' = freeN /\ r.len > 0
      BY <1>1, <1>2, <2>1, <2>2, <2>8 DEF r, Store!Block
    <3>2. Store!Apart(r, b)
      BY <1>2, <2>2, <2>3, ApartSplit DEF Store!Apart, Store!End, Store!Block
    <3>3. /\ free' \in [Slot -> Store!Block]
          /\ \A k \in 0..(freeN - 1) :
                free'[k] = IF k = q THEN r ELSE free[k]
      BY <1>1, <1>2, <2>1, <2>3, <3>1
    <3> QED
      BY <1>1, <1>2, <1>3, <2>2, <2>3, <2>5, <2>6, <3>1, <3>2, <3>3, SMTT(30)
  <2> QED
    BY <2>7, <2>8
<1>4. CASE Bump(b.len, b) /\ top = used + b.len
  <2>1. b.off = used /\ Cap - used >= b.len /\ free' = free /\ freeN' = freeN
    BY <1>4 DEF Bump
  <2>2. Store!End(b) = top /\ top \in used..Cap
    BY <1>1, <1>4, <2>1 DEF Store!End, Store!Block
  <2>3. ASSUME NEW c \in Store!Block, c.len > 0 => Store!End(c) <= used
        PROVE  Store!Apart(b, c) /\ Store!Apart(c, b)
    BY <1>1, <2>1, <2>3 DEF Store!Apart, Store!Block, Store!End
  <2>4. \A o \in Owner : Store!Apart(b, live[o])
    BY <1>1, <2>3 DEF PoolInv, BelowTop
  <2>5. \A k \in 0..(freeN - 1) : Store!Apart(free[k], b)
    BY <1>2, <2>3
  <2> QED
    BY <1>1, <1>2, <2>1, <2>2, <2>4, <2>5
<1> QED
  BY <1>3, <1>4 DEF Take

-----------------------------------------------------------------------------
(***************************************************************************)
(* The inductive invariant, one lemma per kind of step.                    *)
(***************************************************************************)

\* The parts of PoolInv that an idle or shrinking pool has to establish,
\* stated on all slots below freeN.
ListInv(f, n, lv, top) ==
    \A k \in 0..(n - 1) :
        /\ f[k].len > 0
        /\ Store!End(f[k]) <= top
        /\ \A o \in Owner : Store!Apart(f[k], lv[o])
        /\ \A m \in 0..(n - 1) : k # m => Store!Apart(f[k], f[m])

\* An idle state with a good list satisfies the invariant.
LEMMA ListInvSuffices ==
  ASSUME PoolTypeOK', LiveApart', stage' \in {"idle", "shrink"},
         ListInv(free', freeN', live', used'),
         \A o \in Owner : live'[o].len > 0 => Store!End(live'[o]) <= used',
         saved' # NotSaved => used' <= saved'
  PROVE  PoolInv'
<1>1. ActiveSlot' = 0..(freeN' - 1)
  BY PoolAssumption DEF ActiveSlot, PoolTypeOK, Slot
<1> QED
  BY <1>1 DEF PoolInv, FreeApart, BelowTop, LoopState, ListInv

\* The pool starts empty: no entry, no free block, the bump pointer at 0.
LEMMA InitInv == PoolInit => PoolInv
<1> SUFFICES ASSUME PoolInit PROVE PoolInv
  OBVIOUS
<1>1. PoolTypeOK
  BY PoolAssumption DEF PoolInit, PoolTypeOK, Store!NoBlock, Store!Block, Slot
<1>2. ActiveSlot = {}
  BY PoolAssumption DEF PoolInit, ActiveSlot, Slot
<1>3. \A o \in Owner : live[o].len = 0
  BY DEF PoolInit, Store!NoBlock
<1> QED
  BY <1>1, <1>2, <1>3
     DEF PoolInv, LiveApart, FreeApart, BelowTop, LoopState, Store!Apart, PoolInit

\* An entry receives its block, from a worker or from the in-process decode.
LEMMA AcquireInv ==
  ASSUME PoolInv, Idle, NEW o \in Owner, live[o].len = 0,
         NEW b \in Store!Block, b.len > 0,
         Take(b.len, b, used'),
         live' = [live EXCEPT ![o] = b],
         saved' = NotSaved,
         UNCHANGED <<stage, i, j, w>>
  PROVE  PoolInv'
<1>1. /\ free' \in [Slot -> Store!Block]
      /\ freeN' \in 0..MaxFree
      /\ used' \in used..Cap
      /\ Store!End(b) <= used'
      /\ \A p \in Owner : Store!Apart(b, live[p])
      /\ \A k \in 0..(freeN' - 1) :
            /\ free'[k].len > 0
            /\ Store!End(free'[k]) <= used
            /\ Store!Apart(free'[k], b)
            /\ \A p \in Owner : Store!Apart(free'[k], live[p])
            /\ \A m \in 0..(freeN' - 1) :
                  k # m => Store!Apart(free'[k], free'[m])
  BY TakeFacts
<1>2. PoolTypeOK
  BY DEF PoolInv
<1>3. PoolTypeOK'
  BY <1>1, <1>2, PoolAssumption DEF PoolTypeOK
<1>4. \A p \in Owner : live'[p] = IF p = o THEN b ELSE live[p]
  BY <1>2 DEF PoolTypeOK
<1>5. LiveApart'
  BY <1>1, <1>2, <1>4, ApartSym DEF PoolInv, LiveApart, PoolTypeOK
<1>6. \A p \in Owner : live'[p].len > 0 => Store!End(live'[p]) <= used'
  <2> SUFFICES ASSUME NEW p \in Owner, live'[p].len > 0
               PROVE  Store!End(live'[p]) <= used'
    OBVIOUS
  <2>1. CASE p = o
    BY <1>1, <1>4, <2>1
  <2>2. CASE p # o
    <3>1. Store!End(live[p]) <= used /\ live[p] \in Store!Block
      BY <1>2, <1>4, <2>2 DEF PoolInv, BelowTop, PoolTypeOK
    <3> QED
      BY <1>1, <1>2, <1>4, <2>2, <3>1, PoolAssumption
         DEF PoolTypeOK, Store!End, Store!Block
  <2> QED
    BY <2>1, <2>2
<1>7. ListInv(free', freeN', live', used')
  <2> SUFFICES ASSUME NEW k \in 0..(freeN' - 1)
               PROVE  /\ free'[k].len > 0
                      /\ Store!End(free'[k]) <= used'
                      /\ \A p \in Owner : Store!Apart(free'[k], live'[p])
                      /\ \A m \in 0..(freeN' - 1) :
                             k # m => Store!Apart(free'[k], free'[m])
    BY DEF ListInv
  <2>1. freeN' \in 0..MaxFree /\ used' \in used..Cap
    BY <1>1
  <2>2. k \in Slot
    BY <2>1, SlotBelow
  <2>3. free'[k] \in Store!Block /\ Store!End(free'[k]) <= used
    BY <1>1, <2>2
  <2>4. Store!End(free'[k]) <= used'
    BY <1>2, <2>1, <2>3, PoolAssumption DEF PoolTypeOK, Store!End, Store!Block
  <2> QED
    BY <1>1, <1>4, <2>4
<1> QED
  BY <1>3, <1>5, <1>6, <1>7, ListInvSuffices DEF Idle

\* A failed decode forgets the block it took and restores the old bump
\* pointer, which is not below the current one.
LEMMA DecodeFailsInv == PoolInv /\ LargeFails => PoolInv'
<1> SUFFICES ASSUME PoolInv, LargeFails PROVE PoolInv'
  OBVIOUS
<1>1. PICK b \in Store!Block, top \in 0..Cap :
          b.len > 0 /\ Take(b.len, b, top)
  BY DEF LargeFails
<1>2. /\ Idle /\ saved # NotSaved /\ used' = saved /\ saved' = NotSaved
      /\ UNCHANGED <<live, stage, i, j, w>>
  BY DEF LargeFails
<1>3. /\ free' \in [Slot -> Store!Block]
      /\ freeN' \in 0..MaxFree
      /\ \A k \in 0..(freeN' - 1) :
            /\ free'[k].len > 0
            /\ Store!End(free'[k]) <= used
            /\ \A o \in Owner : Store!Apart(free'[k], live[o])
            /\ \A m \in 0..(freeN' - 1) :
                  k # m => Store!Apart(free'[k], free'[m])
  BY <1>1, <1>2, TakeFacts
<1>4. /\ PoolTypeOK /\ LiveApart /\ saved \in 0..Cap /\ used <= saved
      /\ \A o \in Owner : live[o].len > 0 => Store!End(live[o]) <= used
  BY <1>2 DEF PoolInv, PoolTypeOK, BelowTop
<1>5. PoolTypeOK' /\ LiveApart'
  BY <1>2, <1>3, <1>4 DEF PoolTypeOK, LiveApart
<1>6. ASSUME NEW c \in Store!Block, Store!End(c) <= used
      PROVE  Store!End(c) <= used'
  BY <1>2, <1>4, <1>6, PoolAssumption DEF PoolTypeOK, Store!End, Store!Block
<1>7. \A o \in Owner : live'[o].len > 0 => Store!End(live'[o]) <= used'
  BY <1>2, <1>4, <1>6 DEF PoolTypeOK
<1>8. \A k \in 0..(freeN' - 1) : free'[k] \in Store!Block
  BY <1>3, SlotBelow
<1>9. ListInv(free', freeN', live', used')
  BY <1>2, <1>3, <1>6, <1>8 DEF ListInv
<1> QED
  BY <1>2, <1>5, <1>7, <1>9, ListInvSuffices DEF Idle

\* The freed block moves from its entry to the end of the array, or nowhere
\* if the array is full.
LEMMA FreeBeginInv ==
  ASSUME PoolInv, NEW e \in Owner, FreeBegin(e)
  PROVE  PoolInv'
<1>1. /\ PoolTypeOK /\ LiveApart
      /\ used \in 0..Cap /\ freeN \in 0..MaxFree
      /\ free \in [Slot -> Store!Block] /\ live \in [Owner -> Store!Block]
      /\ Cap \in Nat /\ MaxFree \in Nat
  BY PoolAssumption DEF PoolInv, PoolTypeOK
<1>2. /\ Idle /\ live[e].len > 0
      /\ live' = [live EXCEPT ![e] = Store!NoBlock]
      /\ stage' = "merge" /\ i' = 0 /\ j' = 0
      /\ UNCHANGED <<used, w, saved>>
  BY DEF FreeBegin
<1>3. Store!NoBlock \in Store!Block /\ Store!NoBlock.len = 0
  BY <1>1 DEF Store!NoBlock, Store!Block
<1>4. \A o \in Owner : live'[o] = IF o = e THEN Store!NoBlock ELSE live[o]
  BY <1>1, <1>2
<1>5. /\ \A o \in Owner : live[o].len > 0 => Store!End(live[o]) <= used
      /\ saved # NotSaved => used <= saved
  BY DEF PoolInv, BelowTop
<1>6. ASSUME NEW c, NEW o \in Owner, Store!Apart(c, live[o])
      PROVE  Store!Apart(c, live'[o])
  BY <1>3, <1>4, <1>6 DEF Store!Apart
<1>7. LiveApart'
  BY <1>3, <1>4, <1>1 DEF LiveApart, Store!Apart
<1>8. \A o \in Owner : live'[o].len > 0 => Store!End(live'[o]) <= used'
  BY <1>2, <1>3, <1>4, <1>5
<1>9. \A k \in 0..(freeN - 1) :
          /\ k \in Slot
          /\ free[k] \in Store!Block
          /\ free[k].len > 0 => Store!End(free[k]) <= used
          /\ \A o \in Owner : Store!Apart(free[k], live[o])
          /\ \A m \in 0..(freeN - 1) : k # m => Store!Apart(free[k], free[m])
  BY <1>2, IdleFree DEF Idle
<1>10. /\ free' \in [Slot -> Store!Block] /\ freeN' \in 0..MaxFree
       /\ \A k \in 0..(freeN' - 1) :
            /\ free'[k].len > 0 => Store!End(free'[k]) <= used
            /\ \A o \in Owner : Store!Apart(free'[k], live'[o])
            /\ \A m \in 0..(freeN' - 1) :
                  k # m => Store!Apart(free'[k], free'[m])
  <2>1. CASE freeN = MaxFree
    <3>1. free' = free /\ freeN' = freeN
      BY <1>1, <2>1 DEF FreeBegin
    <3> QED
      BY <1>1, <1>6, <1>9, <3>1
  <2>2. CASE freeN # MaxFree
    <3>1. free' = [free EXCEPT ![freeN] = live[e]] /\ freeN' = freeN + 1
      BY <1>1, <2>2 DEF FreeBegin
    <3>2. freeN \in Slot /\ freeN' \in 0..MaxFree
      BY <1>1, <2>2, <3>1 DEF Slot
    <3>3. \A k \in 0..(freeN' - 1) :
              free'[k] = IF k = freeN THEN live[e] ELSE free[k]
      BY <1>1, <3>1, <3>2, SlotBelow
    <3>4. \A k \in 0..(freeN' - 1) : k # freeN => k \in 0..(freeN - 1)
      BY <1>1, <3>1
    <3>5. \A o \in Owner : Store!Apart(live[e], live'[o])
      BY <1>1, <1>3, <1>4 DEF LiveApart, Store!Apart
    <3>6. \A k \in 0..(freeN - 1) : Store!Apart(live[e], free[k])
                                       /\ Store!Apart(free[k], live[e])
      BY <1>1, <1>9, ApartSym
    <3> QED
      BY <1>1, <1>2, <1>5, <1>6, <1>9, <3>1, <3>2, <3>3, <3>4, <3>5, <3>6
  <2> QED
    BY <2>1, <2>2
<1>11. PoolTypeOK'
  BY <1>1, <1>2, <1>3, <1>10 DEF PoolTypeOK
<1>12. ActiveSlot' = 0..(freeN' - 1)
  BY <1>2, <1>10, PoolAssumption DEF ActiveSlot, Slot
<1>13. FreeApart' /\ BelowTop'
  BY <1>2, <1>5, <1>8, <1>10, <1>12 DEF FreeApart, BelowTop
<1>14. LoopState'
  BY <1>2, <1>11 DEF LoopState, PoolTypeOK
<1> QED
  BY <1>7, <1>11, <1>13, <1>14 DEF PoolInv

-----------------------------------------------------------------------------
(***************************************************************************)
(* The steps of img_pixel_free's loops.  None touches a live block.        *)
(***************************************************************************)

\* One pair of slots: either nothing, or i absorbs j.
LEMMA MergeStepInv == PoolInv /\ MergeStep => PoolInv'
<1> SUFFICES ASSUME PoolInv, MergeStep PROVE PoolInv'
  OBVIOUS
<1>1. /\ PoolTypeOK /\ LiveApart /\ BelowTop
      /\ used \in 0..Cap /\ freeN \in 0..MaxFree
      /\ i \in 0..MaxFree /\ j \in 0..MaxFree
      /\ free \in [Slot -> Store!Block] /\ live \in [Owner -> Store!Block]
      /\ Cap \in Nat /\ MaxFree \in Nat
  BY PoolAssumption DEF PoolInv, PoolTypeOK
<1>2. /\ stage = "merge" /\ stage' = "merge" /\ i < freeN /\ j <= freeN
      /\ UNCHANGED <<used, freeN, live, stage, w, saved>>
  BY DEF MergeStep, PoolInv, LoopState
<1>3. \A k \in 0..(freeN - 1) :
          /\ k \in Slot
          /\ free[k] \in Store!Block
          /\ free[k].len > 0 => Store!End(free[k]) <= used
          /\ \A o \in Owner : Store!Apart(free[k], live[o])
          /\ \A m \in 0..(freeN - 1) : k # m => Store!Apart(free[k], free[m])
  BY <1>2, IdleFree
<1>4. /\ i' \in 0..MaxFree /\ j' \in 0..MaxFree
      /\ i' <= freeN /\ j' <= freeN
  BY <1>1, <1>2 DEF MergeStep
<1>5. /\ free' \in [Slot -> Store!Block]
      /\ \A k \in 0..(freeN - 1) :
            /\ free'[k].len > 0 => Store!End(free'[k]) <= used
            /\ \A o \in Owner : Store!Apart(free'[k], live[o])
            /\ \A m \in 0..(freeN - 1) :
                  k # m => Store!Apart(free'[k], free'[m])
  <2>1. CASE j < freeN /\ Absorbs(i, j)
    <3> DEFINE u == [off |-> free[i].off, len |-> free[i].len + free[j].len]
               z == [off |-> free[j].off, len |-> 0]
    <3>1. /\ i \in 0..(freeN - 1) /\ j \in 0..(freeN - 1) /\ i # j
          /\ free[i].len > 0 /\ free[j].len > 0
          /\ Store!End(free[i]) = free[j].off
      BY <1>1, <1>2, <2>1 DEF Absorbs
    <3>2. /\ u \in Store!Block /\ Store!End(u) <= used
          /\ u.off = free[i].off /\ u.len = free[i].len + free[j].len
          /\ z \in Store!Block /\ z.len = 0
      BY <1>1, <1>3, <3>1 DEF Store!End, Store!Block
    <3>3. free' = [free EXCEPT ![i] = u, ![j] = z]
      <4>1. free' = [free EXCEPT ![i].len = @ + free[j].len, ![j].len = 0]
        BY <2>1 DEF MergeStep
      <4>2. /\ u = [free[i] EXCEPT !.len = @ + free[j].len]
            /\ z = [free[j] EXCEPT !.len = 0]
        BY <1>3, <3>1 DEF Store!Block
      <4>3. free' = [[free EXCEPT ![i] = [free[i] EXCEPT !.len = @ + free[j].len]]
                        EXCEPT ![j] = [@ EXCEPT !.len = 0]]
        BY <1>1, <1>3, <3>1, <4>1
      <4>4. free[j] = [free EXCEPT ![i] = u][j]
        BY <1>1, <3>1
      <4> HIDE DEF u, z
      <4> QED
        BY <1>1, <1>3, <3>1, <4>2, <4>3, <4>4
    <3> HIDE DEF u, z
    <3>4. /\ free' \in [Slot -> Store!Block]
          /\ \A k \in 0..(freeN - 1) :
                free'[k] = IF k = j THEN z ELSE IF k = i THEN u ELSE free[k]
      BY <1>1, <1>3, <3>1, <3>2, <3>3
    <3>5. ASSUME NEW c \in Store!Block, Store!Apart(free[i], c),
                 Store!Apart(free[j], c)
          PROVE  Store!Apart(u, c) /\ Store!Apart(c, u)
      BY <1>3, <3>1, <3>2, <3>5, ApartUnion, ApartSym
    <3>6. \A c \in Store!Block : Store!Apart(z, c) /\ Store!Apart(c, z)
      BY <3>2 DEF Store!Apart
    <3>7. \A o \in Owner : Store!Apart(u, live[o]) /\ Store!Apart(z, live[o])
      BY <1>1, <1>3, <3>1, <3>5, <3>6
    <3>8. \A k \in 0..(freeN - 1) : k # i /\ k # j =>
              Store!Apart(u, free[k]) /\ Store!Apart(free[k], u)
      BY <1>3, <3>1, <3>5
    <3>9. ASSUME NEW k \in 0..(freeN - 1), NEW m \in 0..(freeN - 1), k # m
          PROVE  Store!Apart(free'[k], free'[m])
      BY <1>3, <3>2, <3>4, <3>6, <3>8, <3>9
    <3>10. ASSUME NEW k \in 0..(freeN - 1), free'[k].len > 0
           PROVE  Store!End(free'[k]) <= used
      BY <1>3, <3>2, <3>4, <3>10
    <3>11. ASSUME NEW k \in 0..(freeN - 1), NEW o \in Owner
           PROVE  Store!Apart(free'[k], live[o])
      BY <1>3, <3>4, <3>7, <3>11
    <3> QED
      BY <3>4, <3>9, <3>10, <3>11
  <2>2. CASE ~(j < freeN /\ Absorbs(i, j))
    <3>1. free' = free
      BY <2>2 DEF MergeStep
    <3> QED
      BY <1>1, <1>3, <3>1
  <2> QED
    BY <2>1, <2>2
<1>6. PoolTypeOK'
  BY <1>1, <1>2, <1>4, <1>5 DEF PoolTypeOK
<1>7. ActiveSlot' = 0..(freeN - 1)
  BY <1>1, <1>2 DEF ActiveSlot, Slot
<1>8. LiveApart' /\ LoopState'
  BY <1>1, <1>2, <1>4 DEF LiveApart, LoopState
<1>9. FreeApart' /\ BelowTop'
  BY <1>1, <1>2, <1>5, <1>7 DEF FreeApart, BelowTop
<1> QED
  BY <1>6, <1>8, <1>9 DEF PoolInv

\* The merge loops end: the compaction starts with nothing moved.
LEMMA MergeDoneInv == PoolInv /\ MergeDone => PoolInv'
<1> SUFFICES ASSUME PoolInv, MergeDone PROVE PoolInv'
  OBVIOUS
<1>1. /\ stage = "merge" /\ stage' = "compact" /\ i' = 0 /\ j' = 0 /\ w' = 0
      /\ UNCHANGED <<used, free, freeN, live, saved>>
      /\ PoolTypeOK /\ MaxFree \in Nat /\ freeN \in 0..MaxFree
  BY PoolAssumption DEF MergeDone, PoolInv, PoolTypeOK
<1>2. PoolTypeOK'
  BY <1>1 DEF PoolTypeOK
<1>3. ActiveSlot' = ActiveSlot
  BY <1>1 DEF ActiveSlot, Slot
<1>4. LiveApart' /\ FreeApart' /\ BelowTop'
  BY <1>1, <1>3 DEF PoolInv, LiveApart, FreeApart, BelowTop
<1>5. LoopState'
  BY <1>1 DEF LoopState, Slot
<1> QED
  BY <1>2, <1>4, <1>5 DEF PoolInv

\* Moving slot i down to slot w: each active slot afterwards holds the block
\* of an active slot before, no two the same one.
LEMMA CompactStepInv == PoolInv /\ CompactStep => PoolInv'
<1> SUFFICES ASSUME PoolInv, CompactStep PROVE PoolInv'
  OBVIOUS
<1>1. /\ PoolTypeOK /\ LiveApart /\ FreeApart /\ BelowTop
      /\ freeN \in 0..MaxFree /\ MaxFree \in Nat
      /\ i \in 0..MaxFree /\ w \in 0..MaxFree
      /\ free \in [Slot -> Store!Block]
  BY PoolAssumption DEF PoolInv, PoolTypeOK
<1>2. /\ stage = "compact" /\ stage' = "compact"
      /\ i < freeN /\ i' = i + 1 /\ w <= i
      /\ \A k \in Slot : k < w => free[k].len > 0
      /\ UNCHANGED <<used, freeN, live, j, saved>>
  BY DEF CompactStep, PoolInv, LoopState
<1>3. i \in Slot /\ w \in Slot /\ i \in ActiveSlot
  BY <1>1, <1>2 DEF Slot, ActiveSlot
<1> DEFINE src(k) == IF k = w /\ free[i].len # 0 THEN i ELSE k
<1>4. /\ free' \in [Slot -> Store!Block] /\ w' \in 0..MaxFree /\ w' <= i'
      /\ \A k \in Slot : free'[k] = free[src(k)]
      /\ w' = IF free[i].len = 0 THEN w ELSE w + 1
  <2>1. CASE free[i].len = 0
    BY <1>1, <1>2, <1>3, <2>1 DEF CompactStep
  <2>2. CASE free[i].len # 0
    BY <1>1, <1>2, <1>3, <2>2 DEF CompactStep
  <2> QED
    BY <2>1, <2>2
<1>5. \A k \in ActiveSlot' : k \in Slot /\ src(k) \in ActiveSlot
  BY <1>1, <1>2, <1>3, <1>4 DEF ActiveSlot, Slot
<1>6. \A k, m \in ActiveSlot' : k # m => src(k) # src(m)
  BY <1>1, <1>2, <1>3, <1>4 DEF ActiveSlot, Slot
<1> HIDE DEF src
<1>7. PoolTypeOK'
  BY <1>1, <1>2, <1>4 DEF PoolTypeOK
<1>8. LiveApart'
  BY <1>1, <1>2 DEF LiveApart
<1>9. FreeApart'
  BY <1>1, <1>2, <1>4, <1>5, <1>6 DEF FreeApart
<1>10. BelowTop'
  BY <1>1, <1>2, <1>4, <1>5 DEF BelowTop
<1>11. LoopState'
  <2>1. i' <= freeN'
    BY <1>1, <1>2
  <2>2. ASSUME NEW k \in Slot, k < w'
        PROVE  free'[k].len > 0
    <3>1. CASE k < w
      <4>1. k # w
        BY <1>1, <3>1 DEF Slot
      <4> QED
        BY <1>2, <1>4, <3>1, <4>1 DEF src
    <3>2. CASE ~(k < w)
      <4>1. k = w /\ free[i].len # 0
        BY <1>1, <1>4, <2>2, <3>2 DEF Slot
      <4>2. free[i].len \in Nat
        BY <1>1, <1>3, PoolAssumption DEF Store!Block
      <4> QED
        BY <1>4, <4>1, <4>2 DEF src
    <3> QED
      BY <3>1, <3>2
  <2> QED
    BY <1>2, <1>4, <2>1, <2>2 DEF LoopState
<1> QED
  BY <1>7, <1>8, <1>9, <1>10, <1>11 DEF PoolInv

\* Every active slot has been moved down: the array is a list again.
LEMMA CompactDoneInv == PoolInv /\ CompactDone => PoolInv'
<1> SUFFICES ASSUME PoolInv, CompactDone PROVE PoolInv'
  OBVIOUS
<1>1. /\ PoolTypeOK /\ LiveApart /\ FreeApart /\ BelowTop
      /\ freeN \in 0..MaxFree /\ MaxFree \in Nat /\ w \in 0..MaxFree
      /\ free \in [Slot -> Store!Block]
  BY PoolAssumption DEF PoolInv, PoolTypeOK
<1>2. /\ stage = "compact" /\ stage' = "shrink" /\ i = freeN /\ w <= i
      /\ freeN' = w /\ i' = 0 /\ w' = 0
      /\ free' = [k \in Slot |-> IF k < w THEN free[k] ELSE Store!NoBlock]
      /\ \A k \in Slot : k < w => free[k].len > 0
      /\ UNCHANGED <<used, live, j, saved>>
  BY DEF CompactDone, PoolInv, LoopState
<1>3. Store!NoBlock \in Store!Block
  BY PoolAssumption DEF Store!NoBlock, Store!Block
<1>4. PoolTypeOK'
  BY <1>1, <1>2, <1>3 DEF PoolTypeOK
<1>5. /\ ActiveSlot' = 0..(w - 1)
      /\ \A k \in 0..(w - 1) :
            k \in Slot /\ k \in ActiveSlot /\ k < w /\ free'[k] = free[k]
  BY <1>1, <1>2 DEF ActiveSlot, Slot
<1>6. LiveApart'
  BY <1>1, <1>2 DEF LiveApart
<1>7. FreeApart' /\ BelowTop'
  BY <1>1, <1>2, <1>5 DEF FreeApart, BelowTop
<1>8. LoopState'
  BY <1>2, <1>5 DEF LoopState
<1> QED
  BY <1>4, <1>6, <1>7, <1>8 DEF PoolInv

\* The block at the tail goes back to the bump allocator: what is left lies
\* below it.
LEMMA ShrinkStepInv == PoolInv /\ ShrinkStep => PoolInv'
<1> SUFFICES ASSUME PoolInv, ShrinkStep PROVE PoolInv'
  OBVIOUS
<1>1. /\ PoolTypeOK /\ LiveApart /\ used \in 0..Cap /\ freeN \in 0..MaxFree
      /\ live \in [Owner -> Store!Block]
      /\ Cap \in Nat /\ MaxFree \in Nat
  BY PoolAssumption DEF PoolInv, PoolTypeOK
<1>2. PICK q \in Slot : AtTail(q) /\ used' = used - free[q].len /\ DropSlot(q)
  BY DEF ShrinkStep
<1>3. stage = "shrink" /\ UNCHANGED <<live, stage, i, j, w, saved>>
  BY DEF ShrinkStep
<1>4. /\ q \in 0..(freeN - 1) /\ free[q].len > 0
      /\ Store!End(free[q]) = used
  BY <1>1, <1>2 DEF AtTail, Slot
<1>5. \A k \in 0..(freeN - 1) :
          /\ k \in Slot
          /\ free[k] \in Store!Block
          /\ free[k].len > 0
          /\ Store!End(free[k]) <= used
          /\ \A o \in Owner : Store!Apart(free[k], live[o])
          /\ \A m \in 0..(freeN - 1) : k # m => Store!Apart(free[k], free[m])
  BY <1>3, IdleFree
<1>6. /\ free' \in [Slot -> Store!Block]
      /\ freeN' = freeN - 1 /\ freeN' \in 0..MaxFree
      /\ \A k \in 0..(freeN' - 1) :
           free'[k] = IF k = q THEN free[freeN - 1] ELSE free[k]
  BY <1>1, <1>2, <1>4, DropSlotFacts
<1>7. used' \in 0..Cap /\ used' = free[q].off /\ used' <= used
  BY <1>1, <1>2, <1>4, <1>5 DEF Store!Block, Store!End
<1>8. ASSUME NEW c \in Store!Block, c.len > 0, Store!End(c) <= used,
             Store!Apart(free[q], c)
      PROVE  Store!End(c) <= used'
  BY <1>1, <1>4, <1>5, <1>7, <1>8 DEF Store!Block, Store!End, Store!Apart
<1>9. \A o \in Owner : live'[o].len > 0 => Store!End(live'[o]) <= used'
  BY <1>1, <1>3, <1>4, <1>5, <1>8 DEF PoolInv, BelowTop
<1>10. ListInv(free', freeN', live', used')
  <2> SUFFICES ASSUME NEW k \in 0..(freeN' - 1)
               PROVE  /\ free'[k].len > 0
                      /\ Store!End(free'[k]) <= used'
                      /\ \A o \in Owner : Store!Apart(free'[k], live'[o])
                      /\ \A m \in 0..(freeN' - 1) :
                            k # m => Store!Apart(free'[k], free'[m])
    BY DEF ListInv
  <2> DEFINE src(x) == IF x = q THEN freeN - 1 ELSE x
  <2>1. \A x \in 0..(freeN' - 1) :
            src(x) \in 0..(freeN - 1) /\ src(x) # q /\ free'[x] = free[src(x)]
    BY <1>1, <1>4, <1>6
  <2>2. \A x, y \in 0..(freeN' - 1) : x # y => src(x) # src(y)
    BY <1>1, <1>4, <1>6
  <2> HIDE DEF src
  <2>3. Store!End(free'[k]) <= used'
    BY <1>4, <1>5, <1>8, <2>1
  <2> QED
    BY <1>3, <1>5, <2>1, <2>2, <2>3
<1>11. saved' # NotSaved => used' <= saved'
  BY <1>1, <1>3, <1>7 DEF PoolInv, BelowTop, PoolTypeOK
<1>12. PoolTypeOK' /\ LiveApart'
  BY <1>1, <1>3, <1>6, <1>7 DEF PoolTypeOK, LiveApart
<1> QED
  BY <1>3, <1>9, <1>10, <1>11, <1>12, ListInvSuffices

\* No block is at the tail: the pool is idle again.
LEMMA ShrinkDoneInv == PoolInv /\ ShrinkDone => PoolInv'
<1> SUFFICES ASSUME PoolInv, ShrinkDone PROVE PoolInv'
  OBVIOUS
<1>1. /\ stage = "shrink" /\ stage' = "idle"
      /\ UNCHANGED <<used, free, freeN, live, i, j, w, saved>>
  BY DEF ShrinkDone
<1>2. ActiveSlot' = ActiveSlot
  BY <1>1 DEF ActiveSlot
<1> QED
  BY <1>1, <1>2
     DEF PoolInv, PoolTypeOK, LiveApart, FreeApart, BelowTop, LoopState

\* Remembering the bump pointer, or giving up, moves no block.
LEMMA LargeBookkeepingInv ==
  PoolInv /\ (LargeBegin \/ LargeGivesUp) => PoolInv'
<1> SUFFICES ASSUME PoolInv, LargeBegin \/ LargeGivesUp PROVE PoolInv'
  OBVIOUS
<1>1. /\ UNCHANGED <<used, free, freeN, live, stage, i, j, w>>
      /\ saved' = used \/ saved' = NotSaved
  BY DEF LargeBegin, LargeGivesUp
<1>2. ActiveSlot' = ActiveSlot
  BY <1>1 DEF ActiveSlot
<1>3. PoolTypeOK' /\ used' \in Nat
  BY <1>1, PoolAssumption DEF PoolInv, PoolTypeOK
<1>4. BelowTop'
  BY <1>1, <1>2, <1>3 DEF PoolInv, BelowTop
<1> QED
  BY <1>1, <1>2, <1>3, <1>4 DEF PoolInv, LiveApart, FreeApart, LoopState

\* Alloc and LargeDecoded are the two callers of AcquireInv.
LEMMA AllocInv ==
  ASSUME PoolInv, NEW o \in Owner, Alloc(o) \/ LargeDecoded(o)
  PROVE  PoolInv'
<1>1. PICK b \in Store!Block : /\ b.len > 0
                               /\ Take(b.len, b, used')
                               /\ live' = [live EXCEPT ![o] = b]
  BY DEF Alloc, LargeDecoded
<1>2. /\ Idle /\ live[o].len = 0 /\ saved' = NotSaved
      /\ UNCHANGED <<stage, i, j, w>>
  BY DEF Alloc, LargeDecoded
<1> QED
  BY <1>1, <1>2, AcquireInv

\* PoolInv survives every step, stuttering included.
LEMMA StepInv == PoolInv /\ [PoolNext]_poolVars => PoolInv'
<1> SUFFICES ASSUME PoolInv, [PoolNext]_poolVars PROVE PoolInv'
  OBVIOUS
<1>1. ASSUME NEW o \in Owner, Alloc(o) \/ LargeDecoded(o) PROVE PoolInv'
  BY <1>1, AllocInv
<1>2. ASSUME NEW o \in Owner, FreeBegin(o) PROVE PoolInv'
  BY <1>2, FreeBeginInv
<1>3. CASE MergeStep \/ MergeDone
  BY <1>3, MergeStepInv, MergeDoneInv
<1>4. CASE CompactStep \/ CompactDone
  BY <1>4, CompactStepInv, CompactDoneInv
<1>5. CASE ShrinkStep \/ ShrinkDone
  BY <1>5, ShrinkStepInv, ShrinkDoneInv
<1>6. CASE LargeBegin \/ LargeGivesUp
  BY <1>6, LargeBookkeepingInv
<1>7. CASE LargeFails
  BY <1>7, DecodeFailsInv
<1>8. CASE UNCHANGED poolVars
  BY <1>8 DEF poolVars, PoolInv, PoolTypeOK, LiveApart, FreeApart, BelowTop,
              LoopState, ActiveSlot
<1> QED
  BY <1>1, <1>2, <1>3, <1>4, <1>5, <1>6, <1>7, <1>8 DEF PoolNext

\* Blocks of different entries never share a pixel and no free block overlaps
\* a block in use, whatever the sequence of allocations, evictions and failed
\* decodes (img_pixel_alloc, img_pixel_free).
THEOREM PoolSafe == PoolSpec => []PoolInv
BY InitInv, StepInv, PTL DEF PoolSpec

-----------------------------------------------------------------------------
(***************************************************************************)
(* The allocator implements PixelStore.                                    *)
(***************************************************************************)

\* Storing decoded pixels is an Acquire of the abstract store.
LEMMA AcquireRefines ==
  ASSUME PoolInv, NEW o \in Owner, Alloc(o) \/ LargeDecoded(o)
  PROVE  \E b \in Store!Block : Store!Acquire(o, b)
<1>1. PICK b \in Store!Block : /\ b.len > 0
                               /\ Take(b.len, b, used')
                               /\ live' = [live EXCEPT ![o] = b]
  BY DEF Alloc, LargeDecoded
<1>2. Idle /\ live[o].len = 0
  BY DEF Alloc, LargeDecoded
<1>3. /\ used' \in used..Cap /\ Store!End(b) <= used'
      /\ \A p \in Owner : Store!Apart(b, live[p])
  BY <1>1, <1>2, TakeFacts
<1>4. used \in 0..Cap
  BY DEF PoolInv, PoolTypeOK
<1>5. Store!End(b) <= Cap
  BY <1>3, <1>4, PoolAssumption DEF Store!End, Store!Block
<1> QED
  BY <1>1, <1>2, <1>3, <1>5 DEF Store!Acquire

\* Every execution of the allocator is one of the abstract store: img_pixel_free
\* is a Release when it starts, its loops, the bookkeeping of the large decode
\* and a failed decode are stuttering.
THEOREM PoolImplementsStore == PoolSpec => StoreSpec
<1>1. PoolInit => Store!Init
  BY DEF PoolInit, Store!Init
<1>2. PoolInv /\ [PoolNext]_poolVars => [Store!Next]_live
  <2> SUFFICES ASSUME PoolInv, [PoolNext]_poolVars
               PROVE  Store!Next \/ live' = live
    OBVIOUS
  <2>1. ASSUME NEW o \in Owner, Alloc(o) \/ LargeDecoded(o)
        PROVE  Store!Next
    BY <2>1, AcquireRefines DEF Store!Next
  <2>2. ASSUME NEW o \in Owner, FreeBegin(o)
        PROVE  Store!Next
    BY <2>2 DEF FreeBegin, Store!Release, Store!Next
  <2>3. CASE \/ MergeStep \/ MergeDone \/ CompactStep \/ CompactDone
             \/ ShrinkStep \/ ShrinkDone \/ LargeBegin \/ LargeFails
             \/ LargeGivesUp \/ UNCHANGED poolVars
    BY <2>3 DEF MergeStep, MergeDone, CompactStep, CompactDone, ShrinkStep,
         ShrinkDone, LargeBegin, LargeFails, LargeGivesUp, poolVars
  <2> QED
    BY <2>1, <2>2, <2>3 DEF PoolNext
<1> QED
  BY <1>1, <1>2, PoolSafe, PTL DEF StoreSpec, Store!Spec, PoolSpec

-----------------------------------------------------------------------------
(***************************************************************************)
(* Memory at the top of the pool always goes back to the bump allocator.   *)
(***************************************************************************)

\* An allocation from an idle, trimmed pool leaves every free block strictly
\* below the old bump pointer: carving keeps the end of a block.
LEMMA TakeKeepsTrim ==
  ASSUME PoolInv, TailTrimmed, Idle,
         NEW b \in Store!Block, b.len > 0,
         NEW top, Take(b.len, b, top)
  PROVE  \A k \in 0..(freeN' - 1) : Store!End(free'[k]) < used
<1>1. PoolTypeOK /\ used \in 0..Cap /\ freeN \in 0..MaxFree
         /\ free \in [Slot -> Store!Block]
  BY DEF PoolInv, PoolTypeOK
<1>2. \A k \in 0..(freeN - 1) :
          /\ k \in Slot /\ free[k] \in Store!Block /\ free[k].len > 0
          /\ Store!End(free[k]) < used
  <2> SUFFICES ASSUME NEW k \in 0..(freeN - 1)
               PROVE  /\ k \in Slot /\ free[k] \in Store!Block
                      /\ free[k].len > 0
                      /\ Store!End(free[k]) < used
    OBVIOUS
  <2>1. /\ k \in Slot /\ free[k] \in Store!Block /\ free[k].len > 0
        /\ Store!End(free[k]) <= used
    BY IdleFree DEF Idle
  <2>2. k < freeN
    BY <1>1, PoolAssumption
  <2>3. Store!End(free[k]) # used
    BY <2>1, <2>2 DEF TailTrimmed, AtTail
  <2> QED
    BY <1>1, <2>1, <2>3, PoolAssumption DEF Store!End, Store!Block
<1>3. CASE Bump(b.len, b)
  BY <1>2, <1>3 DEF Bump
<1>4. CASE CarveFree(b.len, b)
  <2>1. PICK q \in Slot :
            /\ BestFit(b.len, q)
            /\ IF free[q].len = b.len
               THEN DropSlot(q)
               ELSE /\ free' = [free EXCEPT ![q] = [off |-> @.off + b.len,
                                                    len |-> @.len - b.len]]
                    /\ UNCHANGED freeN
    BY <1>4 DEF CarveFree
  <2>2. q \in 0..(freeN - 1) /\ free[q].len >= b.len
    BY <2>1 DEF BestFit, Fits
  <2>3. CASE free[q].len = b.len
    <3>1. /\ freeN' = freeN - 1
          /\ \A k \in 0..(freeN' - 1) :
               free'[k] = IF k = q THEN free[freeN - 1] ELSE free[k]
      BY <1>1, <2>1, <2>2, <2>3, DropSlotFacts
    <3> QED
      BY <1>1, <1>2, <2>2, <3>1, PoolAssumption
  <2>4. CASE free[q].len # b.len
    <3> DEFINE r == [off |-> free[q].off + b.len, len |-> free[q].len - b.len]
    <3>1. Store!End(r) < used
      BY <1>1, <1>2, <2>2, PoolAssumption DEF Store!End, Store!Block
    <3>2. free' = [free EXCEPT ![q] = r] /\ freeN' = freeN
      BY <2>1, <2>4
    <3> HIDE DEF r
    <3> QED
      BY <1>1, <1>2, <2>2, <3>1, <3>2
  <2> QED
    BY <2>3, <2>4
<1> QED
  BY <1>3, <1>4 DEF Take

\* TailTrimmed is inductive relative to PoolInv.
LEMMA TrimStep == PoolInv /\ TailTrimmed /\ [PoolNext]_poolVars => TailTrimmed'
<1> SUFFICES ASSUME PoolInv, TailTrimmed, [PoolNext]_poolVars, Idle',
                    NEW k \in Slot, AtTail(k)'
             PROVE  FALSE
  BY DEF TailTrimmed
<1>1. /\ used \in 0..Cap /\ freeN \in 0..MaxFree /\ PoolInv'
      /\ Cap \in Nat /\ MaxFree \in Nat
      /\ freeN' \in 0..MaxFree
      /\ free' \in [Slot -> Store!Block] /\ used' \in 0..Cap
  BY StepInv, PoolAssumption DEF PoolInv, PoolTypeOK
<1>2. k \in 0..(freeN' - 1) /\ Store!End(free'[k]) = used'
  <2>1. k < freeN' /\ Store!End(free'[k]) = used'
    BY DEF AtTail
  <2> QED
    BY <1>1, <2>1, BelowSlot
<1>3. free'[k] \in Store!Block
  BY <1>1, <1>2, SlotBelow
<1>4. ASSUME NEW o \in Owner, Alloc(o) \/ LargeDecoded(o) PROVE FALSE
  <2>1. PICK b \in Store!Block : b.len > 0 /\ Take(b.len, b, used')
    BY <1>4 DEF Alloc, LargeDecoded
  <2>2. Idle
    BY <1>4 DEF Alloc, LargeDecoded
  <2>3. Store!End(free'[k]) < used
    BY <1>2, <2>1, <2>2, TakeKeepsTrim
  <2>4. used' \in used..Cap
    BY <2>1, <2>2, TakeFacts
  <2> QED
    BY <1>1, <1>2, <1>3, <2>3, <2>4 DEF Store!End, Store!Block
<1>5. CASE LargeFails
  <2>1. PICK b \in Store!Block, top \in 0..Cap :
            b.len > 0 /\ Take(b.len, b, top)
    BY <1>5 DEF LargeFails
  <2>2. Idle /\ saved # NotSaved /\ used' = saved
    BY <1>5 DEF LargeFails
  <2>3. Store!End(free'[k]) < used
    BY <1>2, <2>1, <2>2, TakeKeepsTrim
  <2>4. used <= saved /\ saved \in 0..Cap
    BY <2>2 DEF PoolInv, BelowTop, PoolTypeOK
  <2> QED
    BY <1>1, <1>2, <1>3, <2>2, <2>3, <2>4 DEF Store!End, Store!Block
<1>6. CASE \/ LargeBegin \/ LargeGivesUp \/ UNCHANGED poolVars
  BY <1>6 DEF LargeBegin, LargeGivesUp, poolVars, TailTrimmed, Idle, AtTail
<1>7. CASE ShrinkDone
  BY <1>7 DEF ShrinkDone, AtTail
<1>8. CASE \/ \E o \in Owner : FreeBegin(o)
           \/ MergeStep \/ MergeDone \/ CompactStep \/ CompactDone
           \/ ShrinkStep
  BY <1>8 DEF FreeBegin, MergeStep, MergeDone, CompactStep, CompactDone,
              ShrinkStep, Idle
<1> QED
  BY <1>4, <1>5, <1>6, <1>7, <1>8 DEF PoolNext

\* Between operations no recorded free block touches the bump pointer
\* (img_pixel_try_shrink_tail), even after a failed decode moved it.
THEOREM PoolTrimmed == PoolSpec => []TailTrimmed
<1>1. PoolInit => TailTrimmed
  BY PoolAssumption DEF PoolInit, TailTrimmed, AtTail, Slot
<1> QED
  BY <1>1, TrimStep, PoolSafe, PTL DEF PoolSpec

-----------------------------------------------------------------------------
(***************************************************************************)
(* The merge pass leaves at most one seam.                                 *)
(*                                                                         *)
(* A block added to a list with at most one seam makes at most two more.   *)
(* The pass meets each pair of slots once; the pairs still to come are     *)
(* due.  To merge i with j removes a seam, and can put one at a pair that  *)
(* the pass has passed: the one from j, now from i.  So, of three seams    *)
(* none is passed yet, and of two at most one; at the end all are.         *)
(***************************************************************************)

\* The pairs of slots that a second pass would merge.
Seams == {s \in Slot \X Slot : /\ s[1] \in ActiveSlot
                               /\ s[2] \in ActiveSlot
                               /\ Absorbs(s[1], s[2])}

\* The merge pass has still to look at this pair.
Due(s) == s[1] > i \/ (s[1] = i /\ s[2] >= j)

OneSeam == \A s, t \in Seams : s = t

SeamsFalling ==
    /\ \A s, t \in Seams : s = t \/ Due(s) \/ Due(t)
    /\ \A s, t, u \in Seams : s = t \/ s = u \/ t = u \/ Due(s)
    /\ \A s, t, u, v \in Seams :
          s = t \/ s = u \/ s = v \/ t = u \/ t = v \/ u = v

SeamInv ==
    /\ stage # "merge" => OneSeam
    /\ stage = "merge" => SeamsFalling

\* Blocks apart begin at different pixels and end at different ones.
LEMMA EdgesDiffer ==
  ASSUME NEW b \in Store!Block, NEW c \in Store!Block,
         b.len > 0, c.len > 0, Store!Apart(b, c)
  PROVE  b.off # c.off /\ Store!End(b) # Store!End(c)
BY PoolAssumption DEF Store!Apart, Store!End, Store!Block

\* A step that moves blocks between slots, drops some or cuts their front
\* makes no second seam: src says where each active slot's block was.
LEMMA SeamsCarry ==
  ASSUME OneSeam, NEW src \in [Slot -> Slot],
         \A a \in ActiveSlot' : src[a] \in ActiveSlot,
         \A a, b \in ActiveSlot' : src[a] = src[b] => a = b,
         \A a, b \in ActiveSlot' : Absorbs(a, b)' => Absorbs(src[a], src[b])
  PROVE  OneSeam'
<1> SUFFICES ASSUME NEW s \in Seams', NEW t \in Seams'
             PROVE  s = t
  BY DEF OneSeam
<1>1. /\ s \in Slot \X Slot /\ s[1] \in ActiveSlot' /\ s[2] \in ActiveSlot'
      /\ Absorbs(s[1], s[2])'
      /\ t \in Slot \X Slot /\ t[1] \in ActiveSlot' /\ t[2] \in ActiveSlot'
      /\ Absorbs(t[1], t[2])'
  BY DEF Seams
<1>2. /\ <<src[s[1]], src[s[2]]>> \in Seams
      /\ <<src[t[1]], src[t[2]]>> \in Seams
  BY <1>1 DEF Seams
<1>3. <<src[s[1]], src[s[2]]>> = <<src[t[1]], src[t[2]]>>
  BY <1>2 DEF OneSeam
<1>4. s[1] = t[1] /\ s[2] = t[2]
  BY <1>1, <1>3
<1> QED
  BY <1>1, <1>4

\* Outside the loops of img_pixel_free every slot in the list is active.
LEMMA AllActive ==
  ASSUME PoolTypeOK, stage # "compact"
  PROVE  ActiveSlot = 0..(freeN - 1)
BY PoolAssumption DEF PoolTypeOK, ActiveSlot, Slot

\* Taking a block off the list makes no seam.
LEMMA DropSeams ==
  ASSUME PoolInv, OneSeam, stage \in {"idle", "shrink"}, stage' = stage, PoolInv',
         NEW q \in 0..(freeN - 1), DropSlot(q)
  PROVE  OneSeam'
<1>1. /\ PoolTypeOK /\ freeN \in 0..MaxFree /\ free \in [Slot -> Store!Block]
      /\ MaxFree \in Nat
  BY PoolAssumption DEF PoolInv, PoolTypeOK
<1>2. /\ freeN' = freeN - 1
      /\ \A k \in 0..(freeN' - 1) :
            free'[k] = IF k = q THEN free[freeN - 1] ELSE free[k]
  BY <1>1, DropSlotFacts
<1>3. ActiveSlot = 0..(freeN - 1) /\ ActiveSlot' = 0..(freeN - 2)
  BY <1>1, <1>2 DEF ActiveSlot, Slot
<1> DEFINE src == [k \in Slot |-> IF k = q THEN freeN - 1 ELSE k]
<1>4. src \in [Slot -> Slot]
  BY <1>1 DEF Slot
<1>5. \A a \in ActiveSlot' : /\ src[a] \in ActiveSlot
                             /\ free'[a] = free[src[a]]
  BY <1>1, <1>2, <1>3 DEF Slot
<1>6. \A a, b \in ActiveSlot' : src[a] = src[b] => a = b
  BY <1>1, <1>2, <1>3 DEF Slot
<1> HIDE DEF src
<1>7. \A a, b \in ActiveSlot' : Absorbs(a, b)' => Absorbs(src[a], src[b])
  BY <1>5, <1>6 DEF Absorbs
<1> QED
  BY <1>4, <1>5, <1>6, <1>7, SeamsCarry

\* An allocation makes no seam: to take a block whole removes it, to carve it
\* leaves its end where it was and moves its front away from its neighbour.
LEMMA TakeSeams ==
  ASSUME PoolInv, OneSeam, Idle, PoolInv', stage' = stage,
         NEW b \in Store!Block, b.len > 0,
         NEW top, Take(b.len, b, top)
  PROVE  OneSeam'
<1>1. /\ PoolTypeOK /\ freeN \in 0..MaxFree /\ free \in [Slot -> Store!Block]
      /\ MaxFree \in Nat
  BY PoolAssumption DEF PoolInv, PoolTypeOK
<1>2. CASE Bump(b.len, b)
  <2>1. free' = free /\ freeN' = freeN /\ stage' = "idle" /\ stage = "idle"
    BY <1>2 DEF Bump, Idle
  <2>2. Seams' = Seams
    BY <2>1 DEF Seams, ActiveSlot, Absorbs
  <2> QED
    BY <2>2 DEF OneSeam
<1>3. CASE CarveFree(b.len, b)
  <2>1. PICK q \in Slot :
            /\ BestFit(b.len, q)
            /\ b = [off |-> free[q].off, len |-> b.len]
            /\ IF free[q].len = b.len
               THEN DropSlot(q)
               ELSE /\ free' = [free EXCEPT ![q] = [off |-> @.off + b.len,
                                                    len |-> @.len - b.len]]
                    /\ UNCHANGED freeN
    BY <1>3 DEF CarveFree
  <2>2. q \in 0..(freeN - 1) /\ free[q].len >= b.len
    BY <2>1 DEF BestFit, Fits
  <2>3. CASE free[q].len = b.len
    BY <2>1, <2>2, <2>3, DropSeams DEF Idle
  <2>4. CASE free[q].len # b.len
    <3> DEFINE r == [off |-> free[q].off + b.len, len |-> free[q].len - b.len]
    <3>1. /\ free' = [free EXCEPT ![q] = r] /\ freeN' = freeN
      BY <2>1, <2>4
    <3>2. /\ r.off = free[q].off + b.len /\ r.len = free[q].len - b.len
      OBVIOUS
    <3> HIDE DEF r
    <3>3. ActiveSlot = 0..(freeN - 1) /\ ActiveSlot' = 0..(freeN - 1)
      BY <1>1, <3>1 DEF Idle, ActiveSlot, Slot
    <3>4. \A a \in ActiveSlot :
              /\ a \in Slot /\ free[a] \in Store!Block /\ free[a].len > 0
              /\ free'[a] = IF a = q THEN r ELSE free[a]
              /\ a # q => Store!Apart(free[a], free[q])
      BY <1>1, <2>2, <3>1, <3>3, IdleFree DEF Idle
    <3>5. ASSUME NEW x \in ActiveSlot', NEW y \in ActiveSlot', Absorbs(x, y)'
          PROVE  Absorbs(x, y)
      <4>1. /\ x # y /\ free'[x].len > 0 /\ free'[y].len > 0
            /\ Store!End(free'[x]) = free'[y].off
        BY <3>5 DEF Absorbs
      <4>2. /\ free[x] \in Store!Block /\ free[y] \in Store!Block
            /\ free[x].len > 0 /\ free[y].len > 0
            /\ x # q => Store!Apart(free[x], free[q]) /\ free'[x] = free[x]
            /\ x = q => free'[x] = r
            /\ free[q] \in Store!Block /\ free[q].len >= b.len
            /\ b.len \in Nat
        BY <2>2, <3>3, <3>4 DEF Store!Block
      <4>3. CASE y = q
        <5>1. free'[y] = r /\ free'[x] = free[x] /\ Store!Apart(free[x], free[q])
          BY <3>3, <3>4, <4>1, <4>2, <4>3
        <5>2. Store!End(free[x]) = free[q].off + b.len
          BY <3>2, <4>1, <5>1
        <5> QED
          BY <4>2, <4>3, <5>1, <5>2, PoolAssumption
             DEF Store!Apart, Store!End, Store!Block
      <4>4. CASE y # q
        <5>1. Store!End(free[x]) = Store!End(free'[x])
          <6>1. CASE x = q
            BY <3>2, <4>2, <6>1, PoolAssumption DEF Store!End, Store!Block
          <6>2. CASE x # q
            BY <4>2, <6>2
          <6> QED
            BY <6>1, <6>2
        <5>2. free'[y] = free[y]
          BY <3>3, <3>4, <4>4
        <5> QED
          BY <4>1, <4>2, <5>1, <5>2 DEF Absorbs
      <4> QED
        BY <4>3, <4>4
    <3> DEFINE src == [k \in Slot |-> k]
    <3>6. src \in [Slot -> Slot] /\ \A a \in ActiveSlot : src[a] = a
      BY DEF ActiveSlot
    <3> HIDE DEF src
    <3> QED
      BY <3>3, <3>5, <3>6, SeamsCarry
  <2> QED
    BY <2>3, <2>4
<1> QED
  BY <1>2, <1>3 DEF Take

\* The freed block comes to the end of the list, where it can touch one block
\* on each side: three seams at most, and the pass begins with all pairs due.
LEMMA FreeBeginSeams ==
  ASSUME PoolInv, OneSeam, NEW e \in Owner, FreeBegin(e), PoolInv'
  PROVE  SeamsFalling'
<1>1. /\ PoolTypeOK /\ freeN \in 0..MaxFree /\ free \in [Slot -> Store!Block]
      /\ MaxFree \in Nat /\ live \in [Owner -> Store!Block]
      /\ stage = "idle" /\ stage' = "merge" /\ i' = 0 /\ j' = 0
  BY PoolAssumption DEF PoolInv, PoolTypeOK, FreeBegin, Idle
<1>2. \A s \in Seams' : Due(s)'
  BY <1>1 DEF Seams, Due, Slot
<1>3. ActiveSlot = 0..(freeN - 1) /\ ActiveSlot' = 0..(freeN' - 1)
  BY <1>1, AllActive DEF PoolInv, ActiveSlot, PoolTypeOK, Slot
<1>4. ASSUME NEW s \in Seams', s \notin Seams
      PROVE  freeN < MaxFree /\ (s[1] = freeN \/ s[2] = freeN)
  <2>1. /\ s \in Slot \X Slot /\ s[1] \in 0..(freeN' - 1) /\ s[2] \in 0..(freeN' - 1)
        /\ Absorbs(s[1], s[2])'
    BY <1>3 DEF Seams
  <2>2. CASE freeN < MaxFree
    <3>1. freeN' = freeN + 1 /\ \A k \in 0..(freeN - 1) : free'[k] = free[k]
      BY <1>1, <2>2 DEF FreeBegin, Slot
    <3>2. SUFFICES ASSUME s[1] # freeN, s[2] # freeN PROVE FALSE
      BY <2>2
    <3>3. s[1] \in ActiveSlot /\ s[2] \in ActiveSlot
      BY <1>1, <1>3, <2>1, <3>1, <3>2
    <3> QED
      BY <1>3, <1>4, <2>1, <3>1, <3>3 DEF Seams, Absorbs
  <2>3. CASE ~(freeN < MaxFree)
    <3>1. freeN' = freeN /\ free' = free
      BY <1>1, <2>3 DEF FreeBegin
    <3> QED
      BY <1>3, <1>4, <2>1, <3>1 DEF Seams, Absorbs
  <2> QED
    BY <2>2, <2>3
<1>5. \A s, t \in Seams' : s[1] = t[1] \/ s[2] = t[2] => s = t
  <2> SUFFICES ASSUME NEW s \in Seams', NEW t \in Seams',
                      s[1] = t[1] \/ s[2] = t[2]
               PROVE  s = t
    OBVIOUS
  <2>1. /\ s \in Slot \X Slot /\ s[1] \in ActiveSlot' /\ s[2] \in ActiveSlot'
        /\ Absorbs(s[1], s[2])'
        /\ t \in Slot \X Slot /\ t[1] \in ActiveSlot' /\ t[2] \in ActiveSlot'
        /\ Absorbs(t[1], t[2])'
    BY DEF Seams
  <2>2. \A k, m \in ActiveSlot' :
            k # m => Store!Apart(free'[k], free'[m])
    BY DEF PoolInv, FreeApart
  <2>3. \A k \in ActiveSlot' : free'[k] \in Store!Block
    BY DEF PoolInv, PoolTypeOK, ActiveSlot
  <2>4. /\ free'[s[1]].len > 0 /\ free'[s[2]].len > 0
        /\ free'[t[1]].len > 0 /\ free'[t[2]].len > 0
        /\ Store!End(free'[s[1]]) = free'[s[2]].off
        /\ Store!End(free'[t[1]]) = free'[t[2]].off
    BY <2>1 DEF Absorbs
  <2>5. CASE s[1] = t[1]
    <3>1. s[2] = t[2]
      BY <2>1, <2>2, <2>3, <2>4, <2>5, EdgesDiffer
    <3> QED
      BY <2>1, <2>5, <3>1
  <2>6. CASE s[2] = t[2]
    <3>1. s[1] = t[1]
      BY <2>1, <2>2, <2>3, <2>4, <2>6, EdgesDiffer
    <3> QED
      BY <2>1, <2>6, <3>1
  <2> QED
    BY <2>5, <2>6
<1> QED
  BY <1>2, <1>4, <1>5 DEF SeamsFalling, OneSeam

\* One pair of slots of the merge pass.
LEMMA MergeSeams ==
  ASSUME PoolInv, SeamsFalling, MergeStep, PoolInv'
  PROVE  SeamsFalling'
<1>1. /\ PoolTypeOK /\ freeN \in 0..MaxFree /\ free \in [Slot -> Store!Block]
      /\ MaxFree \in Nat /\ i \in 0..MaxFree /\ j \in 0..MaxFree
      /\ stage = "merge" /\ stage' = "merge" /\ freeN' = freeN /\ i < freeN
      /\ j <= freeN
  BY PoolAssumption DEF PoolInv, PoolTypeOK, MergeStep, LoopState
<1>2. ActiveSlot = 0..(freeN - 1) /\ ActiveSlot' = ActiveSlot
  BY <1>1, AllActive DEF ActiveSlot
<1>3. CASE ~(j < freeN /\ Absorbs(i, j))
  <2>1. free' = free
    BY <1>3 DEF MergeStep
  <2>2. Seams' = Seams
    BY <1>2, <2>1 DEF Seams, Absorbs
  <2>3. ASSUME NEW s \in Seams, Due(s)
        PROVE  Due(s)'
    <3>1. /\ s[1] \in 0..(freeN - 1) /\ s[2] \in 0..(freeN - 1)
          /\ Absorbs(s[1], s[2])
      BY <1>2 DEF Seams
    <3>2. CASE j < freeN
      <4>1. i' = i /\ j' = j + 1
        BY <3>2 DEF MergeStep
      <4>2. ~(s[1] = i /\ s[2] = j)
        BY <1>3, <3>1, <3>2
      <4> QED
        BY <1>1, <2>3, <3>1, <4>1, <4>2 DEF Due
    <3>3. CASE ~(j < freeN)
      <4>1. i' = i + 1 /\ j' = 0
        BY <3>3 DEF MergeStep
      <4> QED
        BY <1>1, <2>3, <3>1, <3>3, <4>1 DEF Due
    <3> QED
      BY <3>2, <3>3
  <2> QED
    BY <2>2, <2>3 DEF SeamsFalling
<1>4. CASE j < freeN /\ Absorbs(i, j)
  <2>1. /\ i \in ActiveSlot /\ j \in ActiveSlot /\ i # j
        /\ i \in Slot /\ j \in Slot
        /\ free[i].len > 0 /\ free[j].len > 0
        /\ Store!End(free[i]) = free[j].off
        /\ i' = i /\ j' = j + 1
    BY <1>1, <1>2, <1>4 DEF Absorbs, MergeStep, Slot
  <2>2. free' = [free EXCEPT ![i].len = @ + free[j].len, ![j].len = 0]
    BY <1>4 DEF MergeStep
  <2>3. /\ \A k \in Slot : k # i /\ k # j => free'[k] = free[k]
        /\ free'[j].len = 0
        /\ free'[i].off = free[i].off
        /\ free'[i].len = free[i].len + free[j].len
    BY <1>1, <2>1, <2>2 DEF Store!Block
  <2>4. Store!End(free'[i]) = Store!End(free[j])
    BY <1>1, <2>1, <2>3, PoolAssumption DEF Store!End, Store!Block
  <2> DEFINE now == <<i, j>>
             was(s) == IF s[1] = i THEN <<j, s[2]>> ELSE s
  <2>5. now \in Seams
    BY <1>4, <2>1 DEF Seams
  \* Every seam that is left was one before, of j if it is of i now.
  <2>6. ASSUME NEW s \in Seams'
        PROVE  /\ was(s) \in Seams /\ was(s) # now
               /\ s[1] # i => was(s) = s
               /\ s[1] # i /\ Due(s) => Due(s)'
    <3>1. /\ s \in Slot \X Slot /\ s[1] \in ActiveSlot /\ s[2] \in ActiveSlot
          /\ s[1] # s[2] /\ free'[s[1]].len > 0 /\ free'[s[2]].len > 0
          /\ Store!End(free'[s[1]]) = free'[s[2]].off
      BY <1>2 DEF Seams, Absorbs
    <3>2. s[1] # j /\ s[2] # j
      BY <2>3, <3>1
    <3>3. free[s[2]].off = free'[s[2]].off /\ free[s[2]].len > 0
      BY <2>1, <2>3, <3>1, <3>2
    <3>4. CASE s[1] = i
      <4>1. Absorbs(j, s[2])
        BY <2>1, <2>4, <3>1, <3>2, <3>3, <3>4 DEF Absorbs
      <4> QED
        BY <2>1, <3>1, <3>4, <4>1 DEF Seams
    <3>5. CASE s[1] # i
      <4>1. free'[s[1]] = free[s[1]]
        BY <2>3, <3>1, <3>2, <3>5
      <4>2. Absorbs(s[1], s[2])
        BY <3>1, <3>3, <4>1 DEF Absorbs
      <4>3. Due(s) => Due(s)'
        BY <1>1, <2>1, <3>1, <3>5 DEF Due, Slot
      <4> QED
        BY <3>1, <3>5, <4>2, <4>3 DEF Seams
    <3> QED
      BY <3>4, <3>5
  <2>7. ASSUME NEW s \in Seams', NEW t \in Seams', was(s) = was(t)
        PROVE  s = t
    <3>1. /\ s \in Slot \X Slot /\ t \in Slot \X Slot
          /\ free'[s[1]].len > 0 /\ free'[t[1]].len > 0
      BY DEF Seams, Absorbs
    <3>2. s[1] # j /\ t[1] # j
      BY <2>3, <3>1
    <3> QED
      BY <2>7, <3>1, <3>2
  <2>8. ASSUME NEW s \in Seams', NEW t \in Seams', s[1] = i, t[1] = i
        PROVE  s = t
    <3>1. was(s) \in Seams /\ was(t) \in Seams
      BY <2>6
    <3>2. /\ s \in Slot \X Slot /\ t \in Slot \X Slot
          /\ s[2] \in ActiveSlot /\ t[2] \in ActiveSlot
          /\ Absorbs(j, s[2]) /\ Absorbs(j, t[2])
      BY <1>2, <2>8, <3>1 DEF Seams
    <3>3. s[2] = t[2]
      <4>1. /\ free[s[2]] \in Store!Block /\ free[t[2]] \in Store!Block
            /\ free[s[2]].len > 0 /\ free[t[2]].len > 0
            /\ free[s[2]].off = free[t[2]].off
        BY <1>1, <3>2 DEF Absorbs
      <4>2. s[2] # t[2] => Store!Apart(free[s[2]], free[t[2]])
        BY <3>2 DEF PoolInv, FreeApart
      <4> QED
        BY <4>1, <4>2, EdgesDiffer
    <3> QED
      BY <2>8, <3>2, <3>3
  <2> HIDE DEF was, now
  <2>9. ASSUME NEW s \in Seams', NEW t \in Seams', s # t
        PROVE  Due(s)' \/ Due(t)'
    <3>1. /\ was(s) \in Seams /\ was(t) \in Seams /\ was(s) # was(t)
          /\ was(s) # now /\ was(t) # now
      BY <2>6, <2>7, <2>9
    <3>2. Due(was(s)) /\ Due(was(t))
      BY <2>5, <3>1 DEF SeamsFalling
    <3>3. s[1] # i \/ t[1] # i
      BY <2>8, <2>9
    <3> QED
      BY <2>6, <3>2, <3>3
  <2>10. \A s, t, u \in Seams' : s = t \/ s = u \/ t = u
    BY <2>5, <2>6, <2>7 DEF SeamsFalling
  <2> QED
    BY <2>9, <2>10 DEF SeamsFalling
<1> QED
  BY <1>3, <1>4

\* The merge pass is over: no pair is due.
LEMMA MergeDoneSeams ==
  ASSUME PoolInv, SeamsFalling, MergeDone
  PROVE  OneSeam'
<1>1. /\ stage = "merge" /\ stage' = "compact" /\ i = freeN /\ i' = 0 /\ w' = 0
      /\ free' = free /\ freeN' = freeN /\ freeN \in 0..MaxFree
  BY PoolAssumption DEF MergeDone, PoolInv, PoolTypeOK
<1>2. ActiveSlot' = ActiveSlot
  BY <1>1, PoolAssumption DEF ActiveSlot, Slot
<1>3. Seams' = Seams
  BY <1>1, <1>2 DEF Seams, Absorbs
<1>4. \A s \in Seams : ~Due(s)
  BY <1>1, PoolAssumption DEF Seams, ActiveSlot, Slot, Due
<1> QED
  BY <1>3, <1>4 DEF SeamsFalling, OneSeam

\* Moving a block down the array makes no seam.
LEMMA CompactSeams ==
  ASSUME PoolInv, OneSeam, CompactStep
  PROVE  OneSeam'
<1>1. /\ PoolTypeOK /\ freeN \in 0..MaxFree /\ MaxFree \in Nat
      /\ i \in 0..MaxFree /\ w \in 0..MaxFree
      /\ free \in [Slot -> Store!Block]
  BY PoolAssumption DEF PoolInv, PoolTypeOK
<1>2. /\ stage = "compact" /\ stage' = "compact"
      /\ i < freeN /\ i' = i + 1 /\ w <= i /\ freeN' = freeN
  BY DEF CompactStep, PoolInv, LoopState
<1>3. i \in Slot /\ w \in Slot /\ i \in ActiveSlot
  BY <1>1, <1>2 DEF Slot, ActiveSlot
<1> DEFINE src == [k \in Slot |-> IF k = w /\ free[i].len # 0 THEN i ELSE k]
<1>4. /\ src \in [Slot -> Slot]
      /\ \A k \in Slot : src[k] = IF k = w /\ free[i].len # 0 THEN i ELSE k
  BY <1>3
<1> HIDE DEF src
<1>5. /\ \A k \in Slot : free'[k] = free[src[k]]
      /\ w' = IF free[i].len = 0 THEN w ELSE w + 1
  <2>1. CASE free[i].len = 0
    BY <1>1, <1>2, <1>3, <1>4, <2>1 DEF CompactStep
  <2>2. CASE free[i].len # 0
    BY <1>1, <1>2, <1>3, <1>4, <2>2 DEF CompactStep
  <2> QED
    BY <2>1, <2>2
<1>6. \A k \in ActiveSlot' : k \in Slot /\ src[k] \in ActiveSlot
  BY <1>1, <1>2, <1>3, <1>4, <1>5 DEF ActiveSlot, Slot
<1>7. \A k, m \in ActiveSlot' : src[k] = src[m] => k = m
  BY <1>1, <1>2, <1>3, <1>4, <1>5 DEF ActiveSlot, Slot
<1>8. \A k, m \in ActiveSlot' : Absorbs(k, m)' => Absorbs(src[k], src[m])
  BY <1>5, <1>6, <1>7 DEF Absorbs
<1> QED
  BY <1>4, <1>6, <1>7, <1>8, SeamsCarry

\* The list ends where the compaction got to.
LEMMA CompactDoneSeams ==
  ASSUME PoolInv, OneSeam, CompactDone
  PROVE  OneSeam'
<1>1. /\ stage = "compact" /\ stage' = "shrink" /\ i = freeN /\ w <= i /\ freeN' = w
      /\ \A k \in Slot : k < w => free'[k] = free[k]
      /\ freeN \in 0..MaxFree /\ w \in 0..MaxFree
  BY DEF CompactDone, PoolInv, PoolTypeOK, LoopState
<1>2. \A k \in ActiveSlot' : k \in ActiveSlot /\ k \in Slot /\ free'[k] = free[k]
  BY <1>1, PoolAssumption DEF ActiveSlot, Slot
<1>3. Seams' \subseteq Seams
  BY <1>2 DEF Seams, Absorbs
<1> QED
  BY <1>3 DEF OneSeam

\* SeamInv survives every step, next to PoolInv.
LEMMA SeamStep == PoolInv /\ SeamInv /\ [PoolNext]_poolVars => SeamInv'
<1> SUFFICES ASSUME PoolInv, SeamInv, [PoolNext]_poolVars PROVE SeamInv'
  OBVIOUS
<1>1. PoolInv'
  BY StepInv
<1>2. ASSUME NEW o \in Owner, Alloc(o) \/ LargeDecoded(o) PROVE SeamInv'
  <2>1. PICK b \in Store!Block : b.len > 0 /\ Take(b.len, b, used')
    BY <1>2 DEF Alloc, LargeDecoded
  <2>2. Idle /\ stage = "idle" /\ stage' = stage
    BY <1>2 DEF Alloc, LargeDecoded, Idle
  <2>3. OneSeam
    BY <2>2 DEF SeamInv
  <2> QED
    BY <1>1, <2>1, <2>2, <2>3, TakeSeams DEF SeamInv
<1>3. CASE LargeFails
  <2>1. PICK b \in Store!Block, top \in 0..Cap :
            b.len > 0 /\ Take(b.len, b, top)
    BY <1>3 DEF LargeFails
  <2>2. Idle /\ stage = "idle" /\ stage' = stage
    BY <1>3 DEF LargeFails, Idle
  <2>3. OneSeam
    BY <2>2 DEF SeamInv
  <2> QED
    BY <1>1, <2>1, <2>2, <2>3, TakeSeams DEF SeamInv
<1>4. ASSUME NEW o \in Owner, FreeBegin(o) PROVE SeamInv'
  <2>1. stage = "idle" /\ stage' = "merge"
    BY <1>4 DEF FreeBegin, Idle
  <2>2. OneSeam
    BY <2>1 DEF SeamInv
  <2> QED
    BY <1>1, <1>4, <2>1, <2>2, FreeBeginSeams DEF SeamInv
<1>5. CASE MergeStep
  <2>1. stage = "merge" /\ stage' = "merge"
    BY <1>5 DEF MergeStep
  <2>2. SeamsFalling
    BY <2>1 DEF SeamInv
  <2> QED
    BY <1>1, <1>5, <2>1, <2>2, MergeSeams DEF SeamInv
<1>6. CASE MergeDone
  <2>1. stage = "merge" /\ stage' = "compact"
    BY <1>6 DEF MergeDone
  <2>2. SeamsFalling
    BY <2>1 DEF SeamInv
  <2> QED
    BY <1>6, <2>1, <2>2, MergeDoneSeams DEF SeamInv
<1>7. CASE CompactStep
  <2>1. stage = "compact" /\ stage' = "compact"
    BY <1>7 DEF CompactStep
  <2>2. OneSeam
    BY <2>1 DEF SeamInv
  <2> QED
    BY <1>7, <2>1, <2>2, CompactSeams DEF SeamInv
<1>8. CASE CompactDone
  <2>1. stage = "compact" /\ stage' = "shrink"
    BY <1>8 DEF CompactDone
  <2>2. OneSeam
    BY <2>1 DEF SeamInv
  <2> QED
    BY <1>8, <2>1, <2>2, CompactDoneSeams DEF SeamInv
<1>9. CASE ShrinkStep
  <2>1. PICK q \in Slot : AtTail(q) /\ DropSlot(q)
    BY <1>9 DEF ShrinkStep
  <2>2. stage = "shrink" /\ stage' = stage
    BY <1>9 DEF ShrinkStep
  <2>3. OneSeam
    BY <2>2 DEF SeamInv
  <2>4. q \in 0..(freeN - 1)
    BY <2>1, BelowSlot DEF AtTail, PoolInv, PoolTypeOK
  <2>5. OneSeam'
    BY <1>1, <2>1, <2>2, <2>3, <2>4, DropSeams
  <2> QED
    BY <2>2, <2>5 DEF SeamInv
<1>10. CASE ShrinkDone \/ LargeBegin \/ LargeGivesUp \/ UNCHANGED poolVars
  <2>1. /\ free' = free /\ freeN' = freeN /\ i' = i /\ j' = j /\ w' = w
        /\ stage' = stage \/ (stage = "shrink" /\ stage' = "idle")
    BY <1>10 DEF ShrinkDone, LargeBegin, LargeGivesUp, poolVars
  <2>2. ActiveSlot' = ActiveSlot
    <3>1. CASE stage' = stage
      BY <2>1, <3>1 DEF ActiveSlot
    <3>2. CASE stage = "shrink" /\ stage' = "idle"
      BY <2>1, <3>2 DEF ActiveSlot
    <3> QED
      BY <2>1, <3>1, <3>2
  <2>3. Seams' = Seams
    BY <2>1, <2>2 DEF Seams, Absorbs
  <2>4. \A s : Due(s)' <=> Due(s)
    BY <2>1 DEF Due
  <2> QED
    BY <2>1, <2>3, <2>4 DEF SeamInv, OneSeam, SeamsFalling
<1> QED
  BY <1>2, <1>3, <1>4, <1>5, <1>6, <1>7, <1>8, <1>9, <1>10 DEF PoolNext

\* Two neighbouring free blocks at most stay unmerged between operations,
\* whatever the order in which the slots were filled (the double loop of
\* img_pixel_free looks at each pair once and does not start again).
THEOREM OneSeamAtMost == PoolSpec => []AtMostOneSeam
<1>1. PoolInit => SeamInv
  BY PoolAssumption DEF PoolInit, SeamInv, OneSeam, Seams, ActiveSlot, Slot
<1>2. PoolInv /\ SeamInv => AtMostOneSeam
  <2> SUFFICES ASSUME PoolInv, SeamInv, Idle
               PROVE  Cardinality({s \in Slot \X Slot : Seam(s[1], s[2])}) <= 1
    BY DEF AtMostOneSeam
  <2> DEFINE S == {s \in Slot \X Slot : Seam(s[1], s[2])}
  <2>1. S \subseteq Seams
    BY DEF Seam, Seams, ActiveSlot, Idle
  <2>2. OneSeam
    BY DEF SeamInv, Idle
  <2>3. \A s, t \in S : s = t
    BY <2>1, <2>2 DEF OneSeam
  <2> HIDE DEF S
  <2>4. CASE S = {}
    <3>1. Cardinality(S) = 0
      BY <2>4, FS_EmptySet
    <3> QED
      BY <3>1 DEF S
  <2>5. CASE S # {}
    <3>1. PICK s \in S : TRUE
      BY <2>5
    <3>2. S = {s}
      BY <2>3, <3>1
    <3>3. Cardinality(S) = 1
      BY <3>2, FS_Singleton
    <3> QED
      BY <3>3 DEF S
  <2> QED
    BY <2>4, <2>5
<1> QED
  BY <1>1, <1>2, SeamStep, PoolSafe, PTL DEF PoolSpec

-----------------------------------------------------------------------------
(***************************************************************************)
(* Leaks: which pixels are accounted for.                                  *)
(***************************************************************************)

\* A pixel of an entry or of a free block that the list still knows.
Kept(x) == \/ \E o \in Owner : x \in Pixels(live[o])
           \/ \E k \in ActiveSlot : x \in Pixels(free[k])

\* What is kept stays so below the bump pointer, and what the pointer moves
\* over is kept: then nothing new is lost.
LEMMA NothingNewLost ==
  ASSUME used \in Nat,
         \A x \in 0..(used' - 1) : Kept(x) \/ x >= used => Kept(x)'
  PROVE  LostPixels' \subseteq LostPixels
<1> SUFFICES ASSUME NEW x \in LostPixels' PROVE x \in LostPixels
  OBVIOUS
<1>1. /\ x \in 0..(used' - 1)
      /\ \A o \in Owner : x \notin Pixels(live[o])'
      /\ \A k \in ActiveSlot' : x \notin Pixels(free[k])'
  BY DEF LostPixels
<1>2. ~Kept(x)'
  BY <1>1 DEF Kept
<1>3. ~Kept(x) /\ x \in 0..(used - 1)
  BY <1>1, <1>2
<1> QED
  BY <1>3 DEF LostPixels, Kept

\* The pixels of a block that is handed out are the entry's; the others stay
\* where they were.
LEMMA AcquireKeeps ==
  ASSUME PoolInv, PoolInv', NEW o \in Owner, Alloc(o) \/ LargeDecoded(o)
  PROVE  LostPixels' \subseteq LostPixels
<1>1. PICK b \in Store!Block : /\ b.len > 0
                               /\ Take(b.len, b, used')
                               /\ live' = [live EXCEPT ![o] = b]
  BY DEF Alloc, LargeDecoded
<1>2. /\ stage = "idle" /\ stage' = "idle" /\ live[o].len = 0
      /\ PoolTypeOK /\ used \in 0..Cap /\ freeN \in 0..MaxFree /\ Cap \in Nat
      /\ free \in [Slot -> Store!Block] /\ live \in [Owner -> Store!Block]
      /\ MaxFree \in Nat
  BY PoolAssumption DEF Alloc, LargeDecoded, Idle, PoolInv, PoolTypeOK
<1>3. ActiveSlot = 0..(freeN - 1) /\ ActiveSlot' = 0..(freeN' - 1)
  BY <1>2, AllActive DEF PoolInv, PoolTypeOK, ActiveSlot, Slot
<1>4. /\ Pixels(live[o]) = {}
      /\ \A p \in Owner : p # o => live'[p] = live[p]
      /\ live'[o] = b
  BY <1>1, <1>2 DEF Pixels, Store!End, Store!Block
<1> SUFFICES ASSUME NEW x \in 0..(used' - 1), Kept(x) \/ x >= used
             PROVE  Kept(x)'
  BY <1>2, NothingNewLost
<1>5. ASSUME x \in Pixels(b) PROVE Kept(x)'
  BY <1>4, <1>5 DEF Kept, Pixels, Store!End
<1>6. ASSUME NEW p \in Owner, x \in Pixels(live[p]) PROVE Kept(x)'
  <2>1. p # o
    BY <1>4, <1>6
  <2>2. live'[p] = live[p]
    BY <1>4, <2>1
  <2> QED
    BY <1>6, <2>2 DEF Kept, Pixels, Store!End
<1>7. ASSUME NEW k \in ActiveSlot', x \in Pixels(free'[k]) PROVE Kept(x)'
  BY <1>7 DEF Kept, Pixels, Store!End
<1>8. CASE Bump(b.len, b) /\ used' = used + b.len
  <2>1. free' = free /\ ActiveSlot' = ActiveSlot /\ b.off = used
    BY <1>3, <1>8 DEF Bump
  <2>2. x >= used => x \in Pixels(b)
    BY <1>2, <1>8, <2>1 DEF Pixels, Store!End, Store!Block
  <2>3. \A k \in ActiveSlot : Pixels(free[k])' = Pixels(free[k])
    BY <2>1 DEF Pixels, Store!End
  <2> QED
    BY <1>5, <1>6, <1>7, <2>1, <2>2, <2>3 DEF Kept
<1>9. CASE CarveFree(b.len, b) /\ used' = used
  <2>1. PICK q \in Slot :
            /\ BestFit(b.len, q)
            /\ b = [off |-> free[q].off, len |-> b.len]
            /\ IF free[q].len = b.len
               THEN DropSlot(q)
               ELSE /\ free' = [free EXCEPT ![q] = [off |-> @.off + b.len,
                                                    len |-> @.len - b.len]]
                    /\ UNCHANGED freeN
    BY <1>9 DEF CarveFree
  <2>2. /\ q \in 0..(freeN - 1) /\ free[q].len >= b.len
        /\ b.off = free[q].off /\ free[q] \in Store!Block
    BY <1>2, <2>1 DEF BestFit, Fits
  <2>3. ASSUME NEW k \in ActiveSlot, x \in Pixels(free[k]) PROVE Kept(x)'
    <3>1. CASE free[q].len = b.len
      <4>1. /\ freeN' = freeN - 1
            /\ \A m \in 0..(freeN' - 1) :
                  free'[m] = IF m = q THEN free[freeN - 1] ELSE free[m]
        BY <1>2, <2>1, <2>2, <3>1, DropSlotFacts
      <4>2. CASE k = q
        BY <1>5, <2>2, <2>3, <3>1, <4>2 DEF Pixels, Store!End
      <4>3. CASE k # q
        <5>1. PICK m \in ActiveSlot' : free'[m] = free[k]
          <6>1. CASE k = freeN - 1
            <7>1. q \in ActiveSlot' /\ free'[q] = free[k]
              BY <1>2, <1>3, <2>2, <4>1, <4>3, <6>1
            <7> QED
              BY <7>1
          <6>2. CASE k # freeN - 1
            <7>1. k \in ActiveSlot' /\ free'[k] = free[k]
              BY <1>2, <1>3, <2>2, <4>1, <4>3, <6>2
            <7> QED
              BY <7>1
          <6> QED
            BY <6>1, <6>2
        <5> QED
          BY <1>7, <2>3, <5>1
      <4> QED
        BY <4>2, <4>3
    <3>2. CASE free[q].len # b.len
      <4> DEFINE r == [off |-> free[q].off + b.len, len |-> free[q].len - b.len]
      <4>1. free' = [free EXCEPT ![q] = r] /\ freeN' = freeN
        BY <2>1, <3>2
      <4>2. r.off = free[q].off + b.len /\ r.len = free[q].len - b.len
        OBVIOUS
      <4> HIDE DEF r
      <4>3. k \in ActiveSlot' /\ k \in Slot
        BY <1>3, <4>1 DEF ActiveSlot
      <4>4. CASE k = q
        <5>1. free'[k] = r
          BY <1>2, <4>1, <4>3, <4>4
        <5>2. /\ x \in free[q].off .. (free[q].off + free[q].len - 1)
              /\ free[q].off \in Nat /\ free[q].len \in Nat /\ b.len \in Nat
          BY <2>2, <2>3, <4>4, PoolAssumption DEF Pixels, Store!End, Store!Block
        <5>3. x \in Pixels(b) \/ x \in Pixels(r)
          BY <2>2, <4>2, <5>2 DEF Pixels, Store!End
        <5> QED
          BY <1>5, <1>7, <4>3, <5>1, <5>3
      <4>5. CASE k # q
        <5>1. free'[k] = free[k]
          BY <1>2, <4>1, <4>3, <4>5
        <5> QED
          BY <1>7, <2>3, <4>3, <5>1
      <4> QED
        BY <4>4, <4>5
    <3> QED
      BY <3>1, <3>2
  <2>4. ~(x >= used)
    BY <1>2, <1>9
  <2> QED
    BY <1>6, <2>3, <2>4 DEF Kept
<1> QED
  BY <1>1, <1>8, <1>9 DEF Take

\* A recorded release moves the entry's pixels to the list.
LEMMA FreeBeginKeeps ==
  ASSUME PoolInv, PoolInv', NEW e \in Owner, FreeBegin(e), freeN # MaxFree
  PROVE  LostPixels' \subseteq LostPixels
<1>1. /\ PoolTypeOK /\ freeN \in 0..MaxFree /\ MaxFree \in Nat /\ used \in Nat
      /\ free \in [Slot -> Store!Block] /\ live \in [Owner -> Store!Block]
      /\ stage = "idle" /\ stage' = "merge" /\ used' = used
  BY PoolAssumption DEF PoolInv, PoolTypeOK, FreeBegin, Idle
<1>2. /\ free' = [free EXCEPT ![freeN] = live[e]] /\ freeN' = freeN + 1
      /\ \A o \in Owner : o # e => live'[o] = live[o]
  BY <1>1 DEF FreeBegin
<1>3. ActiveSlot = 0..(freeN - 1) /\ ActiveSlot' = 0..freeN
  BY <1>1, <1>2 DEF ActiveSlot, Slot
<1>4. /\ freeN \in Slot /\ free'[freeN] = live[e]
      /\ \A k \in ActiveSlot : k \in ActiveSlot' /\ free'[k] = free[k]
  BY <1>1, <1>2, <1>3 DEF Slot
<1> SUFFICES ASSUME NEW x \in 0..(used' - 1), Kept(x)
             PROVE  Kept(x)'
  BY <1>1, NothingNewLost
<1>5. ASSUME NEW k \in ActiveSlot', x \in Pixels(free'[k]) PROVE Kept(x)'
  BY <1>5 DEF Kept, Pixels, Store!End
<1>6. ASSUME NEW o \in Owner, x \in Pixels(live'[o]) PROVE Kept(x)'
  BY <1>6 DEF Kept, Pixels, Store!End
<1>7. freeN \in ActiveSlot'
  BY <1>1, <1>3
<1>8. ASSUME NEW o \in Owner, x \in Pixels(live[o]) PROVE Kept(x)'
  <2>1. CASE o = e
    BY <1>4, <1>5, <1>7, <1>8, <2>1
  <2>2. CASE o # e
    BY <1>2, <1>6, <1>8, <2>2
  <2> QED
    BY <2>1, <2>2
<1>9. ASSUME NEW k \in ActiveSlot, x \in Pixels(free[k]) PROVE Kept(x)'
  BY <1>4, <1>5, <1>9
<1> QED
  BY <1>8, <1>9 DEF Kept

\* A step that touches no live block and keeps the pixels of every active
\* slot in some active slot, if they are below the bump pointer.
LEMMA ListKeeps ==
  ASSUME used \in Nat, used' \in Nat, used' <= used, UNCHANGED live,
         \A k \in ActiveSlot : \A x \in Pixels(free[k]) :
            x < used' => \E m \in ActiveSlot' : x \in Pixels(free'[m])
  PROVE  LostPixels' \subseteq LostPixels
<1>0. \A x \in 0..(used' - 1) : x < used' /\ ~(x >= used)
  <2> DEFINE top == used
             low == used'
  <2>1. top \in Nat /\ low \in Nat /\ low <= top
    OBVIOUS
  <2> HIDE DEF top, low
  <2>2. \A x \in 0..(low - 1) : x < low /\ ~(x >= top)
    BY <2>1
  <2> QED
    BY <2>2 DEF top, low
<1> SUFFICES ASSUME NEW x \in 0..(used' - 1), Kept(x)
             PROVE  Kept(x)'
  BY <1>0, NothingNewLost
<1>1. ASSUME NEW o \in Owner, x \in Pixels(live[o]) PROVE Kept(x)'
  <2>1. live'[o] = live[o]
    OBVIOUS
  <2> QED
    BY <1>1, <2>1 DEF Kept, Pixels, Store!End
<1>2. ASSUME NEW k \in ActiveSlot, x \in Pixels(free[k]) PROVE Kept(x)'
  <2>1. PICK m \in ActiveSlot' : x \in Pixels(free'[m])
    BY <1>0, <1>2
  <2> QED
    BY <2>1 DEF Kept, Pixels, Store!End
<1> QED
  BY <1>1, <1>2 DEF Kept

\* A merge: the absorbing block has the pixels of both.
LEMMA MergeKeeps ==
  ASSUME PoolInv, MergeStep
  PROVE  LostPixels' \subseteq LostPixels
<1>1. /\ PoolTypeOK /\ freeN \in 0..MaxFree /\ free \in [Slot -> Store!Block]
      /\ MaxFree \in Nat /\ used \in Nat /\ used' = used /\ live' = live
      /\ stage = "merge" /\ stage' = "merge" /\ freeN' = freeN /\ i < freeN
      /\ i \in Nat /\ j \in Nat
  BY PoolAssumption DEF PoolInv, PoolTypeOK, MergeStep
<1>2. ActiveSlot = 0..(freeN - 1) /\ ActiveSlot' = ActiveSlot
  BY <1>1, AllActive DEF ActiveSlot
<1> SUFFICES ASSUME NEW k \in ActiveSlot, NEW x \in Pixels(free[k])
             PROVE  \E m \in ActiveSlot : x \in Pixels(free'[m])
  BY <1>1, <1>2, ListKeeps
<1>3. CASE ~(j < freeN /\ Absorbs(i, j))
  <2>1. free' = free
    BY <1>3 DEF MergeStep
  <2> QED
    BY <2>1
<1>4. CASE j < freeN /\ Absorbs(i, j)
  <2>1. /\ i \in ActiveSlot /\ j \in ActiveSlot /\ i # j
        /\ i \in Slot /\ j \in Slot
        /\ Store!End(free[i]) = free[j].off
    BY <1>1, <1>2, <1>4 DEF Absorbs, Slot
  <2>2. free' = [free EXCEPT ![i].len = @ + free[j].len, ![j].len = 0]
    BY <1>4 DEF MergeStep
  <2>3. /\ \A m \in Slot : m # i /\ m # j => free'[m] = free[m]
        /\ free'[i].off = free[i].off
        /\ free'[i].len = free[i].len + free[j].len
    BY <1>1, <2>1, <2>2 DEF Store!Block
  <2>4. CASE k = i \/ k = j
    <3>1. /\ x \in Int /\ x >= free[i].off
          /\ x < free[i].off + free[i].len + free[j].len
      BY <1>1, <2>1, <2>4, PoolAssumption DEF Pixels, Store!End, Store!Block
    <3>2. /\ free[i].off \in Nat /\ free[i].len \in Nat /\ free[j].len \in Nat
      BY <1>1, <2>1, PoolAssumption DEF Store!Block
    <3>3. x \in Pixels(free'[i])
      BY <2>3, <3>1, <3>2 DEF Pixels, Store!End
    <3> QED
      BY <2>1, <3>3
  <2>5. CASE ~(k = i \/ k = j)
    BY <2>3, <2>5 DEF ActiveSlot
  <2> QED
    BY <2>4, <2>5
<1> QED
  BY <1>3, <1>4

\* The compaction drops only empty blocks.
LEMMA CompactKeeps ==
  ASSUME PoolInv, CompactStep
  PROVE  LostPixels' \subseteq LostPixels
<1>1. /\ PoolTypeOK /\ freeN \in 0..MaxFree /\ MaxFree \in Nat
      /\ i \in 0..MaxFree /\ w \in 0..MaxFree
      /\ free \in [Slot -> Store!Block] /\ used \in Nat
  BY PoolAssumption DEF PoolInv, PoolTypeOK
<1>2. /\ stage = "compact" /\ stage' = "compact"
      /\ i < freeN /\ i' = i + 1 /\ w <= i /\ freeN' = freeN
      /\ used' = used /\ live' = live
  BY DEF CompactStep, PoolInv, LoopState
<1>3. i \in Slot /\ w \in Slot
  BY <1>1, <1>2 DEF Slot
<1>a. used \in Nat /\ used' \in Nat /\ used' <= used /\ UNCHANGED live
  BY <1>1, <1>2
<1> SUFFICES ASSUME NEW k \in ActiveSlot, NEW x \in Pixels(free[k])
             PROVE  \E m \in ActiveSlot' : x \in Pixels(free'[m])
  BY <1>a, ListKeeps
<1>4. CASE free[i].len = 0
  <2>1. free' = free /\ w' = w
    BY <1>4 DEF CompactStep
  <2>2. k # i
    BY <1>1, <1>3, <1>4, PoolAssumption DEF Pixels, Store!End, Store!Block
  <2>3. k \in ActiveSlot'
    BY <1>1, <1>2, <2>1, <2>2 DEF ActiveSlot, Slot
  <2> QED
    BY <2>1, <2>3
<1>5. CASE free[i].len # 0
  <2>1. free' = [free EXCEPT ![w] = free[i]] /\ w' = w + 1
    BY <1>5 DEF CompactStep
  <2>2. CASE k = i
    <3>1. w \in ActiveSlot' /\ free'[w] = free[k]
      BY <1>1, <1>2, <1>3, <2>1, <2>2 DEF ActiveSlot, Slot
    <3> QED
      BY <3>1
  <2>3. CASE k # i
    <3>1. k \in ActiveSlot' /\ k \in Slot /\ k # w
      BY <1>1, <1>2, <1>3, <2>1, <2>3 DEF ActiveSlot, Slot
    <3>2. free'[k] = free[k]
      BY <1>1, <2>1, <3>1
    <3> QED
      BY <3>1, <3>2
  <2> QED
    BY <2>2, <2>3
<1> QED
  BY <1>4, <1>5

\* The block at the tail is no longer below the bump pointer.
LEMMA ShrinkKeeps ==
  ASSUME PoolInv, ShrinkStep
  PROVE  LostPixels' \subseteq LostPixels
<1>1. /\ PoolTypeOK /\ used \in Nat /\ freeN \in 0..MaxFree /\ MaxFree \in Nat
      /\ free \in [Slot -> Store!Block]
  BY PoolAssumption DEF PoolInv, PoolTypeOK
<1>2. PICK q \in Slot : AtTail(q) /\ used' = used - free[q].len /\ DropSlot(q)
  BY DEF ShrinkStep
<1>3. stage = "shrink" /\ stage' = "shrink" /\ live' = live
  BY DEF ShrinkStep
<1>4. q \in 0..(freeN - 1) /\ Store!End(free[q]) = used
  BY <1>1, <1>2, BelowSlot DEF AtTail
<1>5. /\ freeN' = freeN - 1
      /\ \A m \in 0..(freeN' - 1) :
            free'[m] = IF m = q THEN free[freeN - 1] ELSE free[m]
  BY <1>1, <1>2, <1>4, DropSlotFacts
<1>6. ActiveSlot = 0..(freeN - 1) /\ ActiveSlot' = 0..(freeN - 2)
  BY <1>1, <1>3, <1>5 DEF ActiveSlot, Slot
<1>7. used' \in Nat /\ used' <= used /\ used' = free[q].off
  BY <1>1, <1>2, <1>4, PoolAssumption DEF Store!End, Store!Block
<1> SUFFICES ASSUME NEW k \in ActiveSlot, NEW x \in Pixels(free[k]), x < used'
             PROVE  \E m \in ActiveSlot' : x \in Pixels(free'[m])
  BY <1>1, <1>3, <1>7, ListKeeps
<1>8. k # q
  BY <1>1, <1>7, PoolAssumption DEF Pixels, Store!End, Store!Block
<1>9. CASE k = freeN - 1
  <2>1. q \in ActiveSlot' /\ free'[q] = free[k]
    BY <1>1, <1>4, <1>5, <1>6, <1>8, <1>9
  <2> QED
    BY <2>1
<1>10. CASE k # freeN - 1
  <2>1. k \in ActiveSlot' /\ free'[k] = free[k]
    BY <1>1, <1>5, <1>6, <1>8, <1>10
  <2> QED
    BY <2>1
<1> QED
  BY <1>9, <1>10

\* No step but an overflowing release and the undo of a failed decode loses
\* a pixel.
LEMMA LeakStep ==
  PoolInv /\ PoolInv' /\ [PoolNext]_poolVars =>
     [ LostPixels' \subseteq LostPixels \/ LargeFails
       \/ \E o \in Owner : FreeBegin(o) /\ freeN = MaxFree ]_poolVars
<1> SUFFICES ASSUME PoolInv, PoolInv', [PoolNext]_poolVars, ~LargeFails,
                    ~\E o \in Owner : FreeBegin(o) /\ freeN = MaxFree
             PROVE  LostPixels' \subseteq LostPixels
  OBVIOUS
<1>1. ASSUME NEW o \in Owner, Alloc(o) \/ LargeDecoded(o) PROVE LostPixels' \subseteq LostPixels
  BY <1>1, AcquireKeeps
<1>2. ASSUME NEW o \in Owner, FreeBegin(o) PROVE LostPixels' \subseteq LostPixels
  BY <1>2, FreeBeginKeeps
<1>3. CASE MergeStep
  BY <1>3, MergeKeeps
<1>4. CASE CompactStep
  BY <1>4, CompactKeeps
<1>5. CASE ShrinkStep
  BY <1>5, ShrinkKeeps
<1>6. CASE \/ MergeDone \/ CompactDone \/ ShrinkDone \/ LargeBegin
           \/ LargeGivesUp \/ UNCHANGED poolVars
  <2>1. /\ used \in Nat /\ used' = used /\ live' = live
        /\ freeN \in 0..MaxFree /\ MaxFree \in Nat
    BY <1>6, PoolAssumption DEF MergeDone, CompactDone, ShrinkDone, LargeBegin,
         LargeGivesUp, poolVars, PoolInv, PoolTypeOK
  <2>2. \A k \in ActiveSlot : k \in ActiveSlot' /\ free'[k] = free[k]
    <3>1. CASE MergeDone
      BY <2>1, <3>1 DEF MergeDone, ActiveSlot, Slot
    <3>2. CASE CompactDone
      BY <2>1, <3>2 DEF CompactDone, ActiveSlot, Slot
    <3>3. CASE ShrinkDone
      BY <2>1, <3>3 DEF ShrinkDone, ActiveSlot, Slot
    <3>4. CASE LargeBegin \/ LargeGivesUp \/ UNCHANGED poolVars
      BY <2>1, <3>4 DEF LargeBegin, LargeGivesUp, poolVars, ActiveSlot, Slot
    <3> QED
      BY <1>6, <3>1, <3>2, <3>3, <3>4
  <2> QED
    BY <2>1, <2>2, ListKeeps
<1> QED
  BY <1>1, <1>2, <1>3, <1>4, <1>5, <1>6 DEF PoolNext

\* Memory is lost in two ways only: a release into a full list, and the undo
\* of a failed decode (img_pixel_free, img_decode_large_pump_one).
THEOREM LeaksKnown == PoolSpec => LostOnlyByOverflowOrFailedDecode
BY LeakStep, PoolSafe, PTL DEF PoolSpec, LostOnlyByOverflowOrFailedDecode
=============================================================================
