--------------------------- MODULE BufferPoolProofs ---------------------------
(***************************************************************************)
(* BufferPool's safety properties, for any capacity, any number of pages   *)
(* and any contents.                                                       *)
(***************************************************************************)
EXTENDS BufferPool, InductionProofs, SequenceTheorems

-----------------------------------------------------------------------------
(* The eviction loop.                                                      *)

Looks == 2 * Capacity + 1

Start == [frames |-> frames, hand |-> clock_hand, victim |-> 0]

\* The recursive definition of the loop has a solution.
LEMMA SweepUnfolds ==
    Sweep = [n \in 0..Looks |-> IF n = 0 THEN Start ELSE Look(Sweep[n - 1])]
<1> DEFINE G(g, m) == [n \in 0..m |-> IF n = 0 THEN Start ELSE Look(g[n - 1])]
           Bad == {m \in 0..Looks : ~\E g : g = G(g, m)}
<1>0. Looks \in Nat
  BY CapacityAssumption DEF Looks
<1>1. Bad = {}
  <2> SUFFICES ASSUME Bad # {} PROVE FALSE
    OBVIOUS
  <2>1. PICK m \in Bad : \A x \in Bad : m <= x
    <3>1. Bad \in SUBSET Nat
      BY <1>0
    <3> HIDE DEF Bad
    <3> QED
      BY <3>1, SmallestNat
  <2>2. CASE m = 0
    <3> DEFINE g == [n \in 0..m |-> Start]
    <3>1. g = G(g, m)
      BY <2>2
    <3> QED
      BY <2>1, <3>1
  <2>3. CASE m # 0
    <3>1. m - 1 \in 0..Looks /\ m - 1 \notin Bad /\ m \in Nat
      BY <1>0, <2>1, <2>3
    <3>2. PICK h : h = G(h, m - 1)
      BY <3>1
    <3> DEFINE g == G(h, m)
    <3>3. \A n \in 0..m : n # 0 => g[n - 1] = h[n - 1]
      <4> SUFFICES ASSUME NEW n \in 0..m, n # 0 PROVE g[n - 1] = h[n - 1]
        OBVIOUS
      <4>1. n - 1 \in 0..m /\ n - 1 \in 0..(m - 1)
        BY <3>1
      <4>2. g[n - 1] = IF n - 1 = 0 THEN Start ELSE Look(h[(n - 1) - 1])
        BY <4>1
      <4>3. h[n - 1] = IF n - 1 = 0 THEN Start ELSE Look(h[(n - 1) - 1])
        BY <3>2, <4>1
      <4> QED
        BY <4>2, <4>3
    <3>4. g = G(g, m)
      BY <3>3
    <3> QED
      BY <2>1, <3>4
  <2> QED
    BY <2>2, <2>3
<1>2. \E g : g = G(g, Looks)
  <2>1. Looks \in 0..Looks
    BY <1>0
  <2> QED
    BY <1>1, <2>1, Zenon
<1> QED
  BY <1>2 DEF Sweep, Looks, Start
\* What the loop has done when it has a state: it took away reference bits
\* and nothing else, and a victim is a frame nobody has pinned.
SameButRef(f, g) ==
    /\ f.page_id = g.page_id /\ f.page = g.page
    /\ f.pin_count = g.pin_count /\ f.dirty = g.dirty

Swept(s) ==
    /\ s.frames \in Seq(Frame) /\ Len(s.frames) = Capacity
    /\ \A i \in 1..Capacity : SameButRef(s.frames[i], frames[i])
    /\ s.hand \in 1..Capacity
    /\ s.victim \in 0..Capacity
    /\ s.victim # 0 => frames[s.victim].pin_count = 0

\* Rounds of the clock: the n-th look is at the frame n places on.
At(i, n) ==
    \/ clock_hand + n = i
    \/ clock_hand + n = i + Capacity
    \/ clock_hand + n = i + 2 * Capacity
    \/ clock_hand + n = i + 3 * Capacity

\* Without a victim, a frame nobody has pinned has been looked at at most
\* once, and has then lost its second chance.
NoneYet(s, n) ==
    s.victim = 0 =>
        /\ At(s.hand, n)
        /\ \A i \in 1..Capacity, d \in 0..(Capacity - 1) :
              frames[i].pin_count = 0 /\ At(i, d) =>
                 /\ n > d => ~s.frames[i].ref_bit
                 /\ n <= d + Capacity

\* Taking away a reference bit.
LEMMA RefBitCleared ==
    ASSUME NEW f \in Frame
    PROVE  LET g == [f EXCEPT !.ref_bit = FALSE]
           IN  g \in Frame /\ SameButRef(g, f) /\ ~g.ref_bit
BY DEF Frame, SameButRef

\* The hand goes around.
LEMMA HandMoves ==
    ASSUME NEW h \in 1..Capacity
    PROVE  (h % Capacity) + 1 = IF h = Capacity THEN 1 ELSE h + 1
<1>1. CASE h = Capacity
  BY <1>1, CapacityAssumption
<1>2. CASE h # Capacity
  BY <1>2, CapacityAssumption
<1> QED
  BY <1>1, <1>2

\* What one look does, while there is no victim.
LEMMA LookEffect ==
    ASSUME NEW s, Swept(s), s.victim = 0, frames \in Seq(Frame), Len(frames) = Capacity
    PROVE  /\ Swept(Look(s))
           /\ Look(s).hand = IF s.hand = Capacity THEN 1 ELSE s.hand + 1
           /\ \A i \in 1..Capacity :
                 ~s.frames[i].ref_bit \/ (i = s.hand /\ frames[i].pin_count = 0)
                    => ~Look(s).frames[i].ref_bit
           /\ Look(s).victim = IF frames[s.hand].pin_count = 0 /\ ~s.frames[s.hand].ref_bit
                               THEN s.hand ELSE 0
<1> DEFINE h == s.hand
           f == s.frames[h]
           g == [f EXCEPT !.ref_bit = FALSE]
           fs == [s.frames EXCEPT ![h] = g]
<1>1. /\ h \in 1..Capacity /\ s.frames \in Seq(Frame) /\ Len(s.frames) = Capacity
      /\ \A i \in 1..Capacity : SameButRef(s.frames[i], frames[i])
      /\ Capacity \in Nat
  BY CapacityAssumption DEF Swept
<1>2. f \in Frame /\ f.pin_count = frames[h].pin_count
  BY <1>1, ElementOfSeq DEF SameButRef
<1>3. g \in Frame /\ SameButRef(g, f) /\ ~g.ref_bit
  BY <1>2, RefBitCleared
<1>4. /\ fs \in Seq(Frame) /\ Len(fs) = Capacity
      /\ \A j \in 1..Capacity : fs[j] = IF j = h THEN g ELSE s.frames[j]
  BY <1>1, <1>3, ExceptSeq
<1>5. fs = [s.frames EXCEPT ![s.hand].ref_bit = FALSE]
  OBVIOUS
<1>6. \A i \in 1..Capacity : SameButRef(fs[i], frames[i])
  <2> TAKE i \in 1..Capacity
  <2>1. CASE i = h
    BY <1>1, <1>3, <1>4, <2>1 DEF SameButRef
  <2>2. CASE i # h
    BY <1>1, <1>4, <2>2
  <2> QED
    BY <2>1, <2>2
<1>7. (h % Capacity) + 1 = IF h = Capacity THEN 1 ELSE h + 1
  BY <1>1, HandMoves
<1> HIDE DEF fs, g, f, h
<1>8. (h % Capacity) + 1 \in 1..Capacity
  BY <1>1, <1>7
<1>9. CASE frames[h].pin_count = 0
  <2>1. Look(s) = [frames |-> fs, hand |-> (h % Capacity) + 1,
                   victim |-> IF ~f.ref_bit THEN h ELSE 0]
    BY <1>2, <1>5, <1>9 DEF Look, Evictable, f, h
  <2>2. Swept(Look(s))
    BY <1>1, <1>4, <1>6, <1>8, <1>9, <2>1 DEF Swept
  <2>3. \A i \in 1..Capacity : ~s.frames[i].ref_bit \/ i = h => ~Look(s).frames[i].ref_bit
    BY <1>1, <1>3, <1>4, <2>1
  <2>4. /\ Look(s).hand = IF h = Capacity THEN 1 ELSE h + 1
        /\ Look(s).victim = IF ~f.ref_bit THEN h ELSE 0
    BY <1>7, <2>1
  <2> QED
    BY <1>9, <2>2, <2>3, <2>4 DEF f, h
<1>10. CASE frames[h].pin_count # 0
  <2>1. Look(s) = [frames |-> s.frames, hand |-> (h % Capacity) + 1, victim |-> 0]
    BY <1>2, <1>10 DEF Look, Evictable, f, h
  <2>2. Swept(Look(s))
    BY <1>1, <1>8, <2>1 DEF Swept
  <2>3. /\ Look(s).hand = IF h = Capacity THEN 1 ELSE h + 1
        /\ Look(s).victim = 0 /\ Look(s).frames = s.frames
    BY <1>7, <2>1
  <2> QED
    BY <1>10, <2>2, <2>3 DEF h
<1> QED
  BY <1>9, <1>10
\* Two looks at the same distance are at the same frame.
LEMMA AtOnce ==
    ASSUME NEW i \in 1..Capacity, NEW j \in 1..Capacity, NEW n \in Nat,
           clock_hand \in 1..Capacity, At(i, n), At(j, n) \/ At(j, n + Capacity)
    PROVE  i = j
BY CapacityAssumption DEF At

\* One look keeps the account of the rounds.
LEMMA LookKeepsNoneYet ==
    ASSUME NEW s, NEW n \in Nat, n < Looks, Swept(s), s.victim = 0, NoneYet(s, n),
           frames \in Seq(Frame), Len(frames) = Capacity, clock_hand \in 1..Capacity
    PROVE  NoneYet(Look(s), n + 1)
<1> SUFFICES ASSUME Look(s).victim = 0
             PROVE  /\ At(Look(s).hand, n + 1)
                    /\ \A i \in 1..Capacity, d \in 0..(Capacity - 1) :
                          frames[i].pin_count = 0 /\ At(i, d) =>
                             /\ n + 1 > d => ~Look(s).frames[i].ref_bit
                             /\ n + 1 <= d + Capacity
  BY DEF NoneYet
<1>0. Capacity \in Nat \ {0} /\ s.hand \in 1..Capacity /\ At(s.hand, n)
  BY CapacityAssumption DEF Swept, NoneYet
<1>1. At(Look(s).hand, n + 1)
  <2>1. Look(s).hand = IF s.hand = Capacity THEN 1 ELSE s.hand + 1
    BY LookEffect
  <2> QED
    BY <1>0, <2>1 DEF At, Looks
<1>2. ASSUME NEW i \in 1..Capacity, NEW d \in 0..(Capacity - 1),
             frames[i].pin_count = 0, At(i, d)
      PROVE  (n + 1 > d => ~Look(s).frames[i].ref_bit) /\ n + 1 <= d + Capacity
  <2>1. (n > d => ~s.frames[i].ref_bit) /\ n <= d + Capacity
    BY <1>2 DEF NoneYet
  <2>2. n + 1 > d => ~Look(s).frames[i].ref_bit
    <3>1. CASE n > d
      BY <2>1, <3>1, LookEffect
    <3>2. CASE n = d
      <4>1. i = s.hand
        BY <1>0, <1>2, <3>2, AtOnce
      <4> QED
        BY <1>2, <4>1, LookEffect
    <3> QED
      BY <3>1, <3>2
  <2>3. n # d + Capacity
    <3> SUFFICES ASSUME n = d + Capacity PROVE FALSE
      OBVIOUS
    <3>1. i = s.hand
      <4>1. d \in Nat /\ At(s.hand, d + Capacity)
        BY <1>0
      <4> QED
        BY <1>0, <1>2, <4>1, AtOnce
    <3>2. ~s.frames[i].ref_bit
      BY <1>0, <2>1
    <3>3. Look(s).victim = s.hand
      BY <1>2, <3>1, <3>2, LookEffect
    <3> QED
      BY <1>0, <3>3
  <2> QED
    BY <1>0, <2>1, <2>2, <2>3
<1> QED
  BY <1>1, <1>2

\* The loop, at every look.
LEMMA SweepEffect ==
    ASSUME frames \in Seq(Frame), Len(frames) = Capacity, clock_hand \in 1..Capacity,
           NEW n \in 0..Looks
    PROVE  Swept(Sweep[n]) /\ NoneYet(Sweep[n], n)
<1> DEFINE P(m) == Swept(Sweep[m]) /\ NoneYet(Sweep[m], m)
           Bad == {m \in 0..Looks : ~P(m)}
<1>0. Looks \in Nat /\ Capacity \in Nat \ {0}
  BY CapacityAssumption DEF Looks
<1>1. P(0)
  <2>1. Sweep[0] = Start
    <3>1. 0 \in 0..Looks
      BY <1>0
    <3> QED
      BY <3>1, SweepUnfolds
  <2>2. Swept(Start)
    BY <1>0 DEF Start, Swept, SameButRef
  <2>3. NoneYet(Start, 0)
    BY <1>0 DEF Start, NoneYet, At
  <2> QED
    BY <2>1, <2>2, <2>3
<1>2. ASSUME NEW m \in 0..Looks, m # 0, P(m - 1) PROVE P(m)
  <2> DEFINE s == Sweep[m - 1]
  <2>1. Sweep[m] = Look(s)
    BY <1>2, SweepUnfolds
  <2>2. m - 1 \in Nat /\ m - 1 < Looks /\ m = (m - 1) + 1
    BY <1>0, <1>2
  <2> HIDE DEF s
  <2>3. Swept(s) /\ NoneYet(s, m - 1)
    BY <1>2 DEF s
  <2>4. CASE s.victim = 0
    <3>1. Swept(Look(s))
      BY <2>3, <2>4, LookEffect
    <3>2. NoneYet(Look(s), (m - 1) + 1)
      BY <2>2, <2>3, <2>4, LookKeepsNoneYet
    <3> QED
      BY <2>1, <2>2, <3>1, <3>2
  <2>5. CASE s.victim # 0
    <3>1. Look(s) = s
      BY <2>5 DEF Look
    <3> QED
      BY <2>1, <2>3, <2>5, <3>1 DEF NoneYet
  <2> QED
    BY <2>4, <2>5
<1> HIDE DEF P
<1>3. Bad = {}
  <2> SUFFICES ASSUME Bad # {} PROVE FALSE
    OBVIOUS
  <2>1. PICK m \in Bad : \A x \in Bad : m <= x
    <3>1. Bad \in SUBSET Nat
      BY <1>0
    <3> HIDE DEF Bad
    <3> QED
      BY <3>1, SmallestNat
  <2>2. m # 0
    BY <1>1
  <2>3. m - 1 \in 0..Looks /\ m - 1 \notin Bad
    BY <1>0, <2>1, <2>2
  <2> QED
    BY <1>2, <2>1, <2>2, <2>3
<1>4. P(n)
  BY <1>3
<1> QED
  BY <1>4 DEF P

\* The loop as find_frame_for uses it: without a victim, every frame is
\* pinned.
LEMMA ClockEffect ==
    ASSUME frames \in Seq(Frame), Len(frames) = Capacity, clock_hand \in 1..Capacity
    PROVE  /\ Swept(Clock)
           /\ Clock.victim = 0 => \A i \in 1..Capacity : frames[i].pin_count > 0
<1>1. Swept(Clock) /\ NoneYet(Clock, Looks)
  <2>1. Looks \in 0..Looks
    BY CapacityAssumption DEF Looks
  <2> QED
    BY <2>1, SweepEffect DEF Clock, Looks
<1>2. ASSUME Clock.victim = 0, NEW i \in 1..Capacity PROVE frames[i].pin_count > 0
  <2>a. frames[i] \in Frame
    BY ElementOfSeq
  <2>1. frames[i].pin_count \in Nat
    BY <2>a, BoundsAssumption DEF Frame
  <2> SUFFICES ASSUME frames[i].pin_count = 0 PROVE FALSE
    BY <2>1
  <2>2. PICK d \in 0..(Capacity - 1) : At(i, d)
    <3>1. CASE i >= clock_hand
      <4>1. i - clock_hand \in 0..(Capacity - 1) /\ At(i, i - clock_hand)
        BY <3>1, CapacityAssumption DEF At
      <4> QED
        BY <4>1
    <3>2. CASE i < clock_hand
      <4>1. /\ i - clock_hand + Capacity \in 0..(Capacity - 1)
            /\ At(i, i - clock_hand + Capacity)
        BY <3>2, CapacityAssumption DEF At
      <4> QED
        BY <4>1
    <3> QED
      BY <3>1, <3>2
  <2>3. Looks <= d + Capacity
    BY <1>1, <1>2, <2>2 DEF NoneYet
  <2> QED
    BY <2>3, CapacityAssumption DEF Looks
<1> QED
  BY <1>1, <1>2
-----------------------------------------------------------------------------
(* Frames and the page table.                                              *)

\* A cached page has a frame, and it is this page's.
LEMMA FrameFacts ==
    ASSUME PoolInv
    PROVE  /\ frames \in Seq(Frame) /\ Len(frames) \in Nat /\ DOMAIN frames = 1..Len(frames)
           /\ \A i \in 1..Len(frames) : /\ frames[i] \in Frame /\ frames[i].page_id \in Cached
                                        /\ page_table[frames[i].page_id] = i
           /\ \A q \in Cached : /\ q \in PageId /\ page_table[q] \in 1..Len(frames)
                                /\ FrameOf(q) \in Frame /\ FrameOf(q).page_id = q
<1>1. /\ frames \in Seq(Frame) /\ Cached \subseteq PageId
      /\ page_table \in [Cached -> DOMAIN frames]
  BY DEF PoolInv, TypeOK, Cached
<1>2. Len(frames) \in Nat /\ DOMAIN frames = 1..Len(frames)
  BY <1>1, LenProperties
<1>3. \A i \in 1..Len(frames) : frames[i] \in Frame
  BY <1>1, ElementOfSeq
<1>4. \A q \in Cached : page_table[q] \in 1..Len(frames)
  BY <1>1, <1>2
<1> QED
  BY <1>1, <1>2, <1>3, <1>4 DEF PoolInv, TableMatchesFrames, FrameOf

\* What find_frame_for and its caller do for page p, which is not cached:
\* p gets frame f or nothing happens to the table; at most one page goes, one
\* nobody has pinned, and what it held is what the store now returns.
InstallTyped ==
    /\ frames' \in Seq(Frame) /\ Len(frames') <= Capacity
    /\ clock_hand' \in 1..Capacity
    /\ DOMAIN page_table' \subseteq PageId
    /\ page_table' \in [DOMAIN page_table' -> DOMAIN frames']
    /\ disk' \in [PageId -> Page \cup {Missing}]
    /\ result' \in {"ok", "exhausted", "store error"}

InstallKeeps(p) ==
    /\ \A q \in DOMAIN page_table' : q # p =>
          /\ q \in Cached /\ page_table'[q] = page_table[q] /\ disk'[q] = disk[q]
          /\ SameButRef(frames'[page_table'[q]], frames[page_table[q]])
    /\ \A q \in PageId : q \notin Cached => disk'[q] = disk[q]

AsRead(x) == IF x = Missing THEN Blank ELSE x

InstallDrops ==
    \A q \in Cached : q \notin DOMAIN page_table' =>
        FrameOf(q).pin_count = 0 /\ AsRead(disk'[q]) = FrameOf(q).page

InstallGives(p, f) ==
    IF result' = "ok" THEN p \in DOMAIN page_table' /\ frames'[page_table'[p]] = f
    ELSE p \notin DOMAIN page_table'

InstallResult(p, f) ==
    /\ InstallTyped /\ InstallKeeps(p) /\ InstallDrops /\ InstallGives(p, f)
    /\ TableMatchesFrames' /\ ExhaustedMeansPinned'

\* A frame is added while there are fewer than capacity.
LEMMA InstallAdds ==
    ASSUME PoolInv, NEW p \in PageId, p \notin Cached, NEW f \in Frame, f.page_id = p,
           Len(frames) < Capacity, frames' = Append(frames, f),
           page_table' = Remapped(p, Len(frames) + 1, {}), result' = "ok",
           UNCHANGED <<disk, clock_hand>>
    PROVE  InstallResult(p, f)
<1> DEFINE n == Len(frames)
<1>1. n \in Nat /\ Capacity \in Nat
  BY FrameFacts, CapacityAssumption
<1>2. /\ frames' \in Seq(Frame) /\ Len(frames') = n + 1
      /\ \A i \in 1..n : frames'[i] = frames[i]
      /\ frames'[n + 1] = f
  BY FrameFacts, AppendProperties
<1>3. DOMAIN frames' = 1..(n + 1)
  BY <1>2, LenProperties
<1>4. /\ DOMAIN page_table' = Cached \cup {p} /\ page_table'[p] = n + 1
      /\ \A q \in Cached : page_table'[q] = page_table[q]
      /\ page_table' = [q \in DOMAIN page_table' |-> page_table'[q]]
  BY DEF Remapped
<1>5. \A q \in Cached : q # p /\ page_table[q] \in 1..n /\ q \in PageId
  BY FrameFacts
<1>6. page_table' \in [DOMAIN page_table' -> DOMAIN frames']
  <2>1. \A q \in DOMAIN page_table' : page_table'[q] \in 1..(n + 1)
    BY <1>1, <1>4, <1>5
  <2> QED
    BY <1>3, <1>4, <2>1
<1>7. \A q \in Cached : frames'[page_table'[q]] = FrameOf(q)
  BY <1>2, <1>4, <1>5 DEF FrameOf
<1>8. TableMatchesFrames'
  <2>1. ASSUME NEW i \in DOMAIN frames'
        PROVE  frames'[i].page_id \in DOMAIN page_table' /\ page_table'[frames'[i].page_id] = i
    <3>1. CASE i = n + 1
      BY <1>2, <1>4, <3>1
    <3>2. CASE i # n + 1
      <4>1. i \in 1..n
        BY <1>1, <1>3, <3>2
      <4> QED
        BY <1>2, <1>4, <4>1, FrameFacts
    <3> QED
      BY <3>1, <3>2
  <2>2. ASSUME NEW q \in DOMAIN page_table' PROVE frames'[page_table'[q]].page_id = q
    <3>1. CASE q = p
      BY <1>2, <1>4, <3>1
    <3>2. CASE q # p
      BY <1>4, <1>7, <3>2, FrameFacts
    <3> QED
      BY <3>1, <3>2
  <2> QED
    BY <2>1, <2>2 DEF TableMatchesFrames, Cached, FrameOf
<1>9. ExhaustedMeansPinned'
  BY DEF ExhaustedMeansPinned
<1>10. InstallTyped
  <2>1. Len(frames') <= Capacity /\ DOMAIN page_table' \subseteq PageId
    BY <1>1, <1>2, <1>4, <1>5
  <2>2. clock_hand' \in 1..Capacity /\ disk' \in [PageId -> Page \cup {Missing}]
    BY DEF PoolInv, TypeOK
  <2> QED
    BY <1>2, <1>6, <2>1, <2>2, Zenon DEF InstallTyped
<1>11. InstallKeeps(p)
  <2>1. \A q \in Cached : SameButRef(frames'[page_table'[q]], frames[page_table[q]])
    BY <1>7 DEF SameButRef, FrameOf
  <2> QED
    BY <1>4, <2>1 DEF InstallKeeps
<1>12. InstallDrops /\ InstallGives(p, f)
  BY <1>2, <1>4 DEF InstallDrops, InstallGives
<1> QED
  BY <1>8, <1>9, <1>10, <1>11, <1>12 DEF InstallResult

\* A victim is written back if it is dirty, and its frame is used again.
LEMMA InstallEvicts ==
    ASSUME PoolInv, NEW p \in PageId, p \notin Cached, NEW f \in Frame, f.page_id = p,
           Len(frames) = Capacity, clock_hand' = Clock.hand, Clock.victim # 0,
           disk' = WrittenBack(Clock.frames[Clock.victim]),
           page_table' = Remapped(p, Clock.victim, {Clock.frames[Clock.victim].page_id}),
           frames' = [Clock.frames EXCEPT ![Clock.victim] = f], result' = "ok"
    PROVE  InstallResult(p, f)
<1>v. PICK v, fs, o : v = Clock.victim /\ fs = Clock.frames /\ o = frames[v].page_id
  OBVIOUS
<1>0. Len(frames) \in Nat /\ Capacity \in Nat /\ clock_hand \in 1..Capacity
  BY FrameFacts, CapacityAssumption DEF PoolInv, TypeOK
<1>1. /\ fs \in Seq(Frame) /\ Len(fs) = Capacity
      /\ \A i \in 1..Capacity : SameButRef(fs[i], frames[i])
      /\ Clock.hand \in 1..Capacity /\ v \in 1..Capacity /\ frames[v].pin_count = 0
  <2>1. Swept(Clock)
    BY <1>0, FrameFacts, ClockEffect
  <2> QED
    BY <1>0, <1>v, <2>1 DEF Swept
<1>2. /\ frames' \in Seq(Frame) /\ Len(frames') = Capacity
      /\ \A i \in 1..Capacity : frames'[i] = IF i = v THEN f ELSE fs[i]
  <2>1. frames' = [fs EXCEPT ![v] = f]
    BY <1>v
  <2>2. /\ [fs EXCEPT ![v] = f] \in Seq(Frame) /\ Len([fs EXCEPT ![v] = f]) = Capacity
        /\ \A i \in 1..Capacity : [fs EXCEPT ![v] = f][i] = IF i = v THEN f ELSE fs[i]
    BY <1>1, ExceptSeq
  <2> QED
    BY <2>1, <2>2
<1>3. DOMAIN frames' = 1..Capacity
  BY <1>2, LenProperties
<1>4. /\ frames[v] \in Frame /\ o \in Cached /\ page_table[o] = v /\ FrameOf(o) = frames[v]
      /\ SameButRef(fs[v], frames[v]) /\ o # p
  BY <1>1, <1>v, FrameFacts DEF FrameOf
<1>5. /\ DOMAIN page_table' = (Cached \ {o}) \cup {p} /\ page_table'[p] = v
      /\ \A q \in Cached \ {o} : page_table'[q] = page_table[q]
      /\ page_table' = [q \in DOMAIN page_table' |-> page_table'[q]]
  <2>1. page_table' = Remapped(p, v, {o})
    BY <1>4, <1>v DEF SameButRef
  <2> QED
    BY <2>1 DEF Remapped
<1>6. \A q \in Cached \ {o} : /\ q # p /\ page_table[q] \in 1..Capacity /\ q \in PageId
                              /\ page_table[q] # v
  BY <1>4, FrameFacts DEF FrameOf
<1>7. page_table' \in [DOMAIN page_table' -> DOMAIN frames']
  <2>1. \A q \in DOMAIN page_table' : page_table'[q] \in 1..Capacity
    BY <1>1, <1>5, <1>6
  <2> QED
    BY <1>3, <1>5, <2>1
<1>8. \A q \in Cached \ {o} : SameButRef(frames'[page_table'[q]], frames[page_table[q]])
  <2> TAKE q \in Cached \ {o}
  <2>1. frames'[page_table'[q]] = fs[page_table[q]] /\ page_table[q] \in 1..Capacity
    BY <1>2, <1>5, <1>6
  <2> QED
    BY <1>1, <2>1
<1>9. TableMatchesFrames'
  <2>1. ASSUME NEW i \in DOMAIN frames'
        PROVE  frames'[i].page_id \in DOMAIN page_table' /\ page_table'[frames'[i].page_id] = i
    <3>1. CASE i = v
      BY <1>1, <1>2, <1>5, <3>1
    <3>2. CASE i # v
      <4>1. i \in 1..Capacity /\ frames'[i].page_id = frames[i].page_id
        BY <1>1, <1>2, <1>3, <3>2 DEF SameButRef
      <4>2. frames[i].page_id \in Cached /\ page_table[frames[i].page_id] = i
        BY <4>1, FrameFacts
      <4>3. frames[i].page_id # o
        BY <1>4, <3>2, <4>2
      <4>4. frames[i].page_id \in Cached \ {o}
        BY <4>2, <4>3
      <4> QED
        BY <1>5, <4>1, <4>2, <4>4
    <3> QED
      BY <3>1, <3>2
  <2>2. ASSUME NEW q \in DOMAIN page_table' PROVE frames'[page_table'[q]].page_id = q
    <3>1. CASE q = p
      BY <1>1, <1>2, <1>5, <3>1
    <3>2. CASE q # p
      <4>1. q \in Cached \ {o}
        BY <1>5, <3>2
      <4>2. frames'[page_table'[q]].page_id = FrameOf(q).page_id
        BY <1>8, <4>1 DEF SameButRef, FrameOf
      <4> QED
        BY <4>1, <4>2, FrameFacts
    <3> QED
      BY <3>1, <3>2
  <2> QED
    BY <2>1, <2>2 DEF TableMatchesFrames, Cached, FrameOf
<1>10. /\ disk' \in [PageId -> Page \cup {Missing}]
       /\ \A q \in PageId : q # o => disk'[q] = disk[q]
       /\ AsRead(disk'[o]) = FrameOf(o).page
  <2>1. disk \in [PageId -> Page \cup {Missing}] /\ o \in PageId
    BY <1>4, FrameFacts DEF PoolInv, TypeOK
  <2>2. frames[v].page \in Page /\ frames[v].page # Missing
    BY <1>4, PageAssumption DEF Frame, Page
  <2>3. CASE frames[v].dirty
    <3>1. disk' = [disk EXCEPT ![o] = frames[v].page]
      BY <1>4, <1>v, <2>3 DEF WrittenBack, SameButRef
    <3> QED
      BY <1>4, <2>1, <2>2, <3>1 DEF AsRead
  <2>4. CASE ~frames[v].dirty
    <3>1. disk' = disk
      BY <1>4, <1>v, <2>4 DEF WrittenBack, SameButRef
    <3>2. o \notin touched
      BY <1>1, <1>4 DEF PoolInv, TouchedArePinned
    <3>3. FrameOf(o).page = OnDisk(o)
      BY <1>4, <2>4, <3>2 DEF PoolInv, CleanFramesAreDurable
    <3> QED
      BY <2>1, <3>1, <3>3 DEF OnDisk, AsRead
  <2> QED
    BY <2>3, <2>4
<1>11. ExhaustedMeansPinned'
  BY DEF ExhaustedMeansPinned
<1>12. InstallTyped
  <2>1. DOMAIN page_table' \subseteq PageId /\ clock_hand' \in 1..Capacity
    BY <1>1, <1>5, <1>6, <1>v
  <2>2. Len(frames') <= Capacity
    BY <1>0, <1>2
  <2> QED
    BY <1>2, <1>7, <1>10, <2>1, <2>2, Zenon DEF InstallTyped
<1>13. InstallGives(p, f)
  BY <1>1, <1>2, <1>5 DEF InstallGives
<1>14. InstallKeeps(p)
  <2>1. \A q \in DOMAIN page_table' : q # p => q \in Cached \ {o}
    BY <1>5
  <2>2. \A q \in Cached \ {o} : disk'[q] = disk[q] /\ page_table'[q] = page_table[q]
    BY <1>5, <1>6, <1>10
  <2>3. \A q \in PageId : q \notin Cached => disk'[q] = disk[q]
    BY <1>4, <1>10
  <2> QED
    BY <1>8, <2>1, <2>2, <2>3 DEF InstallKeeps
<1>15. InstallDrops
  <2>1. \A q \in Cached : q \notin DOMAIN page_table' => q = o
    BY <1>5
  <2> QED
    BY <1>1, <1>4, <1>10, <2>1 DEF InstallDrops
<1> QED
  BY <1>9, <1>11, <1>12, <1>13, <1>14, <1>15 DEF InstallResult

\* A full pool is within its bound.
LEMMA FullFits ==
    ASSUME NEW fs, Len(fs) = Capacity
    PROVE  Len(fs) <= Capacity
BY CapacityAssumption

\* No frame is freed: the write failed, or every frame is pinned.
LEMMA InstallRefused ==
    ASSUME PoolInv, NEW p \in PageId, p \notin Cached, NEW f \in Frame,
           Len(frames) = Capacity, clock_hand' = Clock.hand, frames' = Clock.frames,
           result' = "store error" \/ (result' = "exhausted" /\ Clock.victim = 0),
           UNCHANGED <<disk, page_table>>
    PROVE  InstallResult(p, f)
<1>0. Len(frames) \in Nat /\ Capacity \in Nat /\ clock_hand \in 1..Capacity
  BY FrameFacts, CapacityAssumption DEF PoolInv, TypeOK
<1>1. /\ frames' \in Seq(Frame) /\ Len(frames') = Capacity
      /\ \A i \in 1..Capacity : SameButRef(frames'[i], frames[i])
      /\ clock_hand' \in 1..Capacity
      /\ Clock.victim = 0 => \A i \in 1..Capacity : frames[i].pin_count > 0
  BY <1>0, FrameFacts, ClockEffect DEF Swept
<1>2. DOMAIN frames' = 1..Capacity /\ DOMAIN frames = 1..Capacity
  BY <1>1, FrameFacts, LenProperties
<1>3. \A q \in Cached : SameButRef(frames'[page_table'[q]], frames[page_table[q]])
  BY <1>1, FrameFacts
<1>4. TableMatchesFrames'
  <2>1. \A i \in 1..Capacity : frames'[i].page_id = frames[i].page_id
    BY <1>1 DEF SameButRef
  <2>2. \A q \in Cached : frames'[page_table'[q]].page_id = q
    BY <1>3, FrameFacts DEF SameButRef, FrameOf
  <2> QED
    BY <1>2, <2>1, <2>2, FrameFacts DEF TableMatchesFrames, Cached, FrameOf
<1>5. ExhaustedMeansPinned'
  <2>1. \A i \in 1..Capacity : frames'[i].pin_count = frames[i].pin_count
    BY <1>1 DEF SameButRef
  <2> QED
    BY <1>1, <1>2, <2>1 DEF ExhaustedMeansPinned
<1>6. InstallTyped
  <2>1. /\ DOMAIN page_table' \subseteq PageId
        /\ page_table' \in [DOMAIN page_table' -> DOMAIN frames']
        /\ disk' \in [PageId -> Page \cup {Missing}]
    BY <1>2 DEF PoolInv, TypeOK
  <2>2. Len(frames') <= Capacity
    BY <1>1, FullFits, Zenon
  <2>3. result' \in {"ok", "exhausted", "store error"}
    BY Zenon
  <2> QED
    BY <1>1, <2>1, <2>2, <2>3, Zenon DEF InstallTyped
<1>7. InstallKeeps(p)
  BY <1>3 DEF InstallKeeps, Cached
<1>8. InstallDrops /\ InstallGives(p, f)
  BY DEF InstallDrops, InstallGives, Cached
<1> QED
  BY <1>4, <1>5, <1>6, <1>7, <1>8 DEF InstallResult

\* find_frame_for, all its ways out.
LEMMA InstallEffect ==
    ASSUME PoolInv, NEW p \in PageId, p \notin Cached, NEW f \in Frame, f.page_id = p,
           Install(p, f)
    PROVE  InstallResult(p, f)
<1>1. CASE Len(frames) < Capacity
  <2>1. Len(frames) \in Nat /\ Capacity \in Nat
    BY FrameFacts, CapacityAssumption
  <2>2. Len(frames) # Capacity
    BY <1>1, <2>1
  <2> QED
    BY <1>1, <2>2, InstallAdds DEF Install
<1>2. CASE ~(Len(frames) < Capacity)
  <2>1. CASE /\ Clock.victim # 0 /\ disk' = WrittenBack(Clock.frames[Clock.victim])
             /\ page_table' = Remapped(p, Clock.victim, {Clock.frames[Clock.victim].page_id})
             /\ frames' = [Clock.frames EXCEPT ![Clock.victim] = f] /\ result' = "ok"
    BY <1>2, <2>1, InstallEvicts DEF Install
  <2>2. CASE /\ frames' = Clock.frames
             /\ result' = "store error" \/ (result' = "exhausted" /\ Clock.victim = 0)
             /\ UNCHANGED <<disk, page_table>>
    BY <1>2, <2>2, InstallRefused DEF Install
  <2> QED
    BY <1>2, <2>1, <2>2 DEF Install
<1> QED
  BY <1>1, <1>2

\* A call that installs a page with its client's pin on it.
LEMMA InstallStep ==
    ASSUME PoolInv, NEW p \in PageId, p \notin Cached, NEW f \in Frame, f.page_id = p,
           f.pin_count > 0, f.dirty \/ f.page = OnDisk(p), Install(p, f),
           next_id' \in 1..(MaxId + 1), next_id <= next_id', p < next_id',
           mem' \in [PageId -> Page \cup {Missing}],
           mem'[p] = IF result' = "ok" THEN f.page ELSE mem[p],
           \A q \in PageId : q # p => mem'[q] = mem[q],
           UNCHANGED <<touched, crashes>>
    PROVE  PoolInv'
<1>1. InstallResult(p, f)
  BY InstallEffect
<1>2. InstallTyped /\ InstallKeeps(p) /\ InstallDrops /\ InstallGives(p, f)
  BY <1>1 DEF InstallResult
<1>3. \A q \in DOMAIN page_table' : q # p => q \in Cached
  BY <1>2 DEF InstallKeeps
<1>4. TypeOK'
  <2>1. /\ frames' \in Seq(Frame) /\ Len(frames') <= Capacity
        /\ clock_hand' \in 1..Capacity
        /\ DOMAIN page_table' \subseteq PageId
        /\ page_table' \in [DOMAIN page_table' -> DOMAIN frames']
        /\ disk' \in [PageId -> Page \cup {Missing}]
    BY <1>2 DEF InstallTyped
  <2>2. result' \in {"ok", "exhausted", "not pinned", "store error"}
    BY <1>2 DEF InstallTyped
  <2>3. touched' \subseteq PageId /\ crashes' \in 0..MaxCrashes
    BY DEF PoolInv, TypeOK
  <2> QED
    BY <2>1, <2>2, <2>3, Zenon DEF TypeOK
<1>5. \A q \in touched : q \in DOMAIN page_table' /\ frames'[page_table'[q]].pin_count > 0
  <2> TAKE q \in touched
  <2>1. q \in Cached /\ FrameOf(q).pin_count > 0 /\ FrameOf(q) \in Frame
    BY FrameFacts DEF PoolInv, TouchedArePinned
  <2>2. q \in DOMAIN page_table'
    <3>1. FrameOf(q).pin_count # 0
      BY <2>1
    <3> QED
      BY <1>2, <2>1, <3>1 DEF InstallDrops
  <2>3. frames'[page_table'[q]].pin_count = FrameOf(q).pin_count
    BY <1>2, <2>1, <2>2 DEF InstallKeeps, SameButRef, FrameOf
  <2> QED
    BY <2>1, <2>2, <2>3
<1>6. TouchedArePinned'
  BY <1>5 DEF TouchedArePinned, Cached, FrameOf
<1>7. CachedAreAllocated'
  <2> SUFFICES ASSUME NEW q \in DOMAIN page_table' PROVE q < next_id'
    BY DEF CachedAreAllocated, Cached
  <2>1. CASE q = p
    BY <2>1
  <2>2. CASE q # p
    <3>1. q < next_id /\ q \in PageId /\ next_id \in 1..(MaxId + 1)
      BY <1>3, <2>2, FrameFacts DEF PoolInv, CachedAreAllocated, TypeOK
    <3> QED
      BY <3>1, MaxIdAssumption DEF PageId
  <2> QED
    BY <2>1, <2>2
<1>8. ASSUME NEW q \in DOMAIN page_table'
      PROVE  \/ frames'[page_table'[q]].dirty \/ q \in touched
             \/ frames'[page_table'[q]].page = AsRead(disk'[q])
  <2>1. CASE q = p
    <3>1. frames'[page_table'[p]] = f
      BY <1>8, <1>2, <2>1 DEF InstallGives
    <3>2. disk'[p] = disk[p]
      BY <1>2 DEF InstallKeeps
    <3> QED
      BY <2>1, <3>1, <3>2 DEF OnDisk, AsRead
  <2>2. CASE q # p
    <3>1. /\ q \in Cached /\ disk'[q] = disk[q]
          /\ SameButRef(frames'[page_table'[q]], FrameOf(q))
      BY <1>8, <1>2, <2>2 DEF InstallKeeps, FrameOf
    <3>2. FrameOf(q).dirty \/ q \in touched \/ FrameOf(q).page = AsRead(disk[q])
      BY <3>1 DEF PoolInv, CleanFramesAreDurable, OnDisk, AsRead
    <3> QED
      BY <3>1, <3>2 DEF SameButRef
  <2> QED
    BY <2>1, <2>2
<1>9. CleanFramesAreDurable'
  BY <1>8 DEF CleanFramesAreDurable, Cached, FrameOf, OnDisk, AsRead
<1>10. ASSUME NEW q \in PageId, mem'[q] # Missing
       PROVE  mem'[q] = IF q \in DOMAIN page_table' THEN frames'[page_table'[q]].page
                        ELSE AsRead(disk'[q])
  <2>0. mem[q] # Missing => mem[q] = IF q \in Cached THEN FrameOf(q).page ELSE AsRead(disk[q])
    BY <1>10 DEF PoolInv, PoolIsTransparent, OnDisk, AsRead
  <2>1. CASE q = p
    <3>1. CASE result' = "ok"
      BY <1>2, <2>1, <3>1 DEF InstallGives
    <3>2. CASE result' # "ok"
      <4>1. q \notin DOMAIN page_table' /\ mem'[q] = mem[q] /\ disk'[q] = disk[q]
        BY <1>2, <2>1, <3>2 DEF InstallGives, InstallKeeps
      <4> QED
        BY <1>10, <2>0, <2>1, <4>1
    <3> QED
      BY <3>1, <3>2
  <2>2. CASE q # p
    <3>0. mem'[q] = mem[q]
      BY <1>10, <2>2
    <3>1. CASE q \in DOMAIN page_table'
      <4>1. q \in Cached /\ frames'[page_table'[q]].page = FrameOf(q).page
        BY <1>2, <2>2, <3>1 DEF InstallKeeps, SameButRef, FrameOf
      <4> QED
        BY <1>10, <2>0, <3>0, <3>1, <4>1
    <3>2. CASE q \notin DOMAIN page_table' /\ q \in Cached
      <4>1. AsRead(disk'[q]) = FrameOf(q).page
        BY <1>2, <3>2 DEF InstallDrops
      <4> QED
        BY <1>10, <2>0, <3>0, <3>2, <4>1
    <3>3. CASE q \notin DOMAIN page_table' /\ q \notin Cached
      <4>1. disk'[q] = disk[q]
        BY <1>2, <1>10, <3>3 DEF InstallKeeps
      <4> QED
        BY <1>10, <2>0, <3>0, <3>3, <4>1
    <3> QED
      BY <3>1, <3>2, <3>3
  <2> QED
    BY <2>1, <2>2
<1>11. PoolIsTransparent'
  BY <1>10 DEF PoolIsTransparent, Cached, FrameOf, OnDisk, AsRead
<1> QED
  BY <1>1, <1>4, <1>6, <1>7, <1>9, <1>11 DEF PoolInv, InstallResult

\* BufferPool::new_page.
LEMMA NewPageStep ==
    ASSUME PoolInv, NewPage
    PROVE  PoolInv'
<1> DEFINE f == [page_id |-> next_id, page |-> Fresh, pin_count |-> 1,
                 dirty |-> TRUE, ref_bit |-> TRUE]
<1>1. next_id \in PageId /\ next_id + 1 \in 1..(MaxId + 1) /\ next_id \in Nat
  <2>1. next_id \in 1..(MaxId + 1) /\ next_id <= MaxId
    BY DEF PoolInv, TypeOK, NewPage
  <2> QED
    BY <2>1, MaxIdAssumption DEF PageId
<1>p. PICK p \in PageId : p = next_id
  BY <1>1
<1>2. p \notin Cached
  BY <1>1, <1>p DEF PoolInv, CachedAreAllocated
<1>3. f \in Frame
  BY <1>1, BoundsAssumption DEF Frame, Page
<1>4. /\ mem' \in [PageId -> Page \cup {Missing}]
      /\ mem'[p] = IF result' = "ok" THEN f.page ELSE mem[p]
      /\ \A q \in PageId : q # p => mem'[q] = mem[q]
  <2>1. mem \in [PageId -> Page \cup {Missing}]
    BY DEF PoolInv, TypeOK
  <2> QED
    BY <1>p, <2>1 DEF NewPage, Page
<1>5. Install(p, f) /\ UNCHANGED <<touched, crashes>> /\ next_id' = next_id + 1
  BY <1>p DEF NewPage
<1>6. f.page_id = p /\ f.pin_count > 0 /\ f.dirty
  BY <1>p
<1>7. next_id' \in 1..(MaxId + 1) /\ next_id <= next_id' /\ p < next_id'
  BY <1>1, <1>5, <1>p
<1> HIDE DEF f
<1>8. PICK g : g = f
  OBVIOUS
<1> QED
  BY <1>2, <1>3, <1>4, <1>5, <1>6, <1>7, <1>8, InstallStep

\* BufferPool::fetch of a page that is not cached.
LEMMA FetchMissStep ==
    ASSUME PoolInv, NEW p \in PageId, FetchMiss(p)
    PROVE  PoolInv'
<1> DEFINE f == [page_id |-> p, page |-> OnDisk(p), pin_count |-> 1,
                 dirty |-> FALSE, ref_bit |-> TRUE]
<1>1. p \notin Cached /\ Install(p, f) /\ p < next_id /\ next_id' = next_id
  BY DEF FetchMiss
<1>2. /\ disk \in [PageId -> Page \cup {Missing}] /\ mem \in [PageId -> Page \cup {Missing}]
      /\ next_id \in 1..(MaxId + 1)
  BY DEF PoolInv, TypeOK
<1>3. OnDisk(p) \in Page
  BY <1>2 DEF OnDisk, Page
<1>4. f \in Frame
  BY <1>3, BoundsAssumption DEF Frame
<1>5. mem[p] # Missing => mem[p] = OnDisk(p)
  BY <1>1 DEF PoolInv, PoolIsTransparent
<1>6. /\ mem' \in [PageId -> Page \cup {Missing}]
      /\ mem'[p] = IF result' = "ok" THEN OnDisk(p) ELSE mem[p]
      /\ \A q \in PageId : q # p => mem'[q] = mem[q]
  BY <1>2, <1>3, <1>5 DEF FetchMiss
<1>7. f.page_id = p /\ f.pin_count > 0 /\ f.page = OnDisk(p)
  OBVIOUS
<1>8. UNCHANGED <<touched, crashes>>
  BY DEF FetchMiss
<1>9. next_id <= next_id' /\ next_id' \in 1..(MaxId + 1) /\ p < next_id'
  BY <1>1, <1>2, MaxIdAssumption
<1> HIDE DEF f
<1>10. PICK g : g = f
  OBVIOUS
<1> QED
  BY <1>1, <1>4, <1>6, <1>7, <1>8, <1>9, <1>10, InstallStep
-----------------------------------------------------------------------------
(* Calls on a page that has its frame.                                     *)

\* One frame changes, and stays the frame of its page.
LEMMA FrameChanged ==
    ASSUME PoolInv, NEW p \in Cached, NEW g \in Frame, g.page_id = p,
           frames' = [frames EXCEPT ![page_table[p]] = g], page_table' = page_table
    PROVE  /\ frames' \in Seq(Frame) /\ Len(frames') = Len(frames)
           /\ DOMAIN frames' = DOMAIN frames /\ TableMatchesFrames'
           /\ frames'[page_table[p]] = g
           /\ \A q \in Cached \ {p} : frames'[page_table[q]] = FrameOf(q)
           /\ \A i \in DOMAIN frames : frames'[i] = g \/ frames'[i] = frames[i]
<1>i. PICK i : i = page_table[p]
  OBVIOUS
<1>1. i \in 1..Len(frames) /\ frames \in Seq(Frame) /\ DOMAIN frames = 1..Len(frames)
  BY <1>i, FrameFacts
<1>2. /\ [frames EXCEPT ![i] = g] \in Seq(Frame) /\ Len([frames EXCEPT ![i] = g]) = Len(frames)
      /\ \A j \in 1..Len(frames) : [frames EXCEPT ![i] = g][j] = IF j = i THEN g ELSE frames[j]
  BY <1>1, ExceptSeq
<1>3. /\ frames' \in Seq(Frame) /\ Len(frames') = Len(frames)
      /\ \A j \in 1..Len(frames) : frames'[j] = IF j = i THEN g ELSE frames[j]
  BY <1>2, <1>i
<1>4. DOMAIN frames' = 1..Len(frames)
  BY <1>3, LenProperties
<1>5. \A q \in Cached \ {p} : page_table[q] # i /\ page_table[q] \in 1..Len(frames)
  BY <1>i, FrameFacts DEF FrameOf
<1>6. \A q \in Cached \ {p} : frames'[page_table[q]] = FrameOf(q)
  BY <1>3, <1>5 DEF FrameOf
<1>7. frames'[page_table[p]] = g
  BY <1>1, <1>3, <1>i
<1>8. \A j \in 1..Len(frames) : frames'[j].page_id = frames[j].page_id
  <2> TAKE j \in 1..Len(frames)
  <2>1. frames[i].page_id = p
    BY <1>i, FrameFacts DEF FrameOf
  <2> QED
    BY <1>3, <2>1
<1>9. TableMatchesFrames'
  <2>1. \A q \in Cached : frames'[page_table[q]].page_id = q
    BY <1>6, <1>7, FrameFacts
  <2> QED
    BY <1>4, <1>8, <2>1, FrameFacts DEF TableMatchesFrames, Cached, FrameOf
<1> QED
  BY <1>1, <1>3, <1>4, <1>6, <1>7, <1>9

\* Such a call keeps the invariant if it leaves the page's frame durable,
\* dirty or in the client's hands, and readable as the client left it.
LEMMA FrameStep ==
    ASSUME PoolInv, NEW p \in Cached, NEW g \in Frame, g.page_id = p,
           frames' = [frames EXCEPT ![page_table[p]] = g],
           UNCHANGED <<next_id, page_table, clock_hand, crashes>>,
           disk' \in [PageId -> Page \cup {Missing}],
           mem' \in [PageId -> Page \cup {Missing}],
           result' \in {"ok", "exhausted", "not pinned", "store error"},
           result' = "exhausted" => result = "exhausted" /\ g.pin_count > 0,
           touched' \subseteq PageId,
           \A q \in PageId \ {p} :
              disk'[q] = disk[q] /\ mem'[q] = mem[q] /\ (q \in touched' <=> q \in touched),
           g.dirty \/ p \in touched' \/ g.page = AsRead(disk'[p]),
           mem'[p] # Missing => mem'[p] = g.page,
           p \in touched' => g.pin_count > 0
    PROVE  PoolInv'
<1>1. /\ frames' \in Seq(Frame) /\ Len(frames') = Len(frames)
      /\ DOMAIN frames' = DOMAIN frames /\ TableMatchesFrames'
      /\ frames'[page_table[p]] = g
      /\ \A q \in Cached \ {p} : frames'[page_table[q]] = FrameOf(q)
      /\ \A i \in DOMAIN frames : frames'[i] = g \/ frames'[i] = frames[i]
  BY FrameChanged
<1>2. /\ p \in PageId /\ Cached \subseteq PageId
  BY FrameFacts
<1>3. TypeOK'
  <2>1. /\ next_id' \in 1..(MaxId + 1) /\ Len(frames') <= Capacity
        /\ DOMAIN page_table' \subseteq PageId
        /\ page_table' \in [DOMAIN page_table' -> DOMAIN frames']
        /\ clock_hand' \in 1..Capacity /\ crashes' \in 0..MaxCrashes
    BY <1>1 DEF PoolInv, TypeOK
  <2> QED
    BY <1>1, <2>1, Zenon DEF TypeOK
<1>4. CleanFramesAreDurable'
  <2> SUFFICES ASSUME NEW q \in Cached
               PROVE  \/ frames'[page_table[q]].dirty \/ q \in touched'
                      \/ frames'[page_table[q]].page = AsRead(disk'[q])
    BY DEF CleanFramesAreDurable, Cached, FrameOf, OnDisk, AsRead
  <2>1. CASE q = p
    BY <1>1, <2>1
  <2>2. CASE q # p
    <3>1. FrameOf(q).dirty \/ q \in touched \/ FrameOf(q).page = AsRead(disk[q])
      BY DEF PoolInv, CleanFramesAreDurable, OnDisk, AsRead
    <3> QED
      BY <1>1, <1>2, <2>2, <3>1
  <2> QED
    BY <2>1, <2>2
<1>5. PoolIsTransparent'
  <2> SUFFICES ASSUME NEW q \in PageId, mem'[q] # Missing
               PROVE  mem'[q] = IF q \in Cached THEN frames'[page_table[q]].page
                                ELSE AsRead(disk'[q])
    BY DEF PoolIsTransparent, Cached, FrameOf, OnDisk, AsRead
  <2>1. CASE q = p
    BY <1>1, <2>1
  <2>2. CASE q # p
    <3>1. mem[q] # Missing => mem[q] = IF q \in Cached THEN FrameOf(q).page ELSE AsRead(disk[q])
      BY DEF PoolInv, PoolIsTransparent, OnDisk, AsRead
    <3>2. q \in Cached => frames'[page_table[q]].page = FrameOf(q).page
      BY <1>1, <2>2
    <3>3. mem'[q] = mem[q] /\ disk'[q] = disk[q]
      BY <2>2
    <3> QED
      BY <3>1, <3>2, <3>3
  <2> QED
    BY <2>1, <2>2
<1>6. ExhaustedMeansPinned'
  <2> SUFFICES ASSUME result' = "exhausted"
               PROVE  Len(frames') = Capacity /\ \A i \in DOMAIN frames' : frames'[i].pin_count > 0
    BY DEF ExhaustedMeansPinned
  <2>1. Len(frames) = Capacity /\ \A i \in DOMAIN frames : frames[i].pin_count > 0
    BY DEF PoolInv, ExhaustedMeansPinned
  <2> QED
    BY <1>1, <2>1
<1>7. TouchedArePinned'
  <2> SUFFICES ASSUME NEW q \in touched'
               PROVE  q \in Cached /\ frames'[page_table[q]].pin_count > 0
    BY DEF TouchedArePinned, Cached, FrameOf
  <2>1. CASE q = p
    BY <1>1, <2>1
  <2>2. CASE q # p
    <3>1. q \in Cached /\ FrameOf(q).pin_count > 0
      BY <2>2 DEF PoolInv, TouchedArePinned
    <3> QED
      BY <1>1, <2>2, <3>1
  <2> QED
    BY <2>1, <2>2
<1>8. CachedAreAllocated'
  BY DEF PoolInv, CachedAreAllocated, Cached
<1> QED
  BY <1>1, <1>3, <1>4, <1>5, <1>6, <1>7, <1>8 DEF PoolInv

\* The facts about page p's frame that the calls on it start from.
LEMMA FrameBefore ==
    ASSUME PoolInv, NEW p \in Cached
    PROVE  /\ p \in PageId /\ FrameOf(p) \in Frame /\ FrameOf(p).page_id = p
           /\ FrameOf(p).pin_count \in 0..MaxPins /\ FrameOf(p).page \in Page
           /\ FrameOf(p).dirty \in BOOLEAN /\ FrameOf(p).page # Missing
           /\ page_table[p] \in DOMAIN frames
           /\ disk \in [PageId -> Page \cup {Missing}] /\ mem \in [PageId -> Page \cup {Missing}]
           /\ result \in {"ok", "exhausted", "not pinned", "store error"}
           /\ touched \subseteq PageId
           /\ FrameOf(p).dirty \/ p \in touched \/ FrameOf(p).page = AsRead(disk[p])
           /\ mem[p] # Missing => mem[p] = FrameOf(p).page
           /\ p \in touched => FrameOf(p).pin_count > 0
<1>1. p \in PageId /\ FrameOf(p) \in Frame /\ FrameOf(p).page_id = p /\ page_table[p] \in DOMAIN frames
  BY FrameFacts
<1>2. /\ FrameOf(p).pin_count \in 0..MaxPins /\ FrameOf(p).page \in Page
      /\ FrameOf(p).dirty \in BOOLEAN
  BY <1>1 DEF Frame
<1>3. FrameOf(p).page # Missing
  BY <1>2, PageAssumption DEF Page
<1>4. /\ disk \in [PageId -> Page \cup {Missing}] /\ mem \in [PageId -> Page \cup {Missing}]
      /\ result \in {"ok", "exhausted", "not pinned", "store error"} /\ touched \subseteq PageId
  BY DEF PoolInv, TypeOK
<1>5. FrameOf(p).dirty \/ p \in touched \/ FrameOf(p).page = AsRead(disk[p])
  BY DEF PoolInv, CleanFramesAreDurable, OnDisk, AsRead
<1>6. mem[p] # Missing => mem[p] = FrameOf(p).page
  BY <1>1 DEF PoolInv, PoolIsTransparent
<1>7. p \in touched => FrameOf(p).pin_count > 0
  BY DEF PoolInv, TouchedArePinned
<1> QED
  BY <1>1, <1>2, <1>3, <1>4, <1>5, <1>6, <1>7

\* BufferPool::fetch of a cached page.
LEMMA FetchHitStep ==
    ASSUME PoolInv, NEW p \in PageId, FetchHit(p)
    PROVE  PoolInv'
<1>g. PICK g : g = [FrameOf(p) EXCEPT !.pin_count = @ + 1, !.ref_bit = TRUE]
  OBVIOUS
<1>1. p \in Cached /\ FrameOf(p).pin_count < MaxPins
  BY DEF FetchHit
<1>2. /\ g \in Frame /\ g.page_id = p /\ g.page = FrameOf(p).page
      /\ g.pin_count > 0 /\ (g.dirty <=> FrameOf(p).dirty)
  <2>a. FrameOf(p).pin_count \in 0..MaxPins
    BY <1>1, FrameBefore
  <2>1. FrameOf(p).pin_count + 1 \in 0..MaxPins /\ FrameOf(p).pin_count + 1 > 0
    BY <1>1, <2>a, BoundsAssumption
  <2>2. FrameOf(p) \in Frame /\ FrameOf(p).page_id = p
    BY <1>1, FrameBefore
  <2> QED
    BY <1>g, <2>1, <2>2 DEF Frame
<1>3. frames' = [frames EXCEPT ![page_table[p]] = g]
  BY <1>1, <1>g, FrameBefore DEF FetchHit, FrameOf
<1>4. /\ UNCHANGED <<disk, next_id, page_table, clock_hand, touched, mem, crashes>>
      /\ result' = "ok"
  BY DEF FetchHit
<1>5. /\ disk' \in [PageId -> Page \cup {Missing}] /\ mem' \in [PageId -> Page \cup {Missing}]
      /\ result' \in {"ok", "exhausted", "not pinned", "store error"} /\ touched' \subseteq PageId
      /\ g.dirty \/ p \in touched' \/ g.page = AsRead(disk'[p])
      /\ mem'[p] # Missing => mem'[p] = g.page
  BY <1>1, <1>2, <1>4, FrameBefore
<1> QED
  BY <1>1, <1>2, <1>3, <1>4, <1>5, FrameStep
\* BufferPool::page_mut under a pin.
LEMMA MutateStep ==
    ASSUME PoolInv, NEW p \in PageId, NEW c \in Content, Mutate(p, c)
    PROVE  PoolInv'
<1>g. PICK g : g = [FrameOf(p) EXCEPT !.page = c]
  OBVIOUS
<1>1. p \in Cached /\ FrameOf(p).pin_count > 0
  BY DEF Mutate
<1>2. /\ g \in Frame /\ g.page_id = p /\ g.page = c /\ g.pin_count > 0
      /\ c \in Page \cup {Missing}
  <2>1. FrameOf(p) \in Frame /\ FrameOf(p).page_id = p /\ c \in Page
    BY <1>1, FrameBefore DEF Page
  <2> QED
    BY <1>1, <1>g, <2>1 DEF Frame
<1>3. frames' = [frames EXCEPT ![page_table[p]] = g]
  BY <1>1, <1>g, FrameBefore DEF Mutate, FrameOf
<1>4. /\ UNCHANGED <<disk, next_id, page_table, clock_hand, result, crashes>>
      /\ touched' = touched \cup {p} /\ mem' = [mem EXCEPT ![p] = c]
  BY DEF Mutate
<1>5. /\ disk' \in [PageId -> Page \cup {Missing}] /\ mem \in [PageId -> Page \cup {Missing}]
      /\ result' \in {"ok", "exhausted", "not pinned", "store error"} /\ touched \subseteq PageId
  BY <1>1, <1>4, FrameBefore
<1>6. /\ mem' \in [PageId -> Page \cup {Missing}] /\ mem'[p] = c
      /\ \A q \in PageId \ {p} : mem'[q] = mem[q]
      /\ p \in touched' /\ touched' \subseteq PageId
      /\ \A q \in PageId \ {p} : q \in touched' <=> q \in touched
  BY <1>2, <1>4, <1>5
<1> QED
  BY <1>1, <1>2, <1>3, <1>4, <1>5, <1>6, FrameStep

\* BufferPool::unpin.
LEMMA UnpinStep ==
    ASSUME PoolInv, NEW p \in PageId, NEW dirtied \in BOOLEAN, Unpin(p, dirtied)
    PROVE  PoolInv'
<1>g. PICK g : g = [FrameOf(p) EXCEPT !.pin_count = @ - 1, !.dirty = @ \/ dirtied]
  OBVIOUS
<1>1. /\ p \in Cached /\ FrameOf(p).pin_count > 0
      /\ dirtied \/ p \notin touched \/ FrameOf(p).pin_count > 1
  BY DEF Unpin
<1>a. FrameOf(p) \in Frame /\ FrameOf(p).page_id = p /\ FrameOf(p).pin_count \in 0..MaxPins
  BY <1>1, FrameBefore
<1>2. /\ g \in Frame /\ g.page_id = p /\ g.page = FrameOf(p).page
      /\ g.pin_count = FrameOf(p).pin_count - 1
      /\ g.dirty <=> (FrameOf(p).dirty \/ dirtied)
  <2>1. FrameOf(p).pin_count - 1 \in 0..MaxPins
    BY <1>1, <1>a, BoundsAssumption
  <2> QED
    BY <1>g, <1>a, <2>1 DEF Frame
<1>3. frames' = [frames EXCEPT ![page_table[p]] = g]
  BY <1>1, <1>g, FrameBefore DEF Unpin, FrameOf
<1>4. /\ UNCHANGED <<disk, next_id, page_table, clock_hand, mem, crashes>>
      /\ result' = "ok" /\ touched' = IF dirtied THEN touched \ {p} ELSE touched
  BY DEF Unpin
<1>5. /\ disk' \in [PageId -> Page \cup {Missing}] /\ mem' \in [PageId -> Page \cup {Missing}]
      /\ result' \in {"ok", "exhausted", "not pinned", "store error"} /\ touched' \subseteq PageId
      /\ mem'[p] # Missing => mem'[p] = g.page
  BY <1>1, <1>2, <1>4, FrameBefore
<1>6. g.dirty \/ p \in touched' \/ g.page = AsRead(disk'[p])
  BY <1>1, <1>2, <1>4, FrameBefore
<1>7. p \in touched' => g.pin_count > 0
  BY <1>1, <1>2, <1>4, <1>a, BoundsAssumption
<1>8. \A q \in PageId \ {p} : q \in touched' <=> q \in touched
  BY <1>4
<1> QED
  BY <1>1, <1>2, <1>3, <1>4, <1>5, <1>6, <1>7, <1>8, FrameStep

\* BufferPool::flush of one page.
LEMMA FlushStep ==
    ASSUME PoolInv, NEW p \in PageId, Flush(p)
    PROVE  PoolInv'
<1>g. PICK g : g = IF frames' = frames THEN FrameOf(p) ELSE [FrameOf(p) EXCEPT !.dirty = FALSE]
  OBVIOUS
<1>1. /\ p \in Cached
      /\ UNCHANGED <<next_id, page_table, clock_hand, touched, mem, crashes>>
      /\ result' \in {"ok", "store error"}
  BY DEF Flush
<1>a. /\ FrameOf(p) \in Frame /\ FrameOf(p).page_id = p /\ page_table[p] \in DOMAIN frames
      /\ FrameOf(p).page \in Page /\ FrameOf(p).page # Missing
      /\ disk \in [PageId -> Page \cup {Missing}]
  BY <1>1, FrameBefore
<1>2. /\ g \in Frame /\ g.page_id = p /\ g.page = FrameOf(p).page
      /\ g.pin_count = FrameOf(p).pin_count
  BY <1>a, <1>g DEF Frame
<1>3. frames' = [frames EXCEPT ![page_table[p]] = g]
  <2>1. CASE frames' = frames
    <3>1. frames \in [1..Len(frames) -> Frame]
      BY FrameFacts, LenProperties
    <3> QED
      BY <1>g, <2>1, <3>1 DEF FrameOf
  <2>2. CASE frames' # frames
    BY <1>a, <1>g, <2>2 DEF Flush, FrameOf
  <2> QED
    BY <2>1, <2>2
<1>4. CASE disk' = disk /\ (frames' = frames \/ ~FrameOf(p).dirty)
  <2>1. /\ disk' \in [PageId -> Page \cup {Missing}] /\ mem' \in [PageId -> Page \cup {Missing}]
        /\ result' \in {"ok", "exhausted", "not pinned", "store error"} /\ touched' \subseteq PageId
        /\ mem'[p] # Missing => mem'[p] = g.page
        /\ p \in touched' => g.pin_count > 0
    BY <1>1, <1>2, <1>4, FrameBefore
  <2>2. g.dirty \/ p \in touched' \/ g.page = AsRead(disk'[p])
    <3>1. FrameOf(p).dirty \/ p \in touched \/ FrameOf(p).page = AsRead(disk[p])
      BY <1>1, FrameBefore
    <3> QED
      BY <1>1, <1>2, <1>4, <1>g, <3>1
  <2> QED
    BY <1>1, <1>2, <1>3, <1>4, <2>1, <2>2, FrameStep
<1>5. CASE disk' = [disk EXCEPT ![p] = FrameOf(p).page]
  <2>1. /\ disk' \in [PageId -> Page \cup {Missing}]
        /\ \A q \in PageId \ {p} : disk'[q] = disk[q]
        /\ g.page = AsRead(disk'[p])
    BY <1>2, <1>5, <1>a DEF AsRead
  <2>2. /\ mem' \in [PageId -> Page \cup {Missing}]
        /\ result' \in {"ok", "exhausted", "not pinned", "store error"} /\ touched' \subseteq PageId
        /\ mem'[p] # Missing => mem'[p] = g.page
        /\ p \in touched' => g.pin_count > 0
    BY <1>1, <1>2, FrameBefore
  <2> QED
    BY <1>1, <1>2, <1>3, <2>1, <2>2, FrameStep
<1> QED
  BY <1>4, <1>5 DEF Flush

\* BufferPool::flush_all, whole or stopped by a write that fails.
LEMMA FlushAllStep ==
    ASSUME PoolInv, FlushAll
    PROVE  PoolInv'
<1>n. PICK n \in 0..Len(frames) :
         /\ disk' = Written(n) /\ frames' = Flushed(n)
         /\ result' = IF n = Len(frames) THEN "ok" ELSE "store error"
  BY DEF FlushAll
<1>1. UNCHANGED <<next_id, page_table, clock_hand, touched, mem, crashes>>
  BY DEF FlushAll
<1>2. /\ frames \in Seq(Frame) /\ Len(frames) \in Nat /\ DOMAIN frames = 1..Len(frames)
      /\ \A i \in 1..Len(frames) : frames[i] \in Frame
  BY FrameFacts
<1>3. \A i \in 1..Len(frames) :
         /\ frames'[i] \in Frame
         /\ frames'[i] = IF i <= n THEN [frames[i] EXCEPT !.dirty = FALSE] ELSE frames[i]
  <2> TAKE i \in 1..Len(frames)
  <2>1. frames'[i] = IF i <= n THEN [frames[i] EXCEPT !.dirty = FALSE] ELSE frames[i]
    BY <1>2, <1>n DEF Flushed
  <2>2. frames[i] \in Frame /\ [frames[i] EXCEPT !.dirty = FALSE] \in Frame
    BY <1>2 DEF Frame
  <2> QED
    BY <2>1, <2>2
<1>4. \A i \in 1..Len(frames) :
         /\ frames'[i].page_id = frames[i].page_id /\ frames'[i].page = frames[i].page
         /\ frames'[i].pin_count = frames[i].pin_count
         /\ i > n => frames'[i] = frames[i]
  <2> TAKE i \in 1..Len(frames)
  <2>1. frames[i] \in Frame /\ n \in Nat /\ i \in Nat
    BY <1>2
  <2>2. CASE i <= n
    <3>1. frames'[i] = [frames[i] EXCEPT !.dirty = FALSE]
      BY <1>3, <2>2
    <3>2. ~(i > n)
      BY <2>1, <2>2
    <3> QED
      BY <2>1, <3>1, <3>2 DEF Frame
  <2>3. CASE ~(i <= n)
    <3>1. frames'[i] = frames[i]
      BY <1>3, <2>3
    <3> QED
      BY <3>1
  <2> QED
    BY <2>2, <2>3
<1>5. /\ frames' \in Seq(Frame) /\ Len(frames') = Len(frames) /\ DOMAIN frames' = 1..Len(frames)
  <2>1. frames' = [i \in 1..Len(frames) |-> frames'[i]]
    BY <1>2, <1>n DEF Flushed
  <2>2. frames' \in [1..Len(frames) -> Frame]
    BY <1>3, <2>1
  <2>3. frames' \in Seq(Frame)
    BY <1>2, <2>2, SeqDef
  <2> QED
    BY <1>2, <2>1, <2>3, LenProperties
<1>6. /\ disk \in [PageId -> Page \cup {Missing}]
      /\ disk' = [q \in PageId |-> IF q \in Cached /\ page_table[q] <= n /\ FrameOf(q).dirty
                                   THEN FrameOf(q).page ELSE disk[q]]
  BY <1>n DEF Written, PoolInv, TypeOK
<1>7. \A q \in Cached : /\ q \in PageId /\ page_table[q] \in 1..Len(frames)
                        /\ FrameOf(q) = frames[page_table[q]]
                        /\ FrameOf(q).page \in Page /\ FrameOf(q).page # Missing
  BY FrameFacts, FrameBefore DEF FrameOf
<1>8. TypeOK'
  <2>1. disk' \in [PageId -> Page \cup {Missing}]
    BY <1>6, <1>7
  <2>2. /\ next_id' \in 1..(MaxId + 1) /\ Len(frames') <= Capacity
        /\ DOMAIN page_table' \subseteq PageId
        /\ page_table' \in [DOMAIN page_table' -> DOMAIN frames']
        /\ clock_hand' \in 1..Capacity /\ crashes' \in 0..MaxCrashes
        /\ touched' \subseteq PageId /\ mem' \in [PageId -> Page \cup {Missing}]
    BY <1>1, <1>2, <1>5 DEF PoolInv, TypeOK
  <2>3. result' \in {"ok", "exhausted", "not pinned", "store error"}
    BY <1>n
  <2> QED
    BY <1>5, <2>1, <2>2, <2>3, Zenon DEF TypeOK
<1>9. TableMatchesFrames'
  BY <1>1, <1>4, <1>5, <1>7, FrameFacts DEF TableMatchesFrames, Cached, FrameOf
<1>10. CleanFramesAreDurable'
  <2> SUFFICES ASSUME NEW q \in Cached
               PROVE  \/ frames'[page_table[q]].dirty \/ q \in touched
                      \/ frames'[page_table[q]].page = AsRead(disk'[q])
    BY <1>1 DEF CleanFramesAreDurable, Cached, FrameOf, OnDisk, AsRead
  <2>1. /\ frames'[page_table[q]].page = FrameOf(q).page
        /\ page_table[q] > n => frames'[page_table[q]] = FrameOf(q)
    BY <1>4, <1>7
  <2>2. FrameOf(q).dirty \/ q \in touched \/ FrameOf(q).page = AsRead(disk[q])
    BY FrameBefore
  <2>3. CASE page_table[q] <= n /\ FrameOf(q).dirty
    <3>1. disk'[q] = FrameOf(q).page
      BY <1>6, <1>7, <2>3
    <3> QED
      BY <1>7, <2>1, <3>1 DEF AsRead
  <2>4. CASE ~(page_table[q] <= n /\ FrameOf(q).dirty)
    <3>1. disk'[q] = disk[q]
      BY <1>6, <1>7, <2>4
    <3>2. FrameOf(q).dirty => page_table[q] > n
      BY <1>2, <1>7, <2>4
    <3> QED
      BY <2>1, <2>2, <3>1, <3>2
  <2> QED
    BY <2>3, <2>4
<1>11. PoolIsTransparent'
  <2> SUFFICES ASSUME NEW q \in PageId, mem[q] # Missing
               PROVE  mem[q] = IF q \in Cached THEN frames'[page_table[q]].page
                               ELSE AsRead(disk'[q])
    BY <1>1 DEF PoolIsTransparent, Cached, FrameOf, OnDisk, AsRead
  <2>1. mem[q] = IF q \in Cached THEN FrameOf(q).page ELSE AsRead(disk[q])
    BY DEF PoolInv, PoolIsTransparent, OnDisk, AsRead
  <2>2. q \in Cached => frames'[page_table[q]].page = FrameOf(q).page
    BY <1>4, <1>7
  <2>3. q \notin Cached => disk'[q] = disk[q]
    BY <1>6
  <2> QED
    BY <2>1, <2>2, <2>3
<1>12. ExhaustedMeansPinned'
  BY <1>n DEF ExhaustedMeansPinned
<1>13. TouchedArePinned' /\ CachedAreAllocated'
  <2>1. \A q \in touched : q \in Cached /\ frames'[page_table[q]].pin_count > 0
    BY <1>4, <1>7 DEF PoolInv, TouchedArePinned
  <2> QED
    BY <1>1, <2>1 DEF PoolInv, TouchedArePinned, CachedAreAllocated, Cached, FrameOf
<1> QED
  BY <1>8, <1>9, <1>10, <1>11, <1>12, <1>13 DEF PoolInv

\* A call that is refused changes nothing but its result.
LEMMA UnpinRefusedStep ==
    ASSUME PoolInv, NEW p \in PageId, UnpinRefused(p)
    PROVE  PoolInv'
<1>1. /\ UNCHANGED <<disk, next_id, frames, page_table, clock_hand, touched, mem, crashes>>
      /\ result' = "not pinned"
  BY DEF UnpinRefused
<1>2. TypeOK'
  BY <1>1 DEF PoolInv, TypeOK
<1>3. TableMatchesFrames' /\ CleanFramesAreDurable' /\ PoolIsTransparent'
  BY <1>1 DEF PoolInv, TableMatchesFrames, CleanFramesAreDurable, PoolIsTransparent, Cached,
              FrameOf, OnDisk
<1>4. ExhaustedMeansPinned' /\ TouchedArePinned' /\ CachedAreAllocated'
  BY <1>1 DEF PoolInv, ExhaustedMeansPinned, TouchedArePinned, CachedAreAllocated, Cached, FrameOf
<1> QED
  BY <1>2, <1>3, <1>4 DEF PoolInv

\* After a crash the pool is empty and clients see what the store has.
LEMMA CrashStep ==
    ASSUME PoolInv, Crash
    PROVE  PoolInv'
<1> DEFINE W == {p \in PageId : disk[p] # Missing}
<1>1. /\ frames' = <<>> /\ page_table' = <<>> /\ clock_hand' = 1 /\ result' = "ok"
      /\ touched' = {} /\ mem' = disk /\ disk' = disk /\ crashes' = crashes + 1
      /\ crashes < MaxCrashes
      /\ next_id' = IF W = {} THEN 1 ELSE 1 + CHOOSE p \in W : \A q \in W : q <= p
  BY DEF Crash
<1>2. next_id' \in 1..(MaxId + 1)
  <2>1. CASE W = {}
    BY <1>1, <2>1, MaxIdAssumption
  <2>2. CASE W # {}
    <3>1. W \in SUBSET Nat /\ \A x \in W : x \in 1..MaxId
      BY MaxIdAssumption DEF PageId
    <3>2. \A x \in W : x <= MaxId
      BY <3>1, MaxIdAssumption
    <3> HIDE DEF W
    <3>3. \E p \in W : \A q \in W : q <= p
      BY <2>2, <3>1, <3>2, LargestNat, MaxIdAssumption
    <3>4. (CHOOSE p \in W : \A q \in W : q <= p) \in W
      BY <3>3
    <3> DEFINE m == CHOOSE p \in W : \A q \in W : q <= p
    <3>5. next_id' = 1 + m
      BY <1>1, <2>2
    <3>6. m \in 1..MaxId
      BY <3>1, <3>4
    <3> HIDE DEF m
    <3> QED
      BY <3>5, <3>6, MaxIdAssumption
  <2> QED
    BY <2>1, <2>2
<1>3. DOMAIN page_table' = {} /\ DOMAIN frames' = {} /\ Len(frames') = 0 /\ frames' \in Seq(Frame)
  <2>1. DOMAIN <<>> = {} /\ Len(<<>>) = 0
    OBVIOUS
  <2>2. <<>> \in Seq(Frame)
    BY EmptySeq
  <2> QED
    BY <1>1, <2>1, <2>2
<1>4. TypeOK'
  <2>1. /\ disk' \in [PageId -> Page \cup {Missing}] /\ mem' \in [PageId -> Page \cup {Missing}]
    BY <1>1 DEF PoolInv, TypeOK
  <2>2. crashes' \in 0..MaxCrashes
    <3>1. crashes \in 0..MaxCrashes
      BY DEF PoolInv, TypeOK
    <3> QED
      BY <1>1, <3>1, BoundsAssumption
  <2>3. page_table' \in [DOMAIN page_table' -> DOMAIN frames'] /\ DOMAIN page_table' \subseteq PageId
    <3>1. page_table' = [q \in DOMAIN page_table' |-> page_table'[q]]
      BY <1>1
    <3> QED
      BY <1>3, <3>1
  <2>4. Len(frames') <= Capacity /\ clock_hand' \in 1..Capacity
    BY <1>1, <1>3, CapacityAssumption
  <2>5. touched' \subseteq PageId /\ result' \in {"ok", "exhausted", "not pinned", "store error"}
    BY <1>1
  <2> QED
    BY <1>2, <1>3, <2>1, <2>2, <2>3, <2>4, <2>5, Zenon DEF TypeOK
<1>5. TableMatchesFrames' /\ CleanFramesAreDurable'
  BY <1>3 DEF TableMatchesFrames, CleanFramesAreDurable, Cached
<1>6. PoolIsTransparent'
  BY <1>1, <1>3 DEF PoolIsTransparent, Cached, OnDisk
<1>7. ExhaustedMeansPinned' /\ TouchedArePinned' /\ CachedAreAllocated'
  BY <1>1, <1>3 DEF ExhaustedMeansPinned, TouchedArePinned, CachedAreAllocated, Cached
<1> QED
  BY <1>4, <1>5, <1>6, <1>7 DEF PoolInv

\* A step that changes nothing.
LEMMA PoolStutter ==
    ASSUME PoolInv, UNCHANGED vars
    PROVE  PoolInv'
<1>1. UNCHANGED <<disk, next_id, frames, page_table, clock_hand, result, touched, mem, crashes>>
  BY DEF vars
<1>2. TypeOK'
  BY <1>1 DEF PoolInv, TypeOK
<1>3. TableMatchesFrames' /\ CleanFramesAreDurable' /\ PoolIsTransparent'
  BY <1>1 DEF PoolInv, TableMatchesFrames, CleanFramesAreDurable, PoolIsTransparent, Cached,
              FrameOf, OnDisk
<1>4. ExhaustedMeansPinned' /\ TouchedArePinned' /\ CachedAreAllocated'
  BY <1>1 DEF PoolInv, ExhaustedMeansPinned, TouchedArePinned, CachedAreAllocated, Cached, FrameOf
<1> QED
  BY <1>2, <1>3, <1>4 DEF PoolInv

\* A new pool.
LEMMA InitPoolInv == Init => PoolInv
<1> SUFFICES ASSUME Init PROVE PoolInv
  OBVIOUS
<1>1. DOMAIN page_table = {} /\ DOMAIN frames = {} /\ Len(frames) = 0 /\ frames \in Seq(Frame)
  <2>1. DOMAIN <<>> = {} /\ Len(<<>>) = 0
    OBVIOUS
  <2>2. <<>> \in Seq(Frame)
    BY EmptySeq
  <2> QED
    BY <2>1, <2>2 DEF Init
<1>2. TypeOK
  <2>1. page_table \in [DOMAIN page_table -> DOMAIN frames] /\ DOMAIN page_table \subseteq PageId
    <3>1. page_table = [q \in DOMAIN page_table |-> page_table[q]]
      BY DEF Init
    <3> QED
      BY <1>1, <3>1
  <2>2. /\ Len(frames) <= Capacity /\ clock_hand \in 1..Capacity /\ next_id \in 1..(MaxId + 1)
        /\ crashes \in 0..MaxCrashes
    BY <1>1, CapacityAssumption, MaxIdAssumption, BoundsAssumption DEF Init
  <2>3. /\ disk \in [PageId -> Page \cup {Missing}] /\ mem \in [PageId -> Page \cup {Missing}]
        /\ touched \subseteq PageId /\ result \in {"ok", "exhausted", "not pinned", "store error"}
    BY DEF Init
  <2> QED
    BY <1>1, <2>1, <2>2, <2>3, Zenon DEF TypeOK
<1>3. TableMatchesFrames /\ CleanFramesAreDurable /\ CachedAreAllocated
  BY <1>1 DEF TableMatchesFrames, CleanFramesAreDurable, CachedAreAllocated, Cached
<1>4. PoolIsTransparent /\ ExhaustedMeansPinned /\ TouchedArePinned
  BY DEF Init, PoolIsTransparent, ExhaustedMeansPinned, TouchedArePinned
<1> QED
  BY <1>2, <1>3, <1>4 DEF PoolInv

-----------------------------------------------------------------------------
(* Theorems.                                                               *)

\* The inductive invariant of the pool.
THEOREM PoolInvariance == Spec => []PoolInv
<1>1. PoolInv /\ [Next]_vars => PoolInv'
  <2> SUFFICES ASSUME PoolInv, [Next]_vars PROVE PoolInv'
    OBVIOUS
  <2>1. CASE NewPage
    BY <2>1, NewPageStep
  <2>2. CASE FlushAll
    BY <2>2, FlushAllStep
  <2>3. CASE Crash
    BY <2>3, CrashStep
  <2>4. ASSUME NEW p \in PageId, FetchHit(p) PROVE PoolInv'
    BY <2>4, FetchHitStep
  <2>5. ASSUME NEW p \in PageId, FetchMiss(p) PROVE PoolInv'
    BY <2>5, FetchMissStep
  <2>6. ASSUME NEW p \in PageId, UnpinRefused(p) PROVE PoolInv'
    BY <2>6, UnpinRefusedStep
  <2>7. ASSUME NEW p \in PageId, Flush(p) PROVE PoolInv'
    BY <2>7, FlushStep
  <2>8. ASSUME NEW p \in PageId, NEW c \in Content, Mutate(p, c) PROVE PoolInv'
    BY <2>8, MutateStep
  <2>9. ASSUME NEW p \in PageId, NEW dirtied \in BOOLEAN, Unpin(p, dirtied) PROVE PoolInv'
    BY <2>9, UnpinStep
  <2>10. CASE UNCHANGED vars
    BY <2>10, PoolStutter
  <2> QED
    BY <2>1, <2>2, <2>3, <2>4, <2>5, <2>6, <2>7, <2>8, <2>9, <2>10 DEF Next
<1> QED
  BY <1>1, InitPoolInv, PTL DEF Spec

\* Type correctness of the pool.
THEOREM PoolTypeCorrect == Spec => []TypeOK
<1>1. PoolInv => TypeOK
  BY DEF PoolInv
<1> QED
  BY <1>1, PoolInvariance, PTL

\* Eviction, second chances and failed writes are invisible (buffer.rs).
THEOREM Transparency == Spec => []PoolIsTransparent
<1>1. PoolInv => PoolIsTransparent
  BY DEF PoolInv
<1> QED
  BY <1>1, PoolInvariance, PTL

\* What is neither dirty nor in use is durable (buffer.rs flush, flush_all).
THEOREM CleanIsDurable == Spec => []CleanFramesAreDurable
<1>1. PoolInv => CleanFramesAreDurable
  BY DEF PoolInv
<1> QED
  BY <1>1, PoolInvariance, PTL

\* Frames and page table agree (buffer.rs find_frame_for).
THEOREM OnePagePerFrame == Spec => []TableMatchesFrames
<1>1. PoolInv => TableMatchesFrames
  BY DEF PoolInv
<1> QED
  BY <1>1, PoolInvariance, PTL

\* 2 * capacity + 1 looks are enough for every capacity: PoolExhausted means
\* that every frame is pinned (buffer.rs find_frame_for).
THEOREM ExhaustionIsReal == Spec => []ExhaustedMeansPinned
<1>1. PoolInv => ExhaustedMeansPinned
  BY DEF PoolInv
<1> QED
  BY <1>1, PoolInvariance, PTL

\* No step but a crash moves or drops a page that a client has pinned
\* (buffer.rs find_frame_for).
THEOREM PinnedStay == Spec => PinnedPagesStay
<1> DEFINE Stay == crashes' = crashes =>
                     \A p \in Cached : FrameOf(p).pin_count > 0 =>
                        p \in DOMAIN page_table' /\ page_table'[p] = page_table[p]
<1>1. PoolInv /\ Next => Stay
  <2> SUFFICES ASSUME PoolInv, Next PROVE Stay
    OBVIOUS
  <2>1. ASSUME page_table' = page_table PROVE Stay
    BY <2>1 DEF Cached
  <2>2. ASSUME NEW p \in PageId, NEW f \in Frame, f.page_id = p, Install(p, f), p \notin Cached
        PROVE  Stay
    <3>1. InstallKeeps(p) /\ InstallDrops
      BY <2>2, InstallEffect DEF InstallResult
    <3> SUFFICES ASSUME NEW q \in Cached, FrameOf(q).pin_count > 0
                 PROVE  q \in DOMAIN page_table' /\ page_table'[q] = page_table[q]
      OBVIOUS
    <3>2. FrameOf(q).pin_count # 0 /\ q # p
      BY <2>2
    <3> QED
      BY <3>1, <3>2 DEF InstallKeeps, InstallDrops
  <2>3. CASE NewPage
    <3> DEFINE f == [page_id |-> next_id, page |-> Fresh, pin_count |-> 1,
                     dirty |-> TRUE, ref_bit |-> TRUE]
    <3>1. next_id \in 1..(MaxId + 1) /\ next_id <= MaxId
      BY <2>3 DEF PoolInv, TypeOK, NewPage
    <3>2. next_id \in PageId /\ next_id \notin Cached
      BY <3>1, MaxIdAssumption DEF PageId, PoolInv, CachedAreAllocated
    <3>3. f \in Frame
      BY <3>2, BoundsAssumption DEF Frame, Page
    <3>4. f.page_id = next_id /\ Install(next_id, f)
      BY <2>3 DEF NewPage
    <3> QED
      BY <2>2, <3>2, <3>3, <3>4
  <2>4. ASSUME NEW p \in PageId, FetchMiss(p) PROVE Stay
    <3> DEFINE f == [page_id |-> p, page |-> OnDisk(p), pin_count |-> 1,
                     dirty |-> FALSE, ref_bit |-> TRUE]
    <3>1. OnDisk(p) \in Page
      BY DEF PoolInv, TypeOK, OnDisk, Page
    <3>2. f \in Frame
      BY <3>1, BoundsAssumption DEF Frame
    <3>3. f.page_id = p /\ Install(p, f) /\ p \notin Cached
      BY <2>4 DEF FetchMiss
    <3> QED
      BY <2>2, <3>2, <3>3
  <2>5. CASE Crash
    <3>1. crashes' = crashes + 1
      BY <2>5 DEF Crash
    <3>2. crashes \in 0..MaxCrashes
      BY DEF PoolInv, TypeOK
    <3>3. crashes' # crashes
      BY <3>1, <3>2, BoundsAssumption
    <3> QED
      BY <3>3
  <2>6. CASE FlushAll
    BY <2>1, <2>6 DEF FlushAll
  <2>7. ASSUME NEW p \in PageId,
               FetchHit(p) \/ UnpinRefused(p) \/ Flush(p)
               \/ (\E c \in Content : Mutate(p, c)) \/ (\E d \in BOOLEAN : Unpin(p, d))
        PROVE  Stay
    <3>1. page_table' = page_table
      BY <2>7 DEF FetchHit, UnpinRefused, Flush, Mutate, Unpin
    <3> QED
      BY <2>1, <3>1
  <2> HIDE DEF Stay
  <2> QED
    BY <2>3, <2>4, <2>5, <2>6, <2>7 DEF Next
<1> QED
  BY <1>1, PoolInvariance, PTL DEF Spec, PinnedPagesStay
=============================================================================
