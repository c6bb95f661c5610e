--------------------------- MODULE HeapPagesProofs ---------------------------
(***************************************************************************)
(* HeapPages is correct for any set of pages and bodies and any number of  *)
(* writes, crashes and I/O errors: no live slot is written again and,      *)
(* until an append to the location log fails, the process reads what a     *)
(* restarted one would and the store implements PageStore.                 *)
(***************************************************************************)
EXTENDS HeapPages, InductionProofs, SequenceTheorems

USE DEF log

Slot == Content \cup {Junk, Partial}

\* The file that a step leaves still has, synced, each synced page body.
KeepsSynced ==
    \A k \in 1..synced : heap[k] \in Content => k <= synced' /\ heap'[k] = heap[k]

-----------------------------------------------------------------------------
(* The file and the log.                                                   *)

LEMMA HeapFacts ==
    ASSUME TypeOK
    PROVE  /\ heap \in Seq(Slot) /\ Len(heap) \in Nat /\ DOMAIN heap = 1..Len(heap)
           /\ \A i \in 1..Len(heap) : heap[i] \in Slot
           /\ synced \in Nat /\ synced <= Len(heap) /\ heap_len \in Nat
<1>1. heap \in Seq(Slot) /\ synced \in 0..Len(heap) /\ heap_len \in Nat
  BY DEF TypeOK, Slot
<1>2. Len(heap) \in Nat /\ DOMAIN heap = 1..Len(heap) /\ \A i \in 1..Len(heap) : heap[i] \in Slot
  BY <1>1, LenProperties, ElementOfSeq
<1> QED
  BY <1>1, <1>2

LEMMA LogFacts ==
    ASSUME TypeOK
    PROVE  /\ location_log \in Seq(PageId \X Nat) /\ Len(location_log) \in Nat
           /\ log_synced \in Nat /\ log_synced <= Len(location_log)
           /\ DOMAIN location_log = 1..Len(location_log)
           /\ \A i \in DOMAIN location_log :
                 location_log[i][1] \in PageId /\ location_log[i][2] \in Nat
<1>1. location_log \in Seq(PageId \X Nat) /\ log_synced \in 0..Len(location_log)
  BY DEF TypeOK
<1>2. Len(location_log) \in Nat /\ DOMAIN location_log = 1..Len(location_log)
  BY <1>1, LenProperties
<1>3. \A i \in 1..Len(location_log) : location_log[i] \in PageId \X Nat
  BY <1>1, ElementOfSeq
<1> QED
  BY <1>1, <1>2, <1>3

\* The last record of a page that has one.
LEMMA LastRecord ==
    ASSUME TypeOK, NEW p, RecordsOf(p) # {}
    PROVE  \E i \in RecordsOf(p) :
              /\ \A j \in RecordsOf(p) : j <= i
              /\ Replayed(p) = location_log[i][2]
<1> DEFINE own == RecordsOf(p)
<1>1. own \in SUBSET Nat /\ \A i \in own : i <= Len(location_log)
  BY LogFacts DEF RecordsOf
<1>2. Len(location_log) \in Nat
  BY LogFacts
<1>3. Replayed(p) = location_log[CHOOSE i \in own : \A j \in own : j <= i][2]
  BY DEF Replayed
<1> HIDE DEF own
<1>4. own # {}
  BY DEF own
<1>5. \E i \in own : \A j \in own : j <= i
  BY <1>1, <1>2, <1>4, LargestNat
<1>6. PICK m : m = CHOOSE i \in own : \A j \in own : j <= i
  OBVIOUS
<1>7. m \in own /\ \A j \in own : j <= m
  BY <1>5, <1>6
<1> QED
  BY <1>3, <1>6, <1>7 DEF own

\* A record that is the last of its page decides where the page is.
LEMMA LastDecides ==
    ASSUME TypeOK, NEW p, NEW i \in RecordsOf(p), \A j \in RecordsOf(p) : j <= i
    PROVE  Replayed(p) = location_log[i][2]
<1>1. PICK m \in RecordsOf(p) :
         (\A j \in RecordsOf(p) : j <= m) /\ Replayed(p) = location_log[m][2]
  BY LastRecord
<1>2. m <= i /\ i <= m /\ m \in Nat /\ i \in Nat
  BY <1>1, LogFacts DEF RecordsOf
<1>3. m = i
  BY <1>2
<1> QED
  BY <1>1, <1>3

\* Where a page is, is what some record says.
LEMMA ReplayedIsRecorded ==
    ASSUME TypeOK, NEW p
    PROVE  \/ Replayed(p) = Missing /\ RecordsOf(p) = {}
           \/ \E i \in DOMAIN location_log :
                 Replayed(p) = location_log[i][2] /\ location_log[i][1] = p
<1>1. CASE RecordsOf(p) = {}
  BY <1>1 DEF Replayed
<1>2. CASE RecordsOf(p) # {}
  BY <1>2, LastRecord DEF RecordsOf
<1> QED
  BY <1>1, <1>2

LEMMA ReplayedTyped ==
    ASSUME TypeOK
    PROVE  [p \in PageId |-> Replayed(p)] \in [PageId -> Nat \cup {Missing}]
<1>1. \A p \in PageId : Replayed(p) \in Nat \cup {Missing}
  BY ReplayedIsRecorded, LogFacts
<1> QED
  BY <1>1

\* The log decides alone.
LEMMA ReplayedSame ==
    ASSUME location_log' = location_log
    PROVE  \A p : Replayed(p)' = Replayed(p)
BY DEF Replayed, RecordsOf

\* One more record moves its page and no other.
LEMMA ReplayedAppend ==
    ASSUME TypeOK, TypeOK', NEW q \in PageId, NEW n \in Nat,
           location_log' = Append(location_log, <<q, n>>)
    PROVE  \A p \in PageId : Replayed(p)' = IF p = q THEN n ELSE Replayed(p)
<1> DEFINE L == Len(location_log)
<1>1. /\ location_log' \in Seq(PageId \X Nat) /\ Len(location_log') = L + 1
      /\ \A i \in 1..L : location_log'[i] = location_log[i]
      /\ location_log'[L + 1] = <<q, n>> /\ L \in Nat
      /\ DOMAIN location_log = 1..L
  BY LogFacts, AppendProperties
<1>2. DOMAIN location_log' = 1..(L + 1)
  BY <1>1, LenProperties
<1>3. \A p : RecordsOf(p)' = IF p = q THEN RecordsOf(p) \cup {L + 1} ELSE RecordsOf(p)
  <2> TAKE p
  <2>1. RecordsOf(p)' = {i \in 1..(L + 1) : location_log'[i][1] = p}
    BY <1>2 DEF RecordsOf
  <2>2. RecordsOf(p) = {i \in 1..L : location_log[i][1] = p}
    BY <1>1 DEF RecordsOf
  <2>3. \A i \in 1..(L + 1) : i \in 1..L \/ i = L + 1
    BY <1>1
  <2>4. 1..L \subseteq 1..(L + 1) /\ L + 1 \in 1..(L + 1)
    BY <1>1
  <2>5. location_log'[L + 1][1] = q
    BY <1>1
  <2> QED
    BY <1>1, <2>1, <2>2, <2>3, <2>4, <2>5
<1> SUFFICES ASSUME NEW p \in PageId PROVE Replayed(p)' = IF p = q THEN n ELSE Replayed(p)
  OBVIOUS
<1>4. CASE p = q
  <2>1. L + 1 \in RecordsOf(p)' /\ \A j \in RecordsOf(p)' : j <= L + 1
    BY <1>1, <1>2, <1>3, <1>4 DEF RecordsOf
  <2>2. PICK i \in RecordsOf(p)' : i = L + 1
    BY <2>1
  <2>3. TypeOK /\ i \in RecordsOf(p) /\ (\A j \in RecordsOf(p) : j <= i)
        => Replayed(p) = location_log[i][2]
    BY LastDecides
  <2>4. (TypeOK /\ i \in RecordsOf(p) /\ (\A j \in RecordsOf(p) : j <= i)
         => Replayed(p) = location_log[i][2])'
    BY LastDecides, PTL
  <2> QED
    BY <1>1, <1>4, <2>1, <2>2, <2>4
<1>5. CASE p # q
  <2>1. RecordsOf(p)' = RecordsOf(p)
    BY <1>3, <1>5
  <2>2. CASE RecordsOf(p) = {}
    BY <1>5, <2>1, <2>2 DEF Replayed
  <2>3. CASE RecordsOf(p) # {}
    <3>1. PICK i \in RecordsOf(p) :
             (\A j \in RecordsOf(p) : j <= i) /\ Replayed(p) = location_log[i][2]
      BY <2>3, LastRecord
    <3>2. location_log'[i] = location_log[i]
      BY <1>1, <3>1 DEF RecordsOf
    <3>3. (TypeOK /\ i \in RecordsOf(p) /\ (\A j \in RecordsOf(p) : j <= i)
           => Replayed(p) = location_log[i][2])'
      BY LastDecides, PTL
    <3>4. Replayed(p)' = location_log'[i][2]
      BY <2>1, <3>1, <3>3
    <3> QED
      BY <1>5, <3>1, <3>2, <3>4
  <2> QED
    BY <2>2, <2>3
<1> QED
  BY <1>4, <1>5

-----------------------------------------------------------------------------
(* What a step that leaves the log alone keeps.                            *)

\* A located page is in a synced slot, as it was written.
LEMMA LocatedFacts ==
    ASSUME TypeOK, LocatedAreWritten, NEW i \in DOMAIN location_log
    PROVE  /\ location_log[i][2] \in Nat /\ location_log[i][2] + 1 \in 1..synced
           /\ location_log[i][2] < Len(heap) /\ location_log[i][2] < synced
           /\ heap[location_log[i][2] + 1] \in Content
<1>1. location_log[i][2] \in Nat /\ synced \in Nat /\ synced <= Len(heap) /\ Len(heap) \in Nat
  BY HeapFacts, LogFacts
<1>2. location_log[i][2] < synced /\ heap[location_log[i][2] + 1] \in Content
  BY DEF LocatedAreWritten
<1> QED
  BY <1>1, <1>2

LEMMA LocatedKept ==
    ASSUME TypeOK, TypeOK', LocatedAreWritten, location_log' = location_log, KeepsSynced
    PROVE  LocatedAreWritten' /\ \A p \in PageId : Durable(p)' = Durable(p)
<1>1. /\ synced' \in Nat /\ synced' <= Len(heap)' /\ Len(heap)' \in Nat
  <2>1. synced' \in 0..Len(heap')
    BY DEF TypeOK
  <2>2. heap' \in Seq(Slot)
    BY DEF TypeOK, Slot
  <2> QED
    BY <2>1, <2>2, LenProperties
<1>2. \A i \in DOMAIN location_log :
         /\ location_log[i][2] < synced' /\ location_log[i][2] < Len(heap')
         /\ heap'[location_log[i][2] + 1] = heap[location_log[i][2] + 1]
         /\ heap'[location_log[i][2] + 1] \in Content
  <2> TAKE i \in DOMAIN location_log
  <2>1. PICK k : k = location_log[i][2] + 1
    OBVIOUS
  <2>2. location_log[i][2] \in Nat /\ k \in 1..synced /\ heap[k] \in Content
    BY <2>1, LocatedFacts
  <2>3. k <= synced' /\ heap'[k] = heap[k]
    BY <2>2 DEF KeepsSynced
  <2>4. location_log[i][2] < synced' /\ location_log[i][2] < Len(heap')
    BY <1>1, <2>1, <2>2, <2>3
  <2> QED
    BY <2>1, <2>2, <2>3, <2>4
<1>3. LocatedAreWritten'
  BY <1>2 DEF LocatedAreWritten
<1>4. ASSUME NEW p \in PageId PROVE Durable(p)' = Durable(p)
  <2>1. Replayed(p)' = Replayed(p)
    BY ReplayedSame
  <2>2. CASE Replayed(p) = Missing
    BY <2>1, <2>2 DEF Durable, Read
  <2>3. CASE Replayed(p) # Missing
    <3>1. PICK i \in DOMAIN location_log : Replayed(p) = location_log[i][2]
      BY <2>3, ReplayedIsRecorded
    <3>2. Durable(p) = heap[location_log[i][2] + 1]
      BY <2>3, <3>1, LocatedFacts DEF Durable, Read
    <3>3. Durable(p)' = heap'[location_log[i][2] + 1]
      BY <1>2, <2>1, <2>3, <3>1 DEF Durable, Read
    <3> QED
      BY <1>2, <3>2, <3>3
  <2> QED
    BY <2>2, <2>3
<1> QED
  BY <1>3, <1>4

\* A call of write_page that is under way has arguments.
LEMMA CallFacts ==
    ASSUME TypeOK, WriteInProgress, pc \notin {"down", "idle"}
    PROVE  call \in PageId \X Content /\ call[1] \in PageId /\ call[2] \in Content
<1>1. call \in (PageId \X Content) \cup {<<>>} /\ call # <<>>
  BY DEF TypeOK, WriteInProgress
<1> QED
  BY <1>1

\* Writing at heap_len keeps what is in front of it.
LEMMA WithSlotFacts ==
    ASSUME TypeOK, WriteInProgress, pc # "down", NEW x \in Slot
    PROVE  /\ WithSlot(x) \in Seq(Slot) /\ Len(WithSlot(x)) = heap_len + 1
           /\ \A i \in 1..heap_len : WithSlot(x)[i] = heap[i]
           /\ WithSlot(x)[heap_len + 1] = x
           /\ \A i \in 1..heap_len : WithSlot(x)[i] # Partial
<1>1. /\ heap_len \in Nat /\ heap_len <= Len(heap) /\ Len(heap) \in Nat
      /\ \A i \in 1..heap_len : heap[i] # Partial
  BY HeapFacts DEF WriteInProgress
<1>2. heap \in Seq(Slot) /\ heap_len \in 0..Len(heap)
  BY <1>1, HeapFacts
<1>3. PICK s : s = SubSeq(heap, 1, heap_len)
  OBVIOUS
<1>4. /\ s \in Seq(Slot) /\ Len(s) = heap_len /\ \A i \in 1..heap_len : s[i] = heap[i]
  BY <1>2, <1>3, PrefixFacts
<1>5. WithSlot(x) = Append(s, x)
  BY <1>3 DEF WithSlot
<1>6. /\ Append(s, x) \in Seq(Slot) /\ Len(Append(s, x)) = Len(s) + 1
      /\ \A i \in 1..Len(s) : Append(s, x)[i] = s[i]
      /\ Append(s, x)[Len(s) + 1] = x
  BY <1>4, AppendProperties
<1>7. \A i \in 1..heap_len : WithSlot(x)[i] = heap[i]
  BY <1>4, <1>5, <1>6
<1> QED
  BY <1>1, <1>4, <1>5, <1>6, <1>7

\* The map in memory and the log, in a step that changes neither.
LEMMA LocationsKept ==
    ASSUME LocationsFollowLog, pc \notin {"down", "insert"}, pc' \notin {"down", "insert"},
           log_fault' = "none" => log_fault = "none" /\ UNCHANGED <<location_log, locations>>
    PROVE  LocationsFollowLog'
<1> SUFFICES ASSUME log_fault' = "none" PROVE LocationsFollowLog'
  BY DEF LocationsFollowLog
<1>1. \A p : Replayed(p)' = Replayed(p)
  BY ReplayedSame
<1>2. locations = [p \in PageId |-> Replayed(p)]
  BY DEF LocationsFollowLog
<1>3. [p \in PageId |-> Replayed(p)'] = [p \in PageId |-> Replayed(p)]
  BY <1>1
<1> QED
  BY <1>2, <1>3 DEF LocationsFollowLog

-----------------------------------------------------------------------------
(* One lemma per action: the invariant holds again, and what the step does *)
(* to the pages a restart would find.                                      *)

SamePages == \A p \in PageId : Durable(p)' = Durable(p)

\* A new store has no pages.
LEMMA InitHeapInv == Init => HeapInv /\ \A p \in PageId : Durable(p) = Missing
<1> SUFFICES ASSUME Init PROVE HeapInv /\ \A p \in PageId : Durable(p) = Missing
  OBVIOUS
<1>1. /\ heap = <<>> /\ synced = 0 /\ location_log = <<>> /\ heap_len = 0
      /\ locations = [p \in PageId |-> Missing] /\ pc = "down" /\ call = <<>>
      /\ log_synced = 0 /\ log_fault = "none"
      /\ writes = 0 /\ crashes = 0 /\ faults = 0
  BY DEF Init
<1>2. DOMAIN location_log = {} /\ Len(heap) = 0 /\ Len(location_log) = 0
  BY <1>1
<1>3. heap \in Seq(Slot) /\ location_log \in Seq(PageId \X Nat)
  BY <1>1, EmptySeq
<1>4. TypeOK
  BY <1>1, <1>2, <1>3, BoundsAssumption DEF TypeOK, Slot
<1>5. LocatedAreWritten /\ WriteInProgress /\ LocationsFollowLog
  BY <1>1, <1>2 DEF LocatedAreWritten, WriteInProgress, LocationsFollowLog
<1>6. \A p \in PageId : Replayed(p) = Missing
  BY <1>2 DEF Replayed, RecordsOf
<1> QED
  BY <1>4, <1>5, <1>6 DEF HeapInv, Durable, Read

\* HeapPageStore::open: no location names the page that is cut off.
LEMMA OpenStep ==
    ASSUME HeapInv, Open
    PROVE  HeapInv' /\ SamePages
<1>1. /\ pc = "down" /\ pc' = "idle"
      /\ heap' = WholePages(heap) /\ heap_len' = Len(WholePages(heap))
      /\ synced' = IF synced > heap_len' THEN heap_len' ELSE synced
      /\ locations' = [p \in PageId |-> Replayed(p)]
      /\ UNCHANGED <<log, call, writes, crashes, faults>>
  BY DEF Open
<1>2. TypeOK /\ LocatedAreWritten /\ WriteInProgress
  BY DEF HeapInv
<1>3. \A i \in 1..(Len(heap) - 1) : heap[i] # Partial
  BY <1>2 DEF TypeOK
<1>4. PICK m \in Nat :
         /\ m <= Len(heap) /\ heap' \in Seq(Slot) /\ Len(heap') = m
         /\ \A i \in 1..m : heap'[i] = heap[i] /\ heap[i] # Partial
         /\ \A i \in 1..Len(heap) : heap[i] \in Content => i <= m
  <2>1. Len(heap) \in Nat /\ heap \in Seq(Slot) /\ \A i \in 1..Len(heap) : heap[i] \in Slot
    BY <1>2, HeapFacts
  <2>2. CASE heap # <<>> /\ heap[Len(heap)] = Partial
    <3>1. PICK m \in Nat : m = Len(heap) - 1
      BY <2>1, <2>2, EmptySeq
    <3>2. heap' = SubSeq(heap, 1, m)
      BY <1>1, <2>2, <3>1 DEF WholePages
    <3>3. m \in 0..Len(heap)
      BY <2>1, <3>1
    <3>4. heap' \in Seq(Slot) /\ Len(heap') = m /\ \A i \in 1..m : heap'[i] = heap[i]
      BY <2>1, <3>2, <3>3, PrefixFacts
    <3>5. ASSUME NEW i \in 1..Len(heap), heap[i] \in Content PROVE i <= m
      <4>1. i # Len(heap)
        BY <2>2, <3>5, SlotAssumption
      <4> QED
        BY <2>1, <3>1, <4>1
    <3>6. \A i \in 1..m : heap[i] # Partial
      BY <1>3, <3>1
    <3> QED
      BY <2>1, <3>1, <3>4, <3>5, <3>6
  <2>3. CASE ~(heap # <<>> /\ heap[Len(heap)] = Partial)
    <3>1. heap' = heap
      BY <1>1, <2>3 DEF WholePages
    <3>2. \A i \in 1..Len(heap) : heap[i] # Partial
      <4> TAKE i \in 1..Len(heap)
      <4>1. CASE i = Len(heap)
        <5>1. heap # <<>>
          BY <2>1, <4>1, EmptySeq
        <5> QED
          BY <2>3, <4>1, <5>1
      <4>2. CASE i # Len(heap)
        BY <1>3, <2>1, <4>2
      <4> QED
        BY <4>1, <4>2
    <3> QED
      BY <2>1, <3>1, <3>2
  <2> QED
    BY <2>2, <2>3
<1>5. /\ heap_len' = m /\ synced \in Nat /\ synced <= Len(heap) /\ Len(heap) \in Nat
      /\ synced' = IF synced > m THEN m ELSE synced
  BY <1>1, <1>2, <1>4, HeapFacts
<1>6. synced' \in 0..m /\ synced' <= m
  BY <1>5
<1>7. TypeOK'
  <2>1. \A i \in 1..(Len(heap') - 1) : heap'[i] # Partial
    BY <1>4
  <2>2. locations' \in [PageId -> Nat \cup {Missing}]
    BY <1>1, <1>2, ReplayedTyped
  <2>3. /\ location_log' \in Seq(PageId \X Nat) /\ log_synced' \in 0..Len(location_log')
        /\ log_fault' \in {"none", "whole", "torn"} /\ call' \in (PageId \X Content) \cup {<<>>}
        /\ writes' \in 0..MaxWrites /\ crashes' \in 0..MaxCrashes /\ faults' \in 0..MaxFaults
    BY <1>1, <1>2 DEF TypeOK
  <2>4. pc' \in {"down", "idle", "write", "sync", "log", "insert"}
    BY <1>1
  <2> QED
    BY <1>4, <1>5, <1>6, <2>1, <2>2, <2>3, <2>4 DEF TypeOK, Slot
<1>8. KeepsSynced
  <2> SUFFICES ASSUME NEW k \in 1..synced, heap[k] \in Content
               PROVE  k <= synced' /\ heap'[k] = heap[k]
    BY DEF KeepsSynced
  <2>1. k \in 1..Len(heap)
    BY <1>5
  <2>2. k <= m
    BY <1>4, <2>1
  <2>3. k \in 1..m /\ k <= synced'
    BY <1>5, <2>2
  <2> QED
    BY <1>4, <2>3
<1>9. LocatedAreWritten' /\ SamePages
  BY <1>1, <1>2, <1>7, <1>8, LocatedKept DEF SamePages
<1>10. WriteInProgress'
  <2>1. call = <<>>
    BY <1>1, <1>2 DEF WriteInProgress
  <2> QED
    BY <1>1, <1>4, <1>5, <1>6, <2>1 DEF WriteInProgress
<1>11. LocationsFollowLog'
  <2>1. [p \in PageId |-> Replayed(p)'] = [p \in PageId |-> Replayed(p)]
    BY <1>1, ReplayedSame
  <2> QED
    BY <1>1, <2>1 DEF LocationsFollowLog
<1> QED
  BY <1>7, <1>9, <1>10, <1>11 DEF HeapInv

LEMMA StartWriteStep ==
    ASSUME HeapInv, NEW p \in PageId, NEW c \in Content, StartWrite(p, c)
    PROVE  HeapInv' /\ SamePages
<1>1. /\ pc = "idle" /\ pc' = "write" /\ call' = <<p, c>> /\ writes' = writes + 1
      /\ writes < MaxWrites
      /\ UNCHANGED <<heap, synced, log, heap_len, locations, crashes, faults>>
  BY DEF StartWrite
<1>2. TypeOK /\ LocatedAreWritten /\ WriteInProgress /\ LocationsFollowLog
  BY DEF HeapInv
<1>3. TypeOK'
  <2>1. writes' \in 0..MaxWrites
    BY <1>1, <1>2, BoundsAssumption DEF TypeOK
  <2> QED
    BY <1>1, <1>2, <2>1 DEF TypeOK
<1>4. KeepsSynced
  BY <1>1, <1>2, HeapFacts DEF KeepsSynced
<1>5. LocatedAreWritten' /\ SamePages
  BY <1>1, <1>2, <1>3, <1>4, LocatedKept DEF SamePages
<1>6. WriteInProgress'
  <2>1. call' # <<>>
    BY <1>1
  <2> QED
    BY <1>1, <1>2, <2>1 DEF WriteInProgress
<1>7. LocationsFollowLog'
  BY <1>1, <1>2, LocationsKept
<1> QED
  BY <1>3, <1>5, <1>6, <1>7 DEF HeapInv

\* A slot written at heap_len is behind every synced one.
LEMMA SlotWritten ==
    ASSUME HeapInv, pc # "down", NEW x \in Slot, heap' = WithSlot(x),
           synced' = IF synced > heap_len THEN heap_len ELSE synced
    PROVE  /\ heap' \in Seq(Slot) /\ Len(heap') = heap_len + 1
           /\ \A i \in 1..(Len(heap') - 1) : heap'[i] # Partial
           /\ \A i \in 1..heap_len : heap'[i] = heap[i] /\ heap'[i] # Partial
           /\ heap'[heap_len + 1] = x
           /\ synced' = synced /\ synced' \in 0..Len(heap')
           /\ KeepsSynced
<1>1. TypeOK /\ WriteInProgress
  BY DEF HeapInv
<1>2. synced \in Nat /\ heap_len \in Nat /\ synced <= heap_len
  BY <1>1, HeapFacts DEF WriteInProgress
<1>3. /\ heap' \in Seq(Slot) /\ Len(heap') = heap_len + 1
      /\ \A i \in 1..heap_len : heap'[i] = heap[i] /\ heap'[i] # Partial
      /\ heap'[heap_len + 1] = x
  BY <1>1, WithSlotFacts
<1>4. synced' = synced /\ synced' \in 0..Len(heap')
  BY <1>2, <1>3
<1>5. \A i \in 1..(Len(heap') - 1) : heap'[i] # Partial
  BY <1>2, <1>3
<1>6. KeepsSynced
  <2> SUFFICES ASSUME NEW k \in 1..synced PROVE k <= synced' /\ heap'[k] = heap[k]
    BY DEF KeepsSynced
  <2>1. k \in 1..heap_len /\ k <= synced'
    BY <1>2, <1>4
  <2> QED
    BY <1>3, <2>1
<1> QED
  BY <1>3, <1>4, <1>5, <1>6

LEMMA WriteHeapStep ==
    ASSUME HeapInv, WriteHeap
    PROVE  HeapInv' /\ SamePages
<1>1. /\ pc = "write" /\ pc' = "sync" /\ heap' = WithSlot(call[2])
      /\ synced' = IF synced > heap_len THEN heap_len ELSE synced
      /\ UNCHANGED <<log, heap_len, locations, call, writes, crashes, faults>>
  BY DEF WriteHeap
<1>2. TypeOK /\ LocatedAreWritten /\ WriteInProgress /\ LocationsFollowLog
  BY DEF HeapInv
<1>3. PICK x \in Slot : x = call[2]
  BY <1>1, <1>2, CallFacts DEF Slot
<1>4. /\ heap' \in Seq(Slot) /\ Len(heap') = heap_len + 1
      /\ \A i \in 1..(Len(heap') - 1) : heap'[i] # Partial
      /\ \A i \in 1..heap_len : heap'[i] = heap[i] /\ heap'[i] # Partial
      /\ heap'[heap_len + 1] = x
      /\ synced' = synced /\ synced' \in 0..Len(heap')
      /\ KeepsSynced
  BY <1>1, <1>3, SlotWritten
<1>5. TypeOK'
  BY <1>1, <1>2, <1>4 DEF TypeOK, Slot
<1>6. LocatedAreWritten' /\ SamePages
  BY <1>1, <1>2, <1>4, <1>5, LocatedKept DEF SamePages
<1>7. WriteInProgress'
  <2>1. synced <= heap_len /\ heap_len <= Len(heap') /\ call # <<>>
    BY <1>1, <1>2, <1>4, HeapFacts DEF WriteInProgress
  <2> QED
    BY <1>1, <1>3, <1>4, <2>1 DEF WriteInProgress
<1>8. LocationsFollowLog'
  BY <1>1, <1>2, LocationsKept
<1> QED
  BY <1>5, <1>6, <1>7, <1>8 DEF HeapInv

LEMMA SyncHeapStep ==
    ASSUME HeapInv, SyncHeap
    PROVE  HeapInv' /\ SamePages
<1>1. /\ pc = "sync" /\ pc' = "log" /\ synced' = Len(heap) /\ heap_len' = heap_len + 1
      /\ UNCHANGED <<heap, log, locations, call, writes, crashes, faults>>
  BY DEF SyncHeap
<1>2. TypeOK /\ LocatedAreWritten /\ WriteInProgress /\ LocationsFollowLog
  BY DEF HeapInv
<1>3. /\ Len(heap) \in Nat /\ heap_len \in Nat /\ synced \in Nat /\ synced <= Len(heap)
  BY <1>2, HeapFacts
<1>4. /\ Len(heap) = heap_len + 1 /\ heap[heap_len + 1] = call[2] /\ call # <<>>
      /\ \A i \in 1..heap_len : heap[i] # Partial
  BY <1>1, <1>2 DEF WriteInProgress
<1>5. TypeOK'
  <2>1. synced' \in 0..Len(heap') /\ heap_len' \in Nat
    BY <1>1, <1>3
  <2> QED
    BY <1>1, <1>2, <2>1 DEF TypeOK
<1>6. KeepsSynced
  BY <1>1, <1>3 DEF KeepsSynced
<1>7. LocatedAreWritten' /\ SamePages
  BY <1>1, <1>2, <1>5, <1>6, LocatedKept DEF SamePages
<1>8. WriteInProgress'
  <2>1. heap[heap_len + 1] # Partial
    <3>1. call[2] \in Content
      BY <1>1, <1>2, CallFacts
    <3> QED
      BY <1>4, <3>1, SlotAssumption
  <2>2. \A i \in 1..(heap_len + 1) : heap[i] # Partial
    <3> TAKE i \in 1..(heap_len + 1)
    <3>1. i \in 1..heap_len \/ i = heap_len + 1
      BY <1>3
    <3> QED
      BY <1>4, <2>1, <3>1
  <2>3. synced' = heap_len' /\ heap_len' > 0 /\ heap_len' <= Len(heap') /\ synced' <= heap_len'
    BY <1>1, <1>3, <1>4
  <2> QED
    BY <1>1, <1>4, <2>2, <2>3 DEF WriteInProgress
<1>9. LocationsFollowLog'
  BY <1>1, <1>2, LocationsKept
<1> QED
  BY <1>5, <1>7, <1>8, <1>9 DEF HeapInv

\* The page of the call, and no other, changes.
NewPage == \A p \in PageId : Durable(p)' = IF p = call[1] THEN call[2] ELSE Durable(p)

\* The record of the call is one.
LEMMA RecordTyped ==
    ASSUME HeapInv, pc = "log", NEW r, r = Append(location_log, <<call[1], heap_len - 1>>)
    PROVE  /\ call[1] \in PageId /\ heap_len - 1 \in Nat
           /\ r \in Seq(PageId \X Nat) /\ Len(r) = Len(location_log) + 1
<1>1. TypeOK /\ WriteInProgress
  BY DEF HeapInv
<1>2. call[1] \in PageId /\ heap_len \in Nat /\ heap_len > 0
  BY <1>1, CallFacts, HeapFacts DEF WriteInProgress
<1>3. <<call[1], heap_len - 1>> \in PageId \X Nat
  BY <1>2
<1> QED
  BY <1>1, <1>2, <1>3, LogFacts, AppendProperties

\* A record that gets into the log makes the write happen, whether append_put
\* says so or not.
LEMMA RecordWritten ==
    ASSUME HeapInv, pc = "log", TypeOK', KeepsSynced,
           location_log' = Append(location_log, <<call[1], heap_len - 1>>)
    PROVE  /\ LocatedAreWritten' /\ NewPage
           /\ \A p \in PageId : Replayed(p)' = IF p = call[1] THEN heap_len - 1 ELSE Replayed(p)
<1>2. TypeOK /\ LocatedAreWritten /\ WriteInProgress /\ LocationsFollowLog
  BY DEF HeapInv
<1>3. /\ Len(heap) \in Nat /\ heap_len \in Nat /\ synced \in Nat /\ synced <= Len(heap)
  BY <1>2, HeapFacts
<1>4. /\ synced = heap_len /\ heap_len > 0 /\ heap[heap_len] = call[2] /\ heap_len <= Len(heap)
  BY <1>2 DEF WriteInProgress
<1>5. call[1] \in PageId /\ call[2] \in Content
  BY <1>2, CallFacts
<1>q. PICK q \in PageId : q = call[1]
  BY <1>5
<1>n. PICK n \in Nat : n = heap_len - 1 /\ n + 1 = heap_len
  BY <1>3, <1>4
<1>6. location_log' = Append(location_log, <<q, n>>)
  BY <1>q, <1>n
<1> DEFINE L == Len(location_log)
<1>7. /\ Len(location_log') = L + 1
      /\ \A i \in 1..L : location_log'[i] = location_log[i]
      /\ location_log'[L + 1] = <<q, n>> /\ L \in Nat
      /\ DOMAIN location_log = 1..L /\ DOMAIN location_log' = 1..(L + 1)
  BY <1>2, <1>6, LogFacts, AppendProperties
<1>8. \A p \in PageId : Replayed(p)' = IF p = q THEN n ELSE Replayed(p)
  BY <1>2, <1>6, ReplayedAppend
<1>9. synced' \in Nat /\ synced' <= Len(heap') /\ Len(heap') \in Nat
  <2>1. synced' \in 0..Len(heap') /\ heap' \in Seq(Slot)
    BY DEF TypeOK, Slot
  <2> QED
    BY <2>1, LenProperties
<1>10. n < synced' /\ n < Len(heap') /\ heap'[n + 1] = call[2]
  <2>1. n + 1 \in 1..synced /\ heap[n + 1] \in Content
    BY <1>3, <1>4, <1>5, <1>n
  <2>2. n + 1 <= synced' /\ heap'[n + 1] = heap[n + 1]
    BY <2>1 DEF KeepsSynced
  <2> QED
    BY <1>4, <1>9, <1>n, <2>2
<1>11. ASSUME NEW i \in DOMAIN location_log
       PROVE  /\ location_log[i][2] \in Nat /\ location_log[i][2] < Len(heap)
              /\ location_log[i][2] < synced' /\ location_log[i][2] < Len(heap')
              /\ heap'[location_log[i][2] + 1] = heap[location_log[i][2] + 1]
              /\ heap'[location_log[i][2] + 1] \in Content
  <2>1. PICK k : k = location_log[i][2] + 1
    OBVIOUS
  <2>2. location_log[i][2] \in Nat /\ k \in 1..synced /\ heap[k] \in Content
    BY <1>2, <2>1, LocatedFacts
  <2>3. k <= synced' /\ heap'[k] = heap[k]
    BY <2>2 DEF KeepsSynced
  <2>4. location_log[i][2] < synced' /\ location_log[i][2] < Len(heap') /\ location_log[i][2] < Len(heap)
    BY <1>3, <1>9, <2>1, <2>2, <2>3
  <2> QED
    BY <2>1, <2>2, <2>3, <2>4
<1>12. LocatedAreWritten'
  <2> SUFFICES ASSUME NEW i \in DOMAIN location_log'
               PROVE  location_log'[i][2] < synced' /\ heap'[location_log'[i][2] + 1] \in Content
    BY DEF LocatedAreWritten
  <2>1. i \in 1..(L + 1)
    BY <1>7
  <2>2. CASE i \in 1..L
    BY <1>7, <1>11, <2>2
  <2>3. CASE i = L + 1
    <3>1. location_log'[i][2] = n
      BY <1>7, <2>3
    <3> QED
      BY <1>5, <1>10, <3>1
  <2> QED
    BY <1>7, <2>1, <2>2, <2>3
<1>13. ASSUME NEW p \in PageId PROVE Durable(p)' = IF p = call[1] THEN call[2] ELSE Durable(p)
  <2>1. CASE p = q
    <3>1. Replayed(p)' = n /\ n # Missing
      BY <1>8, <2>1, LocationAssumption
    <3> QED
      BY <1>10, <1>q, <2>1, <3>1 DEF Durable, Read
  <2>2. CASE p # q
    <3>1. Replayed(p)' = Replayed(p)
      BY <1>8, <2>2
    <3>2. CASE Replayed(p) = Missing
      BY <1>q, <2>2, <3>1, <3>2 DEF Durable, Read
    <3>3. CASE Replayed(p) # Missing
      <4>1. PICK i \in DOMAIN location_log : Replayed(p) = location_log[i][2]
        BY <1>2, <3>3, ReplayedIsRecorded
      <4>2. Durable(p) = heap[location_log[i][2] + 1]
        BY <1>11, <3>3, <4>1 DEF Durable, Read
      <4>3. Durable(p)' = heap'[location_log[i][2] + 1]
        BY <1>11, <3>1, <3>3, <4>1 DEF Durable, Read
      <4> QED
        BY <1>11, <1>q, <2>2, <4>2, <4>3
    <3> QED
      BY <3>2, <3>3
  <2> QED
    BY <2>1, <2>2
<1> QED
  BY <1>8, <1>12, <1>13, <1>q, <1>n DEF NewPage

\* What a crash leaves of the log is located as it was.
LEMMA PrefixKept ==
    ASSUME TypeOK, TypeOK', LocatedAreWritten, KeepsSynced, NEW n \in 0..Len(location_log),
           location_log' = SubSeq(location_log, 1, n)
    PROVE  /\ LocatedAreWritten'
           /\ n = Len(location_log) => location_log' = location_log
<1>1. /\ Len(location_log) \in Nat /\ location_log \in Seq(PageId \X Nat)
      /\ DOMAIN location_log = 1..Len(location_log)
  BY LogFacts
<1>2. /\ location_log' \in Seq(PageId \X Nat) /\ Len(location_log') = n
      /\ \A i \in 1..n : location_log'[i] = location_log[i]
  BY <1>1, PrefixFacts
<1>3. DOMAIN location_log' = 1..n /\ 1..n \subseteq DOMAIN location_log
  BY <1>1, <1>2, LenProperties
<1>4. ASSUME NEW i \in 1..n
      PROVE  location_log'[i][2] < synced' /\ heap'[location_log'[i][2] + 1] \in Content
  <2>1. PICK m, k : m = location_log[i][2] /\ k = m + 1
    OBVIOUS
  <2>2. m \in Nat /\ k \in 1..synced /\ heap[k] \in Content
    BY <1>3, <2>1, LocatedFacts
  <2>3. k <= synced' /\ heap'[k] = heap[k] /\ synced' \in Nat
    <3>1. synced' \in 0..Len(heap') /\ heap' \in Seq(Slot)
      BY DEF TypeOK, Slot
    <3> QED
      BY <2>2, <3>1, LenProperties DEF KeepsSynced
  <2>4. location_log'[i][2] = m
    BY <1>2, <2>1
  <2> QED
    BY <2>1, <2>2, <2>3, <2>4
<1>5. LocatedAreWritten'
  BY <1>3, <1>4 DEF LocatedAreWritten
<1>6. ASSUME n = Len(location_log) PROVE location_log' = location_log
  BY <1>1, <1>2, <1>6, SeqEqual
<1> QED
  BY <1>5, <1>6

\* The step that makes the write happen, unless its record lands behind a
\* torn one.
LEMMA AppendLocationStep ==
    ASSUME HeapInv, AppendLocation
    PROVE  HeapInv' /\ (log_fault # "torn" => NewPage)
<1>1. /\ pc = "log" /\ pc' = "insert"
      /\ location_log' = WithRecord /\ log_synced' = Len(location_log')
      /\ UNCHANGED <<heap, synced, log_fault, heap_len, locations, call, writes, crashes, faults>>
  BY DEF AppendLocation
<1>2. TypeOK /\ LocatedAreWritten /\ WriteInProgress /\ LocationsFollowLog
  BY DEF HeapInv
<1>3. location_log' \in Seq(PageId \X Nat)
  BY <1>1, <1>2, LogFacts, RecordTyped DEF WithRecord
<1>4. TypeOK'
  <2>1. log_synced' \in 0..Len(location_log')
    BY <1>1, <1>3, LenProperties
  <2> QED
    BY <1>1, <1>2, <1>3, <2>1 DEF TypeOK
<1>5. KeepsSynced
  BY <1>1, <1>2, HeapFacts DEF KeepsSynced
<1>6. WriteInProgress'
  BY <1>1, <1>2 DEF WriteInProgress
<1>7. CASE log_fault = "torn"
  <2>1. location_log' = location_log
    BY <1>1, <1>7 DEF WithRecord
  <2>2. LocatedAreWritten'
    BY <1>2, <1>4, <1>5, <2>1, LocatedKept
  <2>3. LocationsFollowLog'
    BY <1>1, <1>7 DEF LocationsFollowLog
  <2> QED
    BY <1>4, <1>6, <1>7, <2>2, <2>3 DEF HeapInv
<1>8. CASE log_fault # "torn"
  <2>1. location_log' = Append(location_log, <<call[1], heap_len - 1>>)
    BY <1>1, <1>8 DEF WithRecord
  <2>2. /\ LocatedAreWritten' /\ NewPage
        /\ \A p \in PageId : Replayed(p)' = IF p = call[1] THEN heap_len - 1 ELSE Replayed(p)
    BY <1>1, <1>4, <1>5, <2>1, RecordWritten
  <2>3. LocationsFollowLog'
    <3>1. log_fault = "none" => locations = [p \in PageId |-> Replayed(p)]
      BY <1>1, <1>2 DEF LocationsFollowLog
    <3>2. log_fault = "none" =>
            [locations EXCEPT ![call[1]] = heap_len - 1] = [p \in PageId |-> Replayed(p)']
      BY <2>2, <3>1
    <3> QED
      BY <1>1, <3>2 DEF LocationsFollowLog
  <2> QED
    BY <1>4, <1>6, <2>2, <2>3 DEF HeapInv
<1> QED
  BY <1>7, <1>8

LEMMA InsertLocationStep ==
    ASSUME HeapInv, InsertLocation
    PROVE  HeapInv' /\ SamePages
<1>1. /\ pc = "insert" /\ pc' = "idle" /\ call' = <<>>
      /\ locations' = [locations EXCEPT ![call[1]] = heap_len - 1]
      /\ UNCHANGED <<heap, synced, log, heap_len, writes, crashes, faults>>
  BY DEF InsertLocation
<1>2. TypeOK /\ LocatedAreWritten /\ WriteInProgress /\ LocationsFollowLog
  BY DEF HeapInv
<1>3. log_fault = "none" => locations' = [p \in PageId |-> Replayed(p)]
  BY <1>1, <1>2 DEF LocationsFollowLog
<1>4. TypeOK'
  <2>1. locations' \in [PageId -> Nat \cup {Missing}]
    <3>1. call[1] \in PageId /\ heap_len \in Nat /\ heap_len > 0
      BY <1>1, <1>2, CallFacts, HeapFacts DEF WriteInProgress
    <3> QED
      BY <1>1, <1>2, <3>1 DEF TypeOK
  <2> QED
    BY <1>1, <1>2, <2>1 DEF TypeOK
<1>5. KeepsSynced
  BY <1>1, <1>2, HeapFacts DEF KeepsSynced
<1>6. LocatedAreWritten' /\ SamePages
  BY <1>1, <1>2, <1>4, <1>5, LocatedKept DEF SamePages
<1>7. WriteInProgress'
  BY <1>1, <1>2 DEF WriteInProgress
<1>8. LocationsFollowLog'
  <2>1. [p \in PageId |-> Replayed(p)'] = [p \in PageId |-> Replayed(p)]
    BY <1>1, ReplayedSame
  <2> QED
    BY <1>1, <1>3, <2>1 DEF LocationsFollowLog
<1> QED
  BY <1>4, <1>6, <1>7, <1>8 DEF HeapInv

\* An I/O error leaves heap_len and the map as they were, and it leaves the
\* log as it was or with the record of the call.
LEMMA FaultStep ==
    ASSUME HeapInv, Fault
    PROVE  HeapInv' /\ (SamePages \/ (pc = "log" /\ NewPage))
<1>1. /\ pc \in {"write", "sync", "log"} /\ pc' = "idle" /\ call' = <<>>
      /\ faults < MaxFaults /\ faults' = faults + 1
      /\ UNCHANGED <<heap_len, locations, writes, crashes>>
  BY DEF Fault
<1>2. TypeOK /\ LocatedAreWritten /\ WriteInProgress /\ LocationsFollowLog
  BY DEF HeapInv
<1>3. /\ Len(heap) \in Nat /\ heap_len \in Nat /\ synced \in Nat /\ synced <= heap_len
      /\ heap_len <= Len(heap) /\ \A i \in 1..heap_len : heap[i] # Partial
  BY <1>1, <1>2, HeapFacts DEF WriteInProgress
<1> DEFINE Good ==
      /\ heap' \in Seq(Slot) /\ heap_len <= Len(heap')
      /\ \A i \in 1..(Len(heap') - 1) : heap'[i] # Partial
      /\ \A i \in 1..heap_len : heap'[i] # Partial
      /\ synced' = synced /\ synced' \in 0..Len(heap')
      /\ KeepsSynced
<1>4. Good
  <2>1. CASE UNCHANGED <<heap, synced>>
    <3>1. KeepsSynced
      BY <1>3, <2>1 DEF KeepsSynced
    <3> QED
      BY <1>2, <1>3, <2>1, <3>1 DEF TypeOK, Slot
  <2>2. ASSUME NEW x \in Slot, heap' = WithSlot(x),
               synced' = IF synced > heap_len THEN heap_len ELSE synced
        PROVE  Good
    <3>1. Len(heap') = heap_len + 1 /\ heap_len <= Len(heap')
      BY <1>1, <1>3, <2>2, SlotWritten
    <3> QED
      BY <1>1, <2>2, <3>1, SlotWritten
  <2>3. \A b : (IF b THEN Junk ELSE Partial) \in Slot
    BY DEF Slot
  <2> HIDE DEF Good
  <2> QED
    BY <2>1, <2>2, <2>3 DEF Fault
<1>l. \/ location_log' = location_log /\ log_synced' = log_synced
              /\ (log_fault' = log_fault \/ log_fault' = "torn")
      \/ /\ pc = "log" /\ log_fault' = "whole" /\ log_synced' = log_synced
         /\ location_log' = Append(location_log, <<call[1], heap_len - 1>>)
  BY DEF Fault, AppendFails, WithRecord
<1>5. TypeOK'
  <2>1. faults' \in 0..MaxFaults
    BY <1>1, <1>2, BoundsAssumption DEF TypeOK
  <2>2. /\ location_log' \in Seq(PageId \X Nat) /\ log_synced' \in 0..Len(location_log')
        /\ log_fault' \in {"none", "whole", "torn"}
    <3>1. CASE location_log' = location_log
      BY <1>2, <1>l, <3>1 DEF TypeOK
    <3>2. CASE pc = "log" /\ location_log' = Append(location_log, <<call[1], heap_len - 1>>)
      <4>1. location_log' \in Seq(PageId \X Nat) /\ Len(location_log') = Len(location_log) + 1
        BY <3>2, RecordTyped
      <4>2. log_synced \in Nat /\ log_synced <= Len(location_log) /\ Len(location_log) \in Nat
        BY <1>2, LogFacts
      <4>3. log_synced' \in 0..Len(location_log')
        BY <1>l, <4>1, <4>2
      <4> QED
        BY <1>2, <1>l, <4>1, <4>3 DEF TypeOK
    <3> QED
      BY <1>l, <3>1, <3>2
  <2> QED
    BY <1>1, <1>2, <1>4, <2>1, <2>2 DEF TypeOK, Slot
<1>6. LocatedAreWritten' /\ (SamePages \/ (pc = "log" /\ NewPage))
  <2>1. CASE location_log' = location_log
    BY <1>2, <1>4, <1>5, <2>1, LocatedKept DEF SamePages
  <2>2. CASE pc = "log" /\ location_log' = Append(location_log, <<call[1], heap_len - 1>>)
    BY <1>4, <1>5, <2>2, RecordWritten
  <2> QED
    BY <1>l, <2>1, <2>2
<1>7. WriteInProgress'
  BY <1>1, <1>3, <1>4 DEF WriteInProgress
<1>8. LocationsFollowLog'
  BY <1>1, <1>2, <1>l, LocationsKept
<1> QED
  BY <1>5, <1>6, <1>7, <1>8 DEF HeapInv

\* What a crash may leave of a file h starts with its synced slots.
LEMMA SurvivorFacts ==
    ASSUME NEW h \in Seq(Slot), synced \in 0..Len(h), NEW s \in Survivors(h), Plausible(h, s)
    PROVE  /\ s \in Seq(Slot) /\ synced <= Len(s)
           /\ \A i \in 1..synced : s[i] = h[i]
           /\ \A i \in 1..(Len(s) - 1) : s[i] # Partial
<1>1. Len(h) \in Nat /\ synced \in Nat
  BY LenProperties
<1>2. PICK n \in 0..(Len(h) - synced) : \E t \in [1..n -> Slot] : s = SubSeq(h, 1, synced) \o t
  BY DEF Survivors, Slot
<1>t. PICK t \in [1..n -> Slot] : s = SubSeq(h, 1, synced) \o t
  BY <1>2
<1>3. n \in Nat /\ t \in Seq(Slot) /\ Len(t) = n
  <2>1. n \in Nat
    BY <1>1
  <2>2. t \in Seq(Slot)
    BY <2>1, SeqDef
  <2> QED
    BY <2>1, <2>2, LenProperties
<1>4. PICK u : u = SubSeq(h, 1, synced)
  OBVIOUS
<1>5. u \in Seq(Slot) /\ Len(u) = synced /\ \A i \in 1..synced : u[i] = h[i]
  BY <1>4, PrefixFacts
<1>6. /\ s \in Seq(Slot) /\ Len(s) = synced + n
      /\ \A i \in 1..(synced + n) : s[i] = IF i <= synced THEN u[i] ELSE t[i - synced]
  <2>1. s = u \o t
    BY <1>t, <1>4
  <2>2. /\ u \o t \in Seq(Slot) /\ Len(u \o t) = Len(u) + Len(t)
        /\ \A i \in 1..(Len(u) + Len(t)) :
              (u \o t)[i] = IF i <= Len(u) THEN u[i] ELSE t[i - Len(u)]
    BY <1>3, <1>5, ConcatProperties
  <2> QED
    BY <1>3, <1>5, <2>1, <2>2
<1>7. synced <= Len(s) /\ \A i \in 1..synced : i \in 1..(synced + n) /\ i <= synced
  BY <1>1, <1>3, <1>6
<1>8. \A i \in 1..synced : s[i] = h[i]
  BY <1>5, <1>6, <1>7
<1>9. \A i \in 1..(Len(s) - 1) : i \in 1..Len(s) /\ i # Len(s)
  BY <1>1, <1>3, <1>6
<1> QED
  BY <1>6, <1>7, <1>8, <1>9 DEF Plausible

\* A crash leaves every synced slot and every synced record.
LEMMA CrashStep ==
    ASSUME HeapInv, Crash
    PROVE  HeapInv' /\ (~InDoubt => SamePages \/ (pc = "log" /\ NewPage))
<1>1. /\ pc # "down" /\ pc' = "down" /\ call' = <<>> /\ heap_len' = 0
      /\ crashes < MaxCrashes /\ crashes' = crashes + 1
      /\ locations' = [p \in PageId |-> Missing]
      /\ synced' = IF synced > Len(heap') THEN Len(heap') ELSE synced
      /\ log_fault' = "none"
      /\ UNCHANGED <<log_synced, writes, faults>>
  BY DEF Crash
<1>2. TypeOK /\ LocatedAreWritten /\ WriteInProgress
  BY DEF HeapInv
<1>3. /\ Len(heap) \in Nat /\ heap_len \in Nat /\ synced \in Nat /\ synced <= heap_len
      /\ heap_len <= Len(heap) /\ heap \in Seq(Slot)
  BY <1>1, <1>2, HeapFacts DEF WriteInProgress
<1>l. /\ Len(location_log) \in Nat /\ log_synced \in Nat /\ log_synced <= Len(location_log)
      /\ location_log \in Seq(PageId \X Nat)
      /\ \E n \in 0..Len(location_log) :
            /\ log_synced <= n
            /\ \/ location_log' = SubSeq(location_log, 1, n)
               \/ pc = "log" /\ location_log' = Append(location_log, <<call[1], heap_len - 1>>)
  <2>1. /\ Len(location_log) \in Nat /\ log_synced \in Nat /\ log_synced <= Len(location_log)
        /\ location_log \in Seq(PageId \X Nat)
    BY <1>2, LogFacts
  <2>2. PICK n \in log_synced..Len(location_log) :
           location_log' = SubSeq(location_log, 1, n) \/ (pc = "log" /\ location_log' = WithRecord)
    BY DEF Crash
  <2>3. CASE location_log' = SubSeq(location_log, 1, n)
    BY <2>1, <2>2, <2>3
  <2>4. CASE pc = "log" /\ location_log' = WithRecord /\ log_fault = "torn"
    <3>1. location_log' = SubSeq(location_log, 1, Len(location_log))
      <4>1. location_log' = location_log
        BY <2>4 DEF WithRecord
      <4>2. /\ SubSeq(location_log, 1, Len(location_log)) \in Seq(PageId \X Nat)
            /\ Len(SubSeq(location_log, 1, Len(location_log))) = Len(location_log)
            /\ \A i \in 1..Len(location_log) :
                  SubSeq(location_log, 1, Len(location_log))[i] = location_log[i]
        BY <2>1, PrefixFacts
      <4> QED
        BY <2>1, <4>1, <4>2, SeqEqual
    <3> QED
      BY <2>1, <3>1
  <2>5. CASE pc = "log" /\ location_log' = WithRecord /\ log_fault # "torn"
    BY <2>1, <2>2, <2>5 DEF WithRecord
  <2> QED
    BY <2>1, <2>2, <2>3, <2>4, <2>5
<1>m. PICK n \in 0..Len(location_log) :
            /\ log_synced <= n
            /\ \/ location_log' = SubSeq(location_log, 1, n)
               \/ pc = "log" /\ location_log' = Append(location_log, <<call[1], heap_len - 1>>)
  BY <1>l
<1>4. PICK h : /\ h = heap \/ h = WithSlot(Partial)
               /\ heap' \in {s \in Survivors(h) : Plausible(h, s)} \cup {h}
  BY DEF Crash
<1>5. /\ h \in Seq(Slot) /\ synced \in 0..Len(h)
      /\ \A i \in 1..synced : h[i] = heap[i]
      /\ \A i \in 1..(Len(h) - 1) : h[i] # Partial
  <2>1. CASE h = heap
    BY <1>2, <1>3, <2>1 DEF TypeOK
  <2>2. CASE h = WithSlot(Partial)
    <3>1. Partial \in Slot
      BY DEF Slot
    <3>2. /\ h \in Seq(Slot) /\ Len(h) = heap_len + 1
          /\ \A i \in 1..heap_len : h[i] = heap[i]
          /\ \A i \in 1..heap_len : h[i] # Partial
      BY <1>1, <1>2, <2>2, <3>1, WithSlotFacts
    <3>3. synced \in 0..Len(h) /\ Len(h) - 1 = heap_len /\ \A i \in 1..synced : i \in 1..heap_len
      BY <1>3, <3>2
    <3> QED
      BY <3>2, <3>3
  <2> QED
    BY <1>4, <2>1, <2>2
<1>6. /\ heap' \in Seq(Slot) /\ synced <= Len(heap')
      /\ \A i \in 1..synced : heap'[i] = heap[i]
      /\ \A i \in 1..(Len(heap') - 1) : heap'[i] # Partial
  <2>1. CASE heap' = h
    BY <1>5, <2>1
  <2>2. CASE heap' \in Survivors(h) /\ Plausible(h, heap')
    <3>1. PICK s : s = heap'
      OBVIOUS
    <3> QED
      BY <1>5, <2>2, <3>1, SurvivorFacts
  <2> QED
    BY <1>4, <2>1, <2>2
<1>7. Len(heap') \in Nat /\ synced' = synced /\ synced' \in 0..Len(heap')
  <2>1. Len(heap') \in Nat
    BY <1>6, LenProperties
  <2> QED
    BY <1>1, <1>3, <1>6, <2>1
<1>8. TypeOK'
  <2>1. crashes' \in 0..MaxCrashes
    BY <1>1, <1>2, BoundsAssumption DEF TypeOK
  <2>2. /\ heap_len' \in Nat /\ locations' \in [PageId -> Nat \cup {Missing}]
        /\ call' \in (PageId \X Content) \cup {<<>>}
    BY <1>1
  <2>3. location_log' \in Seq(PageId \X Nat) /\ log_synced' \in 0..Len(location_log')
    <3>1. CASE location_log' = SubSeq(location_log, 1, n)
      <4>1. location_log' \in Seq(PageId \X Nat) /\ Len(location_log') = n
        BY <1>l, <1>m, <3>1, PrefixFacts
      <4> QED
        BY <1>1, <1>l, <1>m, <4>1
    <3>2. CASE pc = "log" /\ location_log' = Append(location_log, <<call[1], heap_len - 1>>)
      <4>1. location_log' \in Seq(PageId \X Nat) /\ Len(location_log') = Len(location_log) + 1
        BY <3>2, RecordTyped
      <4> QED
        BY <1>1, <1>l, <1>m, <4>1
    <3> QED
      BY <1>l, <1>m, <3>1, <3>2
  <2> QED
    BY <1>1, <1>2, <1>6, <1>7, <2>1, <2>2, <2>3 DEF TypeOK, Slot
<1>9. KeepsSynced
  BY <1>3, <1>6, <1>7 DEF KeepsSynced
<1>10. LocatedAreWritten' /\ (~InDoubt => SamePages \/ (pc = "log" /\ NewPage))
  <2>1. CASE location_log' = SubSeq(location_log, 1, n)
    <3>1. LocatedAreWritten' /\ (n = Len(location_log) => location_log' = location_log)
      BY <1>2, <1>8, <1>9, <1>l, <1>m, <2>1, PrefixKept
    <3>2. ~InDoubt => n = Len(location_log)
      BY <1>l, <1>m DEF InDoubt
    <3>3. location_log' = location_log => SamePages
      BY <1>2, <1>8, <1>9, LocatedKept DEF SamePages
    <3> QED
      BY <3>1, <3>2, <3>3
  <2>2. CASE pc = "log" /\ location_log' = Append(location_log, <<call[1], heap_len - 1>>)
    BY <1>8, <1>9, <2>2, RecordWritten
  <2> QED
    BY <1>l, <1>m, <2>1, <2>2
<1>11. WriteInProgress' /\ LocationsFollowLog'
  BY <1>1 DEF WriteInProgress, LocationsFollowLog
<1> QED
  BY <1>8, <1>10, <1>11 DEF HeapInv

LEMMA HeapStutter ==
    ASSUME HeapInv, UNCHANGED vars
    PROVE  HeapInv'
<1>1. UNCHANGED <<heap, synced, location_log, log_synced, log_fault, heap_len, locations, pc,
                  call, writes, crashes, faults>>
  BY DEF vars
<1>2. TypeOK' /\ LocatedAreWritten' /\ WriteInProgress'
  BY <1>1 DEF HeapInv, TypeOK, LocatedAreWritten, WriteInProgress
<1>3. LocationsFollowLog'
  <2>1. [p \in PageId |-> Replayed(p)'] = [p \in PageId |-> Replayed(p)]
    BY <1>1, ReplayedSame
  <2> QED
    BY <1>1, <2>1 DEF HeapInv, LocationsFollowLog
<1> QED
  BY <1>2, <1>3 DEF HeapInv

-----------------------------------------------------------------------------
(* Theorems.                                                               *)

\* The inductive invariant of the store.
THEOREM HeapInvariance == Spec => []HeapInv
<1>1. HeapInv /\ [Next]_vars => HeapInv'
  <2> SUFFICES ASSUME HeapInv, [Next]_vars PROVE HeapInv'
    OBVIOUS
  <2>1. CASE Open
    BY <2>1, OpenStep
  <2>2. ASSUME NEW p \in PageId, NEW c \in Content, StartWrite(p, c) PROVE HeapInv'
    BY <2>2, StartWriteStep
  <2>3. CASE WriteHeap
    BY <2>3, WriteHeapStep
  <2>4. CASE SyncHeap
    BY <2>4, SyncHeapStep
  <2>5. CASE AppendLocation
    BY <2>5, AppendLocationStep
  <2>6. CASE InsertLocation
    BY <2>6, InsertLocationStep
  <2>7. CASE Fault
    BY <2>7, FaultStep
  <2>8. CASE Crash
    BY <2>8, CrashStep
  <2>9. CASE UNCHANGED vars
    BY <2>9, HeapStutter
  <2> QED
    BY <2>1, <2>2, <2>3, <2>4, <2>5, <2>6, <2>7, <2>8, <2>9 DEF Next
<1>2. Init => HeapInv
  BY InitHeapInv
<1> QED
  BY <1>1, <1>2, PTL DEF Spec

\* Type correctness of the store.
THEOREM HeapTypeCorrect == Spec => []TypeOK
<1>1. HeapInv => TypeOK
  BY DEF HeapInv
<1> QED
  BY <1>1, HeapInvariance, PTL

\* The running process reads what a restarted one would, whichever step of an
\* earlier write_page failed but its last, the append to the location log
\* (heap_page_store.rs write_page).
THEOREM ReadsWhatIsDurable == Spec => []ReadsAreDurable
<1>1. HeapInv => ReadsAreDurable
  BY DEF HeapInv, LocationsFollowLog, ReadsAreDurable, Durable, Read
<1> QED
  BY <1>1, HeapInvariance, PTL

\* write_page never overwrites a slot that a location names
\* (heap_page_store.rs write_page, open).
THEOREM LiveSlotsStay == Spec => []LiveSlotsAreInUse
<1>1. HeapInv => LiveSlotsAreInUse
  <2> SUFFICES ASSUME HeapInv, pc # "down", NEW i \in DOMAIN location_log
               PROVE  location_log[i][2] < heap_len
    BY DEF LiveSlotsAreInUse
  <2>1. location_log[i][2] \in Nat /\ location_log[i][2] < synced
    BY LocatedFacts DEF HeapInv
  <2>2. synced \in Nat /\ heap_len \in Nat /\ synced <= heap_len
    BY HeapFacts DEF HeapInv, WriteInProgress
  <2> QED
    BY <2>1, <2>2
<1> QED
  BY <1>1, HeapInvariance, PTL

\* HeapPageStore keeps the trait's contract, whatever crashes and I/O errors
\* come, until one leaves the location log in doubt (heap_page_store.rs;
\* page_store.rs PageStore): append_put is the step at which a write happens,
\* and every other step leaves all pages alone.
THEOREM HeapIsPageStore == Spec => ImplementsPageStore
<1>1. Init => Abstract!Init
  <2> SUFFICES ASSUME Init PROVE Abstract!Init
    OBVIOUS
  <2>1. [p \in PageId |-> Durable(p)] = [p \in PageId |-> Missing]
    BY InitHeapInv
  <2> QED
    BY <2>1 DEF Abstract!Init, Init
<1> DEFINE A == ~InDoubt => [Abstract!Next]_(Abstract!vars)
<1>2. HeapInv /\ [Next]_vars => [A]_vars
  <2> SUFFICES ASSUME HeapInv, [Next]_vars, ~InDoubt PROVE [Abstract!Next]_(Abstract!vars)
    OBVIOUS
  <2> DEFINE Pages == [p \in PageId |-> Durable(p)]
             Done == pc = "insert"
             Pending == IF pc \in {"write", "sync", "log"} THEN call ELSE <<>>
  <2>1. SamePages => Pages' = Pages
    BY DEF SamePages
  <2>2. WriteInProgress /\ TypeOK
    BY DEF HeapInv
  <2>3. pc \in {"down", "idle"} => call = <<>>
    BY <2>2 DEF WriteInProgress
  <2>4. CASE Open
    <3>1. Pending' = Pending /\ Done' = Done
      BY <2>4 DEF Open
    <3> QED
      BY <2>1, <2>4, <3>1, OpenStep DEF Abstract!vars
  <2>5. ASSUME NEW p \in PageId, NEW c \in Content, StartWrite(p, c) PROVE Abstract!Call
    <3>1. Pending = <<>> /\ Pending' = <<p, c>> /\ ~Done /\ Done' = Done
      BY <2>5 DEF StartWrite
    <3> QED
      <4>1. Pages' = Pages
        BY <2>1, <2>5, StartWriteStep
      <4>2. <<p, c>> \in PageId \X Content
        OBVIOUS
      <4>3. Pending' \in PageId \X Content
        BY <3>1, <4>2
      <4> HIDE DEF Pages, Pending, Done
      <4>4. Pending = <<>> /\ ~Done /\ Pending' \in PageId \X Content /\ UNCHANGED <<Pages, Done>>
        BY <3>1, <4>1, <4>3
      <4> USE DEF Pages, Pending, Done
      <4> QED
        BY <4>4, Zenon DEF Abstract!Call
  <2>6. CASE WriteHeap
    <3>1. Pending' = Pending /\ Done' = Done
      BY <2>6 DEF WriteHeap
    <3> QED
      BY <2>1, <2>6, <3>1, WriteHeapStep DEF Abstract!vars
  <2>7. CASE SyncHeap
    <3>1. Pending' = Pending /\ Done' = Done
      BY <2>7 DEF SyncHeap
    <3> QED
      BY <2>1, <2>7, <3>1, SyncHeapStep DEF Abstract!vars
  <2>n. NewPage => Pages' = [Pages EXCEPT ![call[1]] = call[2]]
    BY DEF NewPage
  <2>c. pc \in {"write", "sync", "log"} => Pending = call /\ call # <<>> /\ ~Done
    BY <2>2 DEF WriteInProgress
  <2>8. CASE AppendLocation
    <3>1. pc = "log" /\ Pending' = <<>> /\ Done'
      BY <2>8 DEF AppendLocation
    <3>2. NewPage
      BY <2>8, AppendLocationStep DEF InDoubt
    <3> QED
      BY <2>c, <2>n, <3>1, <3>2 DEF Abstract!Effect, Abstract!Next
  <2>9. CASE InsertLocation
    <3>1. Pending' = Pending /\ Done /\ Done' = FALSE
      BY <2>9 DEF InsertLocation
    <3> QED
      BY <2>1, <2>9, <3>1, InsertLocationStep DEF Abstract!Return, Abstract!Next
  <2>10. CASE Fault
    <3>1. pc \in {"write", "sync", "log"} /\ Pending' = <<>> /\ Done' = FALSE
      BY <2>10 DEF Fault
    <3>2. CASE SamePages
      BY <2>1, <2>c, <3>1, <3>2 DEF Abstract!Abandon, Abstract!Next
    <3>3. CASE NewPage
      BY <2>n, <2>c, <3>1, <3>3 DEF Abstract!Effect, Abstract!Next
    <3> QED
      BY <2>10, <3>2, <3>3, FaultStep
  <2>11. CASE Crash
    <3>1. Pending' = <<>> /\ Done' = FALSE
      BY <2>11 DEF Crash
    <3>2. CASE SamePages
      <4>1. CASE pc \in {"write", "sync", "log"}
        BY <2>1, <2>c, <3>1, <3>2, <4>1 DEF Abstract!Abandon, Abstract!Next
      <4>2. CASE pc = "insert"
        BY <2>1, <3>1, <3>2, <4>2 DEF Abstract!Return, Abstract!Next
      <4>3. CASE pc \notin {"write", "sync", "log", "insert"}
        BY <2>1, <3>1, <3>2, <4>3 DEF Abstract!vars
      <4> QED
        BY <4>1, <4>2, <4>3
    <3>3. CASE pc = "log" /\ NewPage
      BY <2>n, <2>c, <3>1, <3>3 DEF Abstract!Effect, Abstract!Next
    <3> QED
      BY <2>11, <3>2, <3>3, CrashStep
  <2>12. CASE UNCHANGED vars
    <3>1. Pending' = Pending /\ Done' = Done
      BY <2>12 DEF vars
    <3>2. SamePages
      BY <2>12, ReplayedSame DEF vars, SamePages, Durable, Read
    <3> QED
      BY <2>1, <3>1, <3>2 DEF Abstract!vars
  <2> QED
    BY <2>4, <2>5, <2>6, <2>7, <2>8, <2>9, <2>10, <2>11, <2>12 DEF Next, Abstract!Next
<1> QED
  BY <1>1, <1>2, HeapInvariance, PTL DEF Spec, ImplementsPageStore
=============================================================================
