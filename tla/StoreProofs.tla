----------------------------- MODULE StoreProofs -----------------------------
(***************************************************************************)
(* The compaction of a store cleans up behind itself, and a recovery that  *)
(* is interrupted and resumed gives what it was going to give: for any     *)
(* keys and values, any number and length of segments, any number of       *)
(* compactions, crashes and I/O errors.                                    *)
(***************************************************************************)
EXTENDS Store, InductionProofs

USE DEF disk, memory, bounded

-----------------------------------------------------------------------------
(* Nothing is left behind.                                                 *)

LEMMA ScratchWrite ==
    ASSUME ScratchInv, (\E ops \in Batches : StartWrite(ops)) \/ FinishWrite
    PROVE  ScratchInv'
<1>1. CASE \E ops \in Batches : StartWrite(ops)
  BY <1>1 DEF StartWrite, ScratchInv, MarkerGoesLast, IdleIsClean, Finishing
<1>2. CASE FinishWrite
  <2>2. log = "dir" => UNCHANGED placeholder
    BY <1>2 DEF FinishWrite, AppendToTarget
  <2>3. pc = "writing" /\ pc' = "idle" /\ UNCHANGED <<tmp, backup, marker, log, faults>>
    BY <1>2 DEF FinishWrite
  <2> QED
    BY <2>2, <2>3 DEF ScratchInv, MarkerGoesLast, IdleIsClean, Finishing
<1> QED
  BY <1>1, <1>2

LEMMA ScratchSnapshots ==
    ASSUME ScratchInv, HoldSnapshot \/ \E s \in held : DropSnapshot(s)
    PROVE  ScratchInv'
BY DEF HoldSnapshot, DropSnapshot, ScratchInv, MarkerGoesLast, IdleIsClean, Finishing

LEMMA ScratchCompact ==
    ASSUME ScratchInv, Compact
    PROVE  ScratchInv'
<1> USE DEF ScratchInv, MarkerGoesLast, IdleIsClean, Finishing
<1>1. CASE CompactBegin
  BY <1>1 DEF CompactBegin
<1>2. CASE ClearTmp \/ CreateTmp \/ OpenTmp
  BY <1>2 DEF ClearTmp, CreateTmp, OpenTmp
<1>3. CASE BuildTmp
  BY <1>3 DEF BuildTmp
<1>4. CASE WriteMarker
  BY <1>4 DEF WriteMarker
<1>5. CASE ClearPlaceholder \/ CreatePlaceholder \/ SwapPlaceholder
  BY <1>5 DEF ClearPlaceholder, CreatePlaceholder, SwapPlaceholder
<1>6. CASE Reopen
  BY <1>6 DEF Reopen
<1>7. CASE CleanUp
  BY <1>7 DEF CleanUp
<1> QED
  BY <1>1, <1>2, <1>3, <1>4, <1>5, <1>6, <1>7 DEF Compact

LEMMA ScratchFinish ==
    ASSUME ScratchInv, FinishPendingCompaction
    PROVE  ScratchInv'
<1> USE DEF ScratchInv, MarkerGoesLast, IdleIsClean, Finishing
<1>1. CASE FinishNothing
  BY <1>1 DEF FinishNothing, NothingToFinish, AfterFinish
<1>2. CASE FinishStart
  BY <1>2 DEF FinishStart
<1>3. CASE BackupDone
  BY <1>3 DEF BackupDone
<1>4. CASE RemoveTmp
  BY <1>4 DEF RemoveTmp
<1>5. CASE RemoveBackup
  BY <1>5 DEF RemoveBackup
<1>6. CASE RemoveMarker
  BY <1>6 DEF RemoveMarker, AfterFinish
<1>7. CASE \E id \in 0..(MaxSegs - 1) : BackupOne(id) \/ MigrateOne(id)
  BY <1>7 DEF BackupOne, MigrateOne
<1> QED
  BY <1>1, <1>2, <1>3, <1>4, <1>5, <1>6, <1>7 DEF FinishPendingCompaction

LEMMA ScratchOpen ==
    ASSUME ScratchInv, Open
    PROVE  ScratchInv'
<1> USE DEF ScratchInv, MarkerGoesLast, IdleIsClean, Finishing
<1>1. CASE OpenBegin
  BY <1>1 DEF OpenBegin
<1>2. CASE DiscardTmp
  BY <1>2 DEF DiscardTmp
<1>3. CASE RemovePlaceholder
  BY <1>3 DEF RemovePlaceholder
<1>4. CASE ReplayLog
  BY <1>4 DEF ReplayLog
<1> QED
  BY <1>1, <1>2, <1>3, <1>4 DEF Open

LEMMA ScratchFailures ==
    ASSUME ScratchInv, Crash \/ CompactFails
    PROVE  ScratchInv'
<1>1. CASE Crash
  <2>1. pc' = "down" /\ UNCHANGED <<backup, marker, faults>>
    BY <1>1 DEF Crash
  <2> QED
    BY <2>1 DEF ScratchInv, MarkerGoesLast, IdleIsClean, Finishing
<1>2. CASE CompactFails
  <2>1. /\ pc' = "idle" /\ faults' = faults + 1 /\ faults \in Nat
        /\ UNCHANGED <<backup, marker>>
    BY <1>2 DEF CompactFails, ScratchInv
  <2> QED
    BY <2>1 DEF ScratchInv, MarkerGoesLast, IdleIsClean, Finishing
<1> QED
  BY <1>1, <1>2

LEMMA ScratchStep ==
    ASSUME ScratchInv, [Next]_vars
    PROVE  ScratchInv'
<1>1. CASE UNCHANGED vars
  BY <1>1 DEF vars, ScratchInv, MarkerGoesLast, IdleIsClean, Finishing
<1> QED
  BY <1>1, ScratchWrite, ScratchSnapshots, ScratchCompact, ScratchFinish, ScratchOpen,
     ScratchFailures DEF Next

LEMMA ScratchInit == Init => ScratchInv
BY DEF Init, ScratchInv, MarkerGoesLast, IdleIsClean, Finishing

\* An idle store has no scratch directory and no marker, and neither has a
\* store whose log is about to be read (store.rs finish_pending_compaction).
THEOREM NothingLeft == Spec => []NoScratchLeft
<1>1. ScratchInv => NoScratchLeft
  BY DEF ScratchInv, MarkerGoesLast, IdleIsClean, NoScratchLeft
<1> QED
  BY <1>1, ScratchInit, ScratchStep, PTL DEF Spec

-----------------------------------------------------------------------------
(* Directories.                                                            *)

Ids == 0..(MaxSegs - 1)

\* A directory is not NoDir.
LEMMA Exists ==
    ASSUME NEW d, DOMAIN d \subseteq Ids
    PROVE  d # NoDir /\ Files(d) = DOMAIN d
<1>1. DOMAIN NoDir = {-1} /\ -1 \notin Ids
  BY BoundsAssumption DEF NoDir, Ids
<1>2. d # NoDir
  BY <1>1
<1> QED
  BY <1>2 DEF Files

\* A directory with one file more, or one in another's place.
LEMMA WithFileFacts ==
    ASSUME NEW d, NEW id, NEW f
    PROVE  /\ DOMAIN WithFile(d, id, f) = DOMAIN d \cup {id}
           /\ \A i \in DOMAIN d \cup {id} : WithFile(d, id, f)[i] = IF i = id THEN f ELSE d[i]
BY DEF WithFile

LEMMA OneSegmentFacts ==
    ASSUME NEW f
    PROVE  DOMAIN OneSegment(f) = {0} /\ DOMAIN OneSegment(f) \subseteq Ids
BY BoundsAssumption DEF OneSegment, Ids

\* The active segment is one of the directory.
LEMMA ActiveIs ==
    ASSUME NEW d, DOMAIN d \subseteq Ids, DOMAIN d # {}
    PROVE  Active(d) \in DOMAIN d
<1>1. DOMAIN d \in SUBSET Nat /\ MaxSegs \in Nat /\ \A x \in DOMAIN d : x <= MaxSegs
  BY BoundsAssumption DEF Ids
<1>2. \E x \in DOMAIN d : \A y \in DOMAIN d : y <= x
  BY <1>1, LargestNat
<1>3. \E x \in DOMAIN d : \A y \in DOMAIN d : x >= y
  BY <1>1, <1>2
<1> QED
  BY <1>3 DEF Active, Max

\* A write keeps to the segments there are, or adds the next one.
LEMMA AppendedFacts ==
    ASSUME NEW d, DOMAIN d \subseteq Ids, DOMAIN d # {}, NEW n,
           NeedsRollOver(d, Len(pending)) => Active(d) + 1 < MaxSegs
    PROVE  DOMAIN Appended(d, pending, n) \subseteq Ids /\ DOMAIN Appended(d, pending, n) # {}
<1>1. PICK id : id = IF NeedsRollOver(d, Len(pending)) THEN Active(d) + 1 ELSE Active(d)
  OBVIOUS
<1>2. id \in Ids
  <2>1. Active(d) \in Ids
    BY ActiveIs
  <2> QED
    BY <1>1, <2>1, BoundsAssumption DEF Ids
<1>3. PICK f : Appended(d, pending, n) = WithFile(d, id, f)
  BY <1>1, Zenon DEF Appended
<1>4. DOMAIN Appended(d, pending, n) = DOMAIN d \cup {id}
  BY <1>3, WithFileFacts
<1> QED
  BY <1>2, <1>4

LEMMA OpenedFacts ==
    ASSUME NEW d, DOMAIN d \subseteq Ids
    PROVE  DOMAIN Opened(d) \subseteq Ids /\ DOMAIN Opened(d) # {}
BY OneSegmentFacts DEF Opened

\* The placeholder log that compact() opens, or opened and could not use.
LEMMA OpenedPlaceholder ==
    ASSUME IdsAreBounded
    PROVE  Opened(placeholder) = placeholder
              \/ (DOMAIN Opened(placeholder) \subseteq Ids /\ DOMAIN Opened(placeholder) # {})
BY OneSegmentFacts DEF Opened

LEMMA WithoutFacts ==
    ASSUME NEW d, NEW id
    PROVE  /\ DOMAIN Without(d, id) = DOMAIN d \ {id}
           /\ \A i \in DOMAIN d \ {id} : Without(d, id)[i] = d[i]
BY DEF Without

\* A directory that is being removed.
LEMMA ShrunkFacts ==
    ASSUME NEW d, d = NoDir \/ DOMAIN d \subseteq Ids, NEW e \in Shrunk(d)
    PROVE  e = NoDir \/ DOMAIN e \subseteq Ids
<1>1. CASE Files(d) = {}
  BY <1>1 DEF Shrunk
<1>2. CASE Files(d) # {}
  <2>1. DOMAIN d \subseteq Ids
    BY <1>2 DEF Files
  <2>2. PICK id \in DOMAIN d : e = Without(d, id)
    BY <1>2 DEF Shrunk
  <2>3. DOMAIN e = DOMAIN d \ {id}
    BY <2>2, WithoutFacts
  <2> QED
    BY <2>1, <2>3
<1> QED
  BY <1>1, <1>2

-----------------------------------------------------------------------------
(* The log is there, and so is the backup while segments are moved.        *)

\* What a write in progress, or a crash in it, does to the log's directory.
LEMMA TargetFacts ==
    ASSUME StoreInv, pc = "writing", NEW n, AppendToTarget(n)
    PROVE  IdsAreBounded /\ tmp' = tmp /\ backup' = backup =>
              /\ IdsAreBounded'
              /\ log' = log => /\ log # "unlinked" => DOMAIN Target' # {}
                               /\ log = "placeholder" => placeholder' # NoDir
<1> SUFFICES ASSUME tmp' = tmp, backup' = backup
             PROVE  /\ IdsAreBounded'
                    /\ log' = log => /\ log # "unlinked" => DOMAIN Target' # {}
                                     /\ log = "placeholder" => placeholder' # NoDir
  OBVIOUS
<1>0. CASE log = "unlinked"
  <2>1. UNCHANGED <<dir, placeholder>>
    BY <1>0 DEF AppendToTarget
  <2> QED
    BY <1>0, <2>1 DEF StoreInv, IdsAreBounded
<1> SUFFICES ASSUME log # "unlinked"
             PROVE  /\ IdsAreBounded'
                    /\ log' = log => /\ log # "unlinked" => DOMAIN Target' # {}
                                     /\ log = "placeholder" => placeholder' # NoDir
  BY <1>0
<1>1. PICK d, e : d = Target /\ e = Appended(d, pending, n)
  OBVIOUS
<1>2. /\ DOMAIN d # {} /\ log \in {"dir", "placeholder"}
      /\ log = "placeholder" => placeholder # NoDir
      /\ NeedsRollOver(d, Len(pending)) => Active(d) + 1 < MaxSegs
  BY <1>1 DEF StoreInv, LogIsThere
<1>3. DOMAIN d \subseteq Ids
  BY <1>1, <1>2 DEF StoreInv, IdsAreBounded, Target, Ids
<1>4. DOMAIN e \subseteq Ids /\ DOMAIN e # {} /\ e # NoDir
  BY <1>1, <1>2, <1>3, AppendedFacts, Exists
<1>5. CASE log = "dir"
  <2>1. dir' = e /\ placeholder' = placeholder
    BY <1>1, <1>5 DEF AppendToTarget, Target
  <2>2. IdsAreBounded'
    BY <1>4, <2>1 DEF StoreInv, IdsAreBounded, Ids
  <2>3. log' = log => Target' = e
    BY <1>5, <2>1 DEF Target
  <2> QED
    BY <1>4, <1>5, <2>2, <2>3
<1>6. CASE log = "placeholder"
  <2>1. placeholder' = e /\ dir' = dir
    BY <1>1, <1>6 DEF AppendToTarget, Target
  <2>2. IdsAreBounded'
    BY <1>4, <2>1 DEF StoreInv, IdsAreBounded, Ids
  <2>3. log' = log => Target' = e
    BY <1>6, <2>1 DEF Target
  <2> QED
    BY <1>4, <1>6, <2>1, <2>2, <2>3
<1> QED
  BY <1>2, <1>5, <1>6

\* Steps that leave the directories alone.
LEMMA QuietSteps ==
    ASSUME StoreInv, UNCHANGED <<dir, tmp, backup, placeholder>>
    PROVE  IdsAreBounded'
BY DEF StoreInv, IdsAreBounded

LEMMA InvWrite ==
    ASSUME StoreInv, (\E ops \in Batches : StartWrite(ops)) \/ FinishWrite
    PROVE  IdsAreBounded' /\ LogIsThere' /\ BackupIsThere'
<1> USE DEF Finishing, Compacting, Opening
<1>1. CASE \E ops \in Batches : StartWrite(ops)
  <2>1. PICK ops \in Batches : StartWrite(ops)
    BY <1>1
  <2>2. /\ pc = "idle" /\ pc' = "writing" /\ pending' = ops /\ Target' = Target
        /\ UNCHANGED <<dir, tmp, backup, placeholder, caller, log>>
        /\ log # "unlinked" /\ NeedsRollOver(Target, Len(ops)) => Active(Target) + 1 < MaxSegs
    BY <2>1 DEF StartWrite, Target
  <2>3. IdsAreBounded'
    BY <2>2, QuietSteps
  <2>4. BackupIsThere'
    BY <2>2 DEF StoreInv, BackupIsThere
  <2>5. log # "unlinked" /\ NeedsRollOver(Target', Len(pending')) => Active(Target') + 1 < MaxSegs
    BY <2>2
  <2>6. LogIsThere'
    <3>1. (NeedsRollOver(Target, Len(pending)))' = NeedsRollOver(Target', Len(pending'))
      BY DEF NeedsRollOver, Active
    <3>2. Active(Target)' = Active(Target')
      BY DEF Active
    <3> QED
      BY <2>2, <2>5, <3>1, <3>2 DEF StoreInv, LogIsThere
  <2> QED
    BY <2>3, <2>4, <2>6
<1>2. CASE FinishWrite
  <2>1. /\ pc = "writing" /\ pc' = "idle" /\ AppendToTarget(Len(pending))
        /\ UNCHANGED <<tmp, backup, caller, log>>
    BY <1>2 DEF FinishWrite
  <2>2. /\ IdsAreBounded'
        /\ log # "unlinked" => DOMAIN Target' # {}
        /\ log = "placeholder" => placeholder' # NoDir
    BY <2>1, TargetFacts DEF StoreInv
  <2>3. LogIsThere'
    BY <2>1, <2>2 DEF StoreInv, LogIsThere
  <2>4. BackupIsThere'
    BY <2>1 DEF StoreInv, BackupIsThere
  <2> QED
    BY <2>2, <2>3, <2>4
<1> QED
  BY <1>1, <1>2

LEMMA InvSnapshots ==
    ASSUME StoreInv, HoldSnapshot \/ \E s \in held : DropSnapshot(s)
    PROVE  IdsAreBounded' /\ LogIsThere' /\ BackupIsThere'
<1>1. /\ pc = "idle" /\ Target' = Target
      /\ UNCHANGED <<dir, tmp, backup, placeholder, pc, caller, log, pending>>
  BY DEF HoldSnapshot, DropSnapshot, Target
<1>2. LogIsThere'
  BY <1>1 DEF StoreInv, LogIsThere, Finishing, Compacting
<1>3. BackupIsThere'
  BY <1>1 DEF StoreInv, BackupIsThere, Opening
<1> QED
  BY <1>1, <1>2, <1>3, QuietSteps

LEMMA InvCompact ==
    ASSUME StoreInv, Compact
    PROVE  IdsAreBounded' /\ LogIsThere' /\ BackupIsThere'
<1> USE DEF Finishing, Compacting, Opening
<1>0. DOMAIN dir \subseteq Ids /\ \A d \in {tmp, backup, placeholder} : d = NoDir \/ DOMAIN d \subseteq Ids
  BY DEF StoreInv, IdsAreBounded, Ids
<1>1. CASE CompactBegin \/ ClearTmp \/ CreateTmp \/ OpenTmp \/ BuildTmp \/ WriteMarker
  <2>1. /\ pc \in {"idle", "clear", "create", "open_tmp", "build", "mark"}
        /\ pc' \in {"clear", "create", "open_tmp", "build", "mark", "swap"}
        /\ caller' = "compact" /\ Target' = Target
        /\ UNCHANGED <<dir, backup, placeholder, log>>
    BY <1>1 DEF CompactBegin, ClearTmp, CreateTmp, OpenTmp, BuildTmp, WriteMarker, Target,
                StoreInv, LogIsThere
  <2>2. tmp' = tmp \/ tmp' = NoDir \/ DOMAIN tmp' \subseteq Ids
    <3>1. CASE CompactBegin \/ WriteMarker
      BY <3>1 DEF CompactBegin, WriteMarker
    <3>2. CASE ClearTmp
      BY <1>0, <3>2, ShrunkFacts DEF ClearTmp
    <3>3. CASE CreateTmp
      BY <3>3 DEF CreateTmp, EmptyDir
    <3>4. CASE OpenTmp
      BY <3>4, OneSegmentFacts DEF OpenTmp, Opened
    <3>5. CASE BuildTmp
      BY <3>5, OneSegmentFacts DEF BuildTmp
    <3> QED
      BY <1>1, <3>1, <3>2, <3>3, <3>4, <3>5
  <2>4. IdsAreBounded'
    BY <1>0, <2>1, <2>2 DEF IdsAreBounded, Ids
  <2>5. LogIsThere'
    BY <2>1 DEF StoreInv, LogIsThere
  <2>6. BackupIsThere'
    BY <2>1 DEF StoreInv, BackupIsThere
  <2> QED
    BY <2>4, <2>5, <2>6
<1>5. CASE ClearPlaceholder
  <2>1. /\ pc = "swap" /\ pc' = "swap" /\ placeholder' \in Shrunk(placeholder)
        /\ log' = IF log = "placeholder" /\ Active(placeholder) \notin Files(placeholder')
                  THEN "unlinked" ELSE log
        /\ UNCHANGED <<dir, tmp, backup, caller>>
    BY <1>5 DEF ClearPlaceholder
  <2>2. placeholder' = NoDir \/ DOMAIN placeholder' \subseteq Ids
    BY <1>0, <2>1, ShrunkFacts
  <2>3. IdsAreBounded'
    BY <1>0, <2>1, <2>2 DEF IdsAreBounded, Ids
  <2>4. caller = "compact" /\ log \in {"dir", "placeholder", "unlinked"} /\ (log = "dir" => DOMAIN dir # {})
    BY <2>1 DEF StoreInv, LogIsThere, Target
  <2>5. LogIsThere'
    <3>1. CASE log = "placeholder" /\ Active(placeholder) \in Files(placeholder')
      <4>1. placeholder' # NoDir /\ DOMAIN placeholder' # {} /\ log' = "placeholder"
        BY <2>1, <3>1 DEF Files
      <4>2. Target' = placeholder'
        BY <4>1 DEF Target
      <4> QED
        BY <2>1, <2>4, <4>1, <4>2 DEF LogIsThere
    <3>2. CASE log = "dir"
      <4>1. log' = "dir" /\ DOMAIN dir' # {}
        BY <2>1, <2>4, <3>2
      <4>2. Target' = dir'
        BY <4>1 DEF Target
      <4> QED
        BY <2>1, <2>4, <4>1, <4>2 DEF LogIsThere
    <3>3. CASE log' = "unlinked"
      BY <2>1, <2>4, <3>3 DEF LogIsThere
    <3> QED
      BY <2>1, <2>4, <3>1, <3>2, <3>3
  <2>6. BackupIsThere'
    BY <2>1 DEF StoreInv, BackupIsThere
  <2> QED
    BY <2>3, <2>5, <2>6
<1>6. CASE CreatePlaceholder
  <2>1. /\ pc = "swap" /\ pc' = "open_placeholder" /\ placeholder = NoDir /\ placeholder' = EmptyDir
        /\ UNCHANGED <<dir, tmp, backup, caller, log>>
    BY <1>6 DEF CreatePlaceholder
  <2>2. DOMAIN placeholder' \subseteq Ids
    BY <2>1 DEF EmptyDir
  <2>3. IdsAreBounded'
    BY <1>0, <2>1, <2>2 DEF IdsAreBounded, Ids
  <2>4. caller = "compact" /\ log \in {"dir", "unlinked"} /\ (log = "dir" => DOMAIN dir # {})
    BY <2>1 DEF StoreInv, LogIsThere, Target
  <2>5. log' = "dir" => Target' = dir'
    BY DEF Target
  <2>6. LogIsThere'
    BY <2>1, <2>2, <2>4, <2>5, Exists DEF LogIsThere
  <2>7. BackupIsThere'
    BY <2>1 DEF StoreInv, BackupIsThere
  <2> QED
    BY <2>3, <2>6, <2>7
<1>2. CASE SwapPlaceholder
  <2>1. /\ pc = "open_placeholder" /\ pc' = "finish" /\ log' = "placeholder"
        /\ placeholder' = Opened(placeholder) /\ UNCHANGED <<dir, tmp, backup, caller>>
    BY <1>2 DEF SwapPlaceholder
  <2>2. DOMAIN placeholder' # {} /\ DOMAIN placeholder' \subseteq Ids /\ placeholder' # NoDir
    <3>1. placeholder # NoDir
      BY <2>1 DEF StoreInv, LogIsThere
    <3> QED
      BY <1>0, <2>1, <3>1, OpenedFacts, Exists
  <2>3. IdsAreBounded'
    BY <2>1, <2>2 DEF StoreInv, IdsAreBounded, Ids
  <2>4. Target' = placeholder'
    BY <2>1 DEF Target
  <2>5. LogIsThere'
    BY <2>1, <2>2, <2>4 DEF StoreInv, LogIsThere
  <2>6. BackupIsThere'
    BY <2>1 DEF StoreInv, BackupIsThere
  <2> QED
    BY <2>3, <2>5, <2>6
<1>3. CASE Reopen
  <2>1. /\ pc = "reopen" /\ pc' = "cleanup" /\ log' = "dir" /\ dir' = Opened(dir)
        /\ UNCHANGED <<tmp, backup, placeholder, caller>>
    BY <1>3 DEF Reopen
  <2>2. DOMAIN dir' \subseteq Ids /\ DOMAIN dir' # {}
    BY <2>1, OpenedFacts DEF StoreInv, IdsAreBounded, Ids
  <2>3. IdsAreBounded'
    BY <2>1, <2>2 DEF StoreInv, IdsAreBounded, Ids
  <2>4. Target' = dir'
    BY <2>1 DEF Target
  <2>5. LogIsThere'
    BY <2>1, <2>2, <2>4 DEF StoreInv, LogIsThere
  <2>6. BackupIsThere'
    BY <2>1 DEF StoreInv, BackupIsThere
  <2> QED
    BY <2>3, <2>5, <2>6
<1>4. CASE CleanUp
  <2>1. /\ pc = "cleanup" /\ pc' \in {"cleanup", "idle"} /\ log = "dir"
        /\ placeholder' \in Shrunk(placeholder)
        /\ UNCHANGED <<dir, tmp, backup, caller, log>>
    BY <1>4 DEF CleanUp, StoreInv, ScratchInv, IdleIsClean
  <2>2. Target' = Target
    BY <2>1 DEF Target
  <2>3. IdsAreBounded'
    BY <1>0, <2>1, ShrunkFacts DEF IdsAreBounded, Ids
  <2>4. LogIsThere'
    BY <2>1, <2>2 DEF StoreInv, LogIsThere
  <2>5. BackupIsThere'
    BY <2>1 DEF StoreInv, BackupIsThere
  <2> QED
    BY <2>3, <2>4, <2>5
<1> QED
  BY <1>1, <1>2, <1>3, <1>4, <1>5, <1>6 DEF Compact

\* finish_pending_compaction leaves the log that compact() goes on with alone.
LEMMA FinishLog ==
    ASSUME StoreInv, FinishPendingCompaction
    PROVE  LogIsThere'
<1> USE DEF Finishing, Compacting, Opening
<1>1. /\ pc \in Finishing /\ pc' \in Finishing \cup {"reopen", "rm_placeholder"}
      /\ pc' = "reopen" => caller = "compact"
      /\ UNCHANGED <<placeholder, caller, log>>
  BY DEF FinishPendingCompaction, FinishNothing, FinishStart, BackupDone, RemoveTmp,
         RemoveBackup, RemoveMarker, BackupOne, MigrateOne, AfterFinish
<1>2. CASE caller = "compact"
  <2>1. log = "placeholder" /\ Target = placeholder /\ DOMAIN placeholder # {} /\ placeholder # NoDir
    BY <1>1, <1>2 DEF StoreInv, LogIsThere, Target
  <2>2. Target' = placeholder
    BY <1>1, <2>1 DEF Target
  <2> QED
    BY <1>1, <1>2, <2>1, <2>2 DEF LogIsThere
<1>3. CASE caller # "compact"
  BY <1>1, <1>3 DEF LogIsThere
<1> QED
  BY <1>2, <1>3

LEMMA InvFinish ==
    ASSUME StoreInv, FinishPendingCompaction
    PROVE  IdsAreBounded' /\ BackupIsThere'
<1> USE DEF Finishing, Opening
<1>1. CASE FinishNothing \/ BackupDone \/ RemoveTmp \/ RemoveMarker
  <2>1. /\ dir' = dir /\ backup' = backup /\ placeholder' = placeholder /\ caller' = caller
        /\ tmp' = tmp \/ tmp' = NoDir
        /\ pc' = "migrate" => pc = "backup"
        /\ pc' # "backup"
        /\ pc' \in Opening => caller # "compact"
        /\ pc \in {"finish", "backup", "migrate", "rm_marker"}
    BY <1>1 DEF FinishNothing, BackupDone, RemoveTmp, RemoveMarker, AfterFinish
  <2>2. IdsAreBounded'
    BY <2>1 DEF StoreInv, IdsAreBounded
  <2>3. BackupIsThere'
    BY <2>1 DEF StoreInv, BackupIsThere
  <2> QED
    BY <2>2, <2>3
<1>2. CASE FinishStart
  <2>1. pc = "finish" /\ UNCHANGED <<dir, tmp, placeholder, caller>>
    BY <1>2 DEF FinishStart
  <2>2. CASE backup = NoDir
    <3>1. backup' = EmptyDir /\ pc' = "backup" /\ tmp # NoDir
      BY <1>2, <2>2 DEF FinishStart, NothingToFinish
    <3>2. DOMAIN backup' \subseteq Ids
      BY <3>1 DEF EmptyDir
    <3>3. backup' # NoDir
      BY <3>2, Exists
    <3> QED
      BY <2>1, <2>2, <3>1, <3>2, <3>3 DEF StoreInv, IdsAreBounded, BackupIsThere, Ids
  <2>3. CASE backup # NoDir
    <3>1. backup' = backup /\ pc' = "migrate"
      BY <1>2, <2>3 DEF FinishStart
    <3> QED
      BY <2>1, <2>3, <3>1 DEF StoreInv, IdsAreBounded, BackupIsThere
  <2> QED
    BY <2>2, <2>3
<1>3. CASE RemoveBackup
  <2>1. pc = "rm_backup" /\ pc' \in {"rm_backup", "rm_marker"} /\ UNCHANGED <<dir, tmp, placeholder, caller>>
    BY <1>3 DEF RemoveBackup
  <2>2. backup = NoDir \/ DOMAIN backup \subseteq Ids
    BY DEF StoreInv, IdsAreBounded, Ids
  <2>3. backup' = NoDir \/ DOMAIN backup' \subseteq Ids
    BY <1>3, <2>2, ShrunkFacts DEF RemoveBackup
  <2> QED
    BY <2>1, <2>3 DEF StoreInv, IdsAreBounded, BackupIsThere, Ids
<1>4. CASE \E id \in 0..(MaxSegs - 1) : BackupOne(id)
  <2>1. PICK id \in Ids : BackupOne(id)
    BY <1>4 DEF Ids
  <2>2. /\ pc = "backup" /\ pc' = "backup" /\ UNCHANGED <<tmp, placeholder, caller>>
        /\ backup' = WithFile(backup, id, dir[id]) /\ dir' = Without(dir, id)
    BY <2>1 DEF BackupOne
  <2>3. tmp # NoDir /\ backup # NoDir
    BY <2>2 DEF StoreInv, BackupIsThere
  <2>4. DOMAIN backup' \subseteq Ids /\ DOMAIN dir' \subseteq Ids
    <3>1. DOMAIN backup \subseteq Ids /\ DOMAIN dir \subseteq Ids
      BY <2>3 DEF StoreInv, IdsAreBounded, Ids
    <3>2. DOMAIN backup' = DOMAIN backup \cup {id}
      BY <2>2, WithFileFacts, Zenon
    <3>3. DOMAIN dir' = DOMAIN dir \ {id}
      BY <2>2, WithoutFacts, Zenon
    <3> QED
      BY <2>1, <3>1, <3>2, <3>3
  <2>5. backup' # NoDir
    BY <2>4, Exists
  <2> QED
    BY <2>2, <2>3, <2>4, <2>5 DEF StoreInv, IdsAreBounded, BackupIsThere, Ids
<1>5. CASE \E id \in 0..(MaxSegs - 1) : MigrateOne(id)
  <2>1. PICK id \in Ids : MigrateOne(id)
    BY <1>5 DEF Ids
  <2>2. /\ pc = "migrate" /\ pc' = "migrate" /\ UNCHANGED <<backup, placeholder, caller>>
        /\ dir' = WithFile(dir, id, tmp[id]) /\ tmp' = Without(tmp, id) /\ id \in Files(tmp)
    BY <2>1 DEF MigrateOne
  <2>3. backup # NoDir /\ DOMAIN tmp \subseteq Ids
    BY <2>2 DEF StoreInv, BackupIsThere, IdsAreBounded, Files, Ids
  <2>4. DOMAIN tmp' \subseteq Ids /\ DOMAIN dir' \subseteq Ids
    <3>1. DOMAIN dir \subseteq Ids
      BY DEF StoreInv, IdsAreBounded, Ids
    <3>2. DOMAIN dir' = DOMAIN dir \cup {id}
      BY <2>2, WithFileFacts, Zenon
    <3>3. DOMAIN tmp' = DOMAIN tmp \ {id}
      BY <2>2, WithoutFacts, Zenon
    <3> QED
      BY <2>1, <2>3, <3>1, <3>2, <3>3
  <2> QED
    BY <2>2, <2>3, <2>4 DEF StoreInv, IdsAreBounded, BackupIsThere, Ids
<1> QED
  BY <1>1, <1>2, <1>3, <1>4, <1>5 DEF FinishPendingCompaction

LEMMA InvOpen ==
    ASSUME StoreInv, Open
    PROVE  IdsAreBounded' /\ LogIsThere' /\ BackupIsThere'
<1> USE DEF Finishing, Compacting, Opening
<1>0. DOMAIN dir \subseteq Ids /\ \A d \in {tmp, backup, placeholder} : d = NoDir \/ DOMAIN d \subseteq Ids
  BY DEF StoreInv, IdsAreBounded, Ids
<1>1. CASE OpenBegin \/ DiscardTmp \/ RemovePlaceholder
  <2>1. /\ pc \in {"down", "discard", "rm_placeholder"}
        /\ pc' \in {"finish", "discard", "rm_placeholder", "replay"}
        /\ caller' = "open" /\ dir' = dir /\ backup' = backup
        /\ tmp' = tmp \/ tmp' \in Shrunk(tmp)
        /\ placeholder' = placeholder \/ placeholder' \in Shrunk(placeholder)
    BY <1>1 DEF OpenBegin, DiscardTmp, RemovePlaceholder, StoreInv, BackupIsThere
  <2>2. LogIsThere'
    BY <2>1 DEF LogIsThere
  <2>3. /\ tmp' = NoDir \/ DOMAIN tmp' \subseteq Ids
        /\ placeholder' = NoDir \/ DOMAIN placeholder' \subseteq Ids
    BY <1>0, <2>1, ShrunkFacts
  <2>4. IdsAreBounded'
    BY <1>0, <2>1, <2>3 DEF IdsAreBounded, Ids
  <2> QED
    BY <2>1, <2>2, <2>4 DEF StoreInv, BackupIsThere
<1>2. CASE ReplayLog
  <2>1. /\ pc = "replay" /\ pc' = "idle" /\ log' = "dir" /\ dir' = Opened(dir)
        /\ UNCHANGED <<tmp, backup, placeholder, caller>>
    BY <1>2 DEF ReplayLog
  <2>2. DOMAIN dir' \subseteq Ids /\ DOMAIN dir' # {} /\ Target' = dir'
    BY <2>1, OpenedFacts DEF StoreInv, IdsAreBounded, Ids, Target
  <2>3. IdsAreBounded'
    BY <2>1, <2>2 DEF StoreInv, IdsAreBounded, Ids
  <2>4. LogIsThere'
    BY <2>1, <2>2 DEF LogIsThere
  <2>5. BackupIsThere'
    BY <2>1 DEF StoreInv, BackupIsThere
  <2> QED
    BY <2>3, <2>4, <2>5
<1> QED
  BY <1>1, <1>2 DEF Open

LEMMA InvFailures ==
    ASSUME StoreInv, Crash \/ CompactFails
    PROVE  IdsAreBounded' /\ LogIsThere' /\ BackupIsThere'
<1> USE DEF Finishing, Compacting, Opening
<1>1. CASE Crash
  <2>1. pc' = "down" /\ caller' = "open" /\ backup' = backup
    BY <1>1 DEF Crash
  <2>2. LogIsThere'
    BY <2>1 DEF LogIsThere
  <2>3. CASE pc = "writing"
    <3>1. PICK n : AppendToTarget(n) /\ tmp' = tmp
      BY <1>1, <2>3 DEF Crash
    <3>2. IdsAreBounded'
      BY <2>1, <2>3, <3>1, TargetFacts DEF StoreInv
    <3>3. BackupIsThere'
      BY <2>1, <3>1 DEF StoreInv, BackupIsThere
    <3> QED
      BY <2>2, <3>2, <3>3
  <2>4. CASE pc = "build"
    <3>1. dir' = dir /\ placeholder' = placeholder /\ \E rs : tmp' = OneSegment(rs)
      BY <1>1, <2>4 DEF Crash
    <3>2. DOMAIN tmp' \subseteq Ids
      BY <3>1, OneSegmentFacts
    <3> QED
      BY <2>1, <2>2, <3>1, <3>2 DEF StoreInv, IdsAreBounded, BackupIsThere, Ids
  <2>5. CASE pc \notin {"writing", "build"}
    <3>1. UNCHANGED <<dir, tmp, placeholder>>
      BY <1>1, <2>5 DEF Crash
    <3> QED
      BY <2>1, <2>2, <3>1 DEF StoreInv, IdsAreBounded, BackupIsThere
  <2> QED
    BY <2>3, <2>4, <2>5
<1>2. CASE CompactFails
  <2>1. /\ pc \in Compacting \cup Finishing /\ caller = "compact" /\ pc' = "idle"
        /\ UNCHANGED <<dir, backup, caller, log>>
        /\ tmp' = tmp \/ \E rs : tmp' = OneSegment(rs)
        /\ placeholder' = placeholder \/ placeholder' = Opened(placeholder)
    BY <1>2 DEF CompactFails
  <2>2. /\ tmp' = tmp \/ DOMAIN tmp' \subseteq Ids
        /\ placeholder' = placeholder
              \/ (DOMAIN placeholder' \subseteq Ids /\ DOMAIN placeholder' # {} /\ placeholder' # NoDir)
    BY <2>1, OneSegmentFacts, OpenedPlaceholder, Exists DEF StoreInv
  <2>3. IdsAreBounded'
    BY <2>1, <2>2 DEF StoreInv, IdsAreBounded, Ids
  <2>4. /\ log' # "unlinked" => DOMAIN Target' # {}
        /\ log' = "placeholder" => placeholder' # NoDir
        /\ log' \in {"dir", "placeholder", "unlinked"}
    BY <2>1, <2>2 DEF StoreInv, LogIsThere, Target
  <2>5. LogIsThere'
    BY <2>1, <2>4 DEF LogIsThere
  <2>6. BackupIsThere'
    BY <2>1 DEF StoreInv, BackupIsThere
  <2> QED
    BY <2>3, <2>5, <2>6
<1> QED
  BY <1>1, <1>2

\* The invariant of the store holds in every state (store.rs).
THEOREM StoreInvariance == Spec => []StoreInv
<1>1. Init => StoreInv
  <2> SUFFICES ASSUME Init PROVE StoreInv
    OBVIOUS
  <2>1. IdsAreBounded /\ LogIsThere /\ BackupIsThere
    BY DEF Init, EmptyDir, IdsAreBounded, LogIsThere, BackupIsThere, Finishing, Compacting, Opening
  <2> QED
    BY <2>1, ScratchInit DEF StoreInv
<1>2. ASSUME StoreInv, [Next]_vars PROVE StoreInv'
  <2>1. ScratchInv'
    BY <1>2, ScratchStep DEF StoreInv
  <2>2. CASE Next
    <3>1. IdsAreBounded' /\ LogIsThere' /\ BackupIsThere'
      BY <1>2, <2>2, InvWrite, InvSnapshots, InvCompact, FinishLog, InvFinish, InvOpen,
         InvFailures DEF Next
    <3> QED
      BY <2>1, <3>1 DEF StoreInv
  <2>3. CASE UNCHANGED vars
    <3>1. Target' = Target
      BY <2>3 DEF vars, Target
    <3>2. IdsAreBounded' /\ BackupIsThere'
      BY <1>2, <2>3 DEF vars, StoreInv, IdsAreBounded, BackupIsThere
    <3>3. LogIsThere'
      BY <1>2, <2>3, <3>1 DEF vars, StoreInv, LogIsThere
    <3> QED
      BY <2>1, <3>2, <3>3 DEF StoreInv
  <2> QED
    BY <1>2, <2>2, <2>3
<1> QED
  BY <1>1, <1>2, PTL DEF Spec

-----------------------------------------------------------------------------
(* A recovery gives what it was going to give.                             *)

\* What is read of a directory: its files, and not whether it exists.
SameFiles(d, e) == Files(d) = Files(e) /\ \A id \in Files(d) : d[id] = e[id]

\* The contents a replay of d gives.
ContentsOf(d) == [k \in Key |-> Get(Replayed(d)[k])]

\* Store::open runs, or is to run next.
Recovering == pc = "down" \/ pc \in Opening \/ (pc \in Finishing /\ caller = "open")

LEMMA SameReplay ==
    ASSUME NEW d, NEW e, SameFiles(d, e)
    PROVE  ContentsOf(d) = ContentsOf(e)
<1>1. [n \in 1..MaxSegs |-> IF n - 1 \in Files(d) THEN d[n - 1] ELSE <<>>]
        = [n \in 1..MaxSegs |-> IF n - 1 \in Files(e) THEN e[n - 1] ELSE <<>>]
  BY DEF SameFiles
<1>2. Stream(d) = Stream(e)
  BY <1>1, Zenon DEF Stream
<1>3. Replayed(d) = Replayed(e)
  BY <1>2, Zenon DEF Replayed
<1> QED
  BY <1>3, Zenon DEF ContentsOf

LEMMA ContentsWhileRecovering ==
    ASSUME Recovering
    PROVE  Contents = ContentsOf(WillHave)
BY DEF Recovering, Contents, ContentsOf

\* A step of the recovery that leaves the files it ends up with.
LEMMA SameContents ==
    ASSUME Recovering, Recovering', SameFiles(WillHave, WillHave')
    PROVE  Contents' = Contents
<1>1. (Recovering => Contents = ContentsOf(WillHave))'
  BY ContentsWhileRecovering, PTL
<1>2. Contents' = ContentsOf(WillHave')
  BY <1>1, Zenon
<1>3. PICK d, e : d = WillHave /\ e = WillHave'
  OBVIOUS
<1>4. ContentsOf(d) = ContentsOf(e)
  BY <1>3, SameReplay
<1> QED
  BY <1>2, <1>3, <1>4, ContentsWhileRecovering

LEMMA Reflexive ==
    ASSUME NEW d
    PROVE  SameFiles(d, d)
BY DEF SameFiles

\* Files that are all replaced do not matter.
LEMMA OverAll ==
    ASSUME NEW d, NEW e, DOMAIN d \subseteq Ids, DOMAIN e \subseteq DOMAIN d
    PROVE  SameFiles(d, Over(d, e))
<1>1. PICK o : o = Over(d, e)
  OBVIOUS
<1>2. DOMAIN o = DOMAIN d /\ \A i \in DOMAIN d : o[i] = d[i]
  BY <1>1 DEF Over
<1>3. Files(o) = DOMAIN d /\ Files(d) = DOMAIN d
  BY <1>2, Exists
<1> QED
  BY <1>1, <1>2, <1>3 DEF SameFiles

\* A directory with nothing in it replaces nothing.
LEMMA OverNone ==
    ASSUME NEW d, NEW e, DOMAIN d = {}, DOMAIN e \subseteq Ids
    PROVE  SameFiles(Over(d, e), e)
<1>1. PICK o : o = Over(d, e)
  OBVIOUS
<1>2. DOMAIN o = DOMAIN e /\ \A i \in DOMAIN e : o[i] = e[i]
  BY <1>1 DEF Over
<1>3. Files(o) = DOMAIN e /\ Files(e) = DOMAIN e
  BY <1>2, Exists
<1> QED
  BY <1>1, <1>2, <1>3 DEF SameFiles

\* A file that is moved stays among those the recovery ends up with.
LEMMA OverMoved ==
    ASSUME NEW d, NEW e, NEW id \in DOMAIN d, DOMAIN d \subseteq Ids, DOMAIN e \subseteq Ids,
           NEW d2, NEW e2, d2 = Without(d, id), e2 = WithFile(e, id, d[id])
    PROVE  SameFiles(Over(d, e), Over(d2, e2))
<1>1. PICK o, o2, f : o = Over(d, e) /\ o2 = Over(d2, e2) /\ f = d[id]
  OBVIOUS
<1>2. DOMAIN d2 = DOMAIN d \ {id} /\ \A i \in DOMAIN d \ {id} : d2[i] = d[i]
  BY WithoutFacts
<1>3. DOMAIN e2 = DOMAIN e \cup {id} /\ \A i \in DOMAIN e \cup {id} : e2[i] = IF i = id THEN f ELSE e[i]
  BY <1>1 DEF WithFile
<1>4. DOMAIN o = DOMAIN d \cup DOMAIN e
      /\ \A i \in DOMAIN d \cup DOMAIN e : o[i] = IF i \in DOMAIN d THEN d[i] ELSE e[i]
  <2>1. o = Over(d, e)
    BY <1>1
  <2> QED
    BY ONLY <2>1, SMT DEF Over
<1>5. DOMAIN o2 = DOMAIN d2 \cup DOMAIN e2
      /\ \A i \in DOMAIN d2 \cup DOMAIN e2 : o2[i] = IF i \in DOMAIN d2 THEN d2[i] ELSE e2[i]
  <2>1. o2 = Over(d2, e2)
    BY <1>1
  <2> QED
    BY ONLY <2>1, SMT DEF Over
<1>6. DOMAIN o2 = DOMAIN o /\ DOMAIN o \subseteq Ids
  BY <1>2, <1>3, <1>4, <1>5
<1>7. ASSUME NEW i \in DOMAIN o PROVE o[i] = o2[i]
  BY <1>1, <1>2, <1>3, <1>4, <1>5, <1>6, <1>7
<1>8. Files(o) = DOMAIN o /\ Files(o2) = DOMAIN o
  BY <1>6, Exists
<1> QED
  BY <1>1, <1>7, <1>8 DEF SameFiles

\* The steps of finish_pending_compaction.
LEMMA RecoverFinish ==
    ASSUME StoreInv, FinishPendingCompaction, caller = "open"
    PROVE  Contents' = Contents
<1> USE DEF Finishing, Opening
<1>1. pc \in Finishing /\ pc' \in Finishing \cup {"rm_placeholder"} /\ caller' = "open"
  BY DEF FinishPendingCompaction, FinishNothing, FinishStart, BackupDone, RemoveTmp,
         RemoveBackup, RemoveMarker, BackupOne, MigrateOne, AfterFinish
<1>2. Recovering /\ Recovering' /\ marker
  BY <1>1 DEF Recovering, StoreInv, ScratchInv, MarkerGoesLast
<1>3. DOMAIN dir \subseteq Ids /\ (tmp = NoDir \/ DOMAIN tmp \subseteq Ids)
  BY DEF StoreInv, IdsAreBounded, Ids
<1> SUFFICES SameFiles(WillHave, WillHave')
  BY <1>2, SameContents
<1>4. CASE FinishNothing \/ RemoveBackup \/ RemoveMarker
  <2>1. /\ pc \in {"finish", "rm_backup", "rm_marker"} /\ pc' # "backup"
        /\ dir' = dir /\ tmp' = tmp /\ tmp = NoDir
        /\ pc # "rm_backup" => ~marker'
    BY <1>4 DEF FinishNothing, RemoveBackup, RemoveMarker, NothingToFinish, AfterFinish,
                StoreInv, ScratchInv, MarkerGoesLast
  <2>2. WillHave = dir
    BY <1>4, <2>1 DEF WillHave, FinishNothing, RemoveMarker, NothingToFinish, StoreInv,
                      ScratchInv, MarkerGoesLast
  <2>3. WillHave' = dir
    BY <2>1 DEF WillHave
  <2> QED
    BY <2>2, <2>3, Reflexive
<1>5. CASE FinishStart
  <2>1. pc = "finish" /\ UNCHANGED <<dir, tmp>> /\ (marker' <=> marker) /\ ~NothingToFinish
    BY <1>5 DEF FinishStart
  <2>2. CASE backup = NoDir
    <3>1. backup' = EmptyDir /\ pc' = "backup" /\ tmp # NoDir
      BY <1>5, <2>1, <2>2 DEF FinishStart, NothingToFinish
    <3>2. WillHave = tmp /\ WillHave' = tmp
      BY <1>2, <2>1, <2>2, <3>1 DEF WillHave
    <3> QED
      BY <3>2, Reflexive
  <2>3. CASE backup # NoDir
    <3>1. backup' = backup /\ pc' = "migrate"
      BY <1>5, <2>3 DEF FinishStart
    <3>2. WillHave' = WillHave
      BY <2>1, <3>1 DEF WillHave
    <3> QED
      BY <3>2, Reflexive
  <2> QED
    BY <2>2, <2>3
<1>6. CASE BackupDone
  <2>1. /\ pc = "backup" /\ DOMAIN dir = {} /\ pc' = "migrate"
        /\ UNCHANGED <<dir, tmp, backup>> /\ (marker' <=> marker)
    BY <1>6 DEF BackupDone
  <2>2. tmp # NoDir /\ backup # NoDir
    BY <2>1 DEF StoreInv, BackupIsThere
  <2>3. WillHave = tmp /\ WillHave' = Over(tmp, dir)
    BY <1>2, <2>1, <2>2 DEF WillHave
  <2>4. SameFiles(tmp, Over(tmp, dir))
    BY <1>3, <2>1, <2>2, OverAll
  <2> QED
    BY <2>3, <2>4
<1>7. CASE RemoveTmp
  <2>1. /\ pc = "migrate" /\ Files(tmp) = {} /\ tmp' = NoDir /\ pc' = "rm_backup"
        /\ UNCHANGED <<dir, backup>> /\ (marker' <=> marker)
    BY <1>7 DEF RemoveTmp
  <2>2. backup # NoDir
    BY <2>1 DEF StoreInv, BackupIsThere
  <2>3. WillHave' = dir
    BY <1>2, <2>1, <2>2 DEF WillHave
  <2>4. CASE tmp = NoDir
    <3>1. WillHave = dir
      BY <1>2, <2>1, <2>2, <2>4 DEF WillHave
    <3> QED
      BY <2>3, <3>1, Reflexive
  <2>5. CASE tmp # NoDir
    <3>1. WillHave = Over(tmp, dir) /\ DOMAIN tmp = {}
      BY <1>2, <2>1, <2>2, <2>5 DEF WillHave, Files
    <3>2. SameFiles(Over(tmp, dir), dir)
      BY <1>3, <3>1, OverNone
    <3> QED
      BY <2>3, <3>1, <3>2
  <2> QED
    BY <2>4, <2>5
<1>8. CASE \E id \in 0..(MaxSegs - 1) : BackupOne(id)
  <2>1. /\ pc = "backup" /\ pc' = "backup" /\ tmp' = tmp /\ (marker' <=> marker)
    BY <1>8 DEF BackupOne
  <2>2. tmp # NoDir
    BY <2>1 DEF StoreInv, BackupIsThere
  <2>3. WillHave = tmp /\ WillHave' = tmp
    BY <1>2, <2>1, <2>2 DEF WillHave
  <2> QED
    BY <2>3, Reflexive
<1>9. CASE \E id \in 0..(MaxSegs - 1) : MigrateOne(id)
  <2>1. PICK id : MigrateOne(id)
    BY <1>9
  <2>2. /\ pc = "migrate" /\ pc' = "migrate" /\ backup' = backup /\ (marker' <=> marker)
        /\ dir' = WithFile(dir, id, tmp[id]) /\ tmp' = Without(tmp, id) /\ id \in Files(tmp)
    BY <2>1 DEF MigrateOne
  <2>3. backup # NoDir /\ tmp # NoDir /\ id \in DOMAIN tmp
    BY <2>2 DEF StoreInv, BackupIsThere, Files
  <2>4. PICK d, e, d2, e2 : d = tmp /\ e = dir /\ d2 = tmp' /\ e2 = dir'
    OBVIOUS
  <2>5. DOMAIN d2 \subseteq Ids /\ d2 # NoDir
    <3>1. DOMAIN d2 = DOMAIN d \ {id}
      BY <2>2, <2>4, WithoutFacts, Zenon
    <3> QED
      BY <1>3, <2>3, <2>4, <3>1, Exists
  <2>6. WillHave = Over(d, e) /\ WillHave' = Over(d2, e2)
    BY <1>2, <2>2, <2>3, <2>4, <2>5 DEF WillHave
  <2>7. SameFiles(Over(d, e), Over(d2, e2))
    <3>1. /\ id \in DOMAIN d /\ DOMAIN d \subseteq Ids /\ DOMAIN e \subseteq Ids
          /\ d2 = Without(d, id) /\ e2 = WithFile(e, id, d[id])
      BY <1>3, <2>2, <2>3, <2>4, Zenon
    <3> QED
      BY <3>1, OverMoved, Zenon
  <2> QED
    BY <2>6, <2>7
<1> QED
  BY <1>4, <1>5, <1>6, <1>7, <1>8, <1>9 DEF FinishPendingCompaction

\* The end of Store::open.
LEMMA RecoverOpen ==
    ASSUME StoreInv, Open, pc # "down"
    PROVE  Contents' = Contents
<1> USE DEF Finishing, Opening
<1>3. CASE DiscardTmp
  <2>1. /\ pc = "discard" /\ pc' \in {"discard", "rm_placeholder"} /\ dir' = dir
        /\ (marker' <=> marker)
    BY <1>3 DEF DiscardTmp
  <2>2. ~marker
    BY <2>1 DEF StoreInv, ScratchInv, MarkerGoesLast
  <2>3. Recovering /\ Recovering' /\ WillHave' = WillHave
    BY <2>1, <2>2 DEF Recovering, WillHave
  <2> QED
    BY <2>3, Reflexive, SameContents
<1>1. CASE RemovePlaceholder
  <2>1. /\ pc = "rm_placeholder" /\ pc' \in {"rm_placeholder", "replay"}
        /\ UNCHANGED <<dir, tmp, backup>> /\ (marker' <=> marker)
    BY <1>1 DEF RemovePlaceholder
  <2>2. Recovering /\ Recovering' /\ WillHave' = WillHave
    BY <2>1 DEF Recovering, WillHave
  <2> QED
    BY <2>2, Reflexive, SameContents
<1>2. CASE ReplayLog
  <2>1. pc = "replay" /\ pc' = "idle" /\ index' = Replayed(dir)
    BY <1>2 DEF ReplayLog
  <2>2. ~marker
    BY <2>1 DEF StoreInv, ScratchInv, MarkerGoesLast
  <2>3. Recovering /\ WillHave = dir
    BY <2>1, <2>2 DEF Recovering, WillHave
  <2>4. Contents = ContentsOf(dir)
    BY <2>3, ContentsWhileRecovering, Zenon
  <2>5. Contents' = ContentsOf(dir)
    BY <2>1 DEF Contents, ContentsOf
  <2> QED
    BY <2>4, <2>5
<1> QED
  BY <1>1, <1>2, <1>3 DEF Open, OpenBegin

\* A crash in a recovery: what is still to be moved away, the temporary
\* directory replaces.
LEMMA RecoverCrash ==
    ASSUME StoreInv, Crash, Recovering, pc # "down", DOMAIN dir \subseteq {0}, marker => TmpIsWhole
    PROVE  Contents' = Contents
<1> USE DEF Finishing, Opening
<1>1. /\ pc' = "down" /\ caller' = "open" /\ backup' = backup /\ (marker' <=> marker)
      /\ dir' = dir /\ tmp' = tmp
  BY DEF Crash, Recovering
<1>2. Recovering'
  BY <1>1 DEF Recovering
<1>3. CASE pc = "backup"
  <2>1. tmp # NoDir /\ backup # NoDir /\ 0 \in DOMAIN tmp /\ marker
    BY <1>3 DEF StoreInv, BackupIsThere, TmpIsWhole, ScratchInv, MarkerGoesLast
  <2>2. WillHave = tmp /\ WillHave' = Over(tmp, dir)
    BY <1>1, <1>3, <2>1 DEF WillHave
  <2>3. DOMAIN tmp \subseteq Ids /\ DOMAIN dir \subseteq DOMAIN tmp
    BY <2>1 DEF StoreInv, IdsAreBounded, Ids
  <2>4. SameFiles(tmp, Over(tmp, dir))
    BY <2>3, OverAll
  <2> QED
    BY <1>2, <2>2, <2>4, SameContents
<1>4. CASE pc # "backup"
  <2>1. WillHave' = WillHave
    BY <1>1, <1>4 DEF WillHave
  <2> QED
    BY <1>2, <2>1, Reflexive, SameContents
<1> QED
  BY <1>3, <1>4

\* A recovery that is interrupted and resumed gives what it was going to
\* give, whatever compact() that failed it cleans up after (store.rs
\* finish_pending_compaction, open).
THEOREM RecoveryResumes == Spec => RecoveryIsIdempotent
<1> DEFINE A == (pc \in Opening \cup Finishing) /\ caller = "open"
                      /\ DOMAIN dir \subseteq {0} /\ (marker => TmpIsWhole)
                   => Contents' = Contents
<1>1. ASSUME StoreInv, [Next]_vars PROVE [A]_vars
  <2> SUFFICES ASSUME Next, pc \in Opening \cup Finishing, caller = "open",
                      DOMAIN dir \subseteq {0}, marker => TmpIsWhole
               PROVE  Contents' = Contents
    BY <1>1
  <2>1. /\ ~\E ops \in Batches : StartWrite(ops)
        /\ ~FinishWrite /\ ~HoldSnapshot /\ ~\E s \in held : DropSnapshot(s)
    BY DEF StartWrite, FinishWrite, HoldSnapshot, DropSnapshot, Opening, Finishing
  <2>2. ~Compact /\ ~CompactFails
    BY DEF Compact, CompactBegin, ClearTmp, CreateTmp, OpenTmp, BuildTmp, WriteMarker,
           ClearPlaceholder, CreatePlaceholder, SwapPlaceholder, Reopen, CleanUp, CompactFails,
           Opening, Finishing
  <2>3. Recovering /\ pc # "down"
    BY DEF Recovering, Opening, Finishing
  <2> QED
    BY <1>1, <2>1, <2>2, <2>3, RecoverFinish, RecoverOpen, RecoverCrash DEF Next
<1> QED
  BY <1>1, StoreInvariance, PTL DEF Spec, RecoveryIsIdempotent
=============================================================================
