------------------------ MODULE SilverTransformerProofs ------------------------
(***************************************************************************)
(* Theorems about SilverTransformer, for any messages, amounts, batch size, *)
(* number of changes by other processes and number of failures.             *)
(***************************************************************************)
EXTENDS SilverTransformer, SilverTransformProofs, FiniteSetTheorems

USE MessageAssumption, TransformAssumption, TransformerAssumption
    DEF storageVars, silverVars, readerVars, writerVars, loopVars, memory, history

-----------------------------------------------------------------------------
(* What a step does to silver. *)

LEMMA InSilver ==
  \A m : m \in Silver <=> \/ m \in Messages /\ silverFiles[m] = "whole"
                         \/ \E i \in 1 .. Len(silverTable) : m \in silverTable[i]
BY DEF Silver

\* One more snapshot.
LEMMA TableGrows ==
  ASSUME TypeOK, NEW rows \in SUBSET Messages, UNCHANGED silverFiles,
         silverTable' = Append(silverTable, rows)
  PROVE  /\ silverTable' \in Seq(SUBSET Messages)
         /\ Len(silverTable) \in Nat
         /\ Len(silverTable') = Len(silverTable) + 1
         /\ \A i \in 1 .. Len(silverTable) : silverTable'[i] = silverTable[i]
         /\ silverTable'[Len(silverTable) + 1] = rows
         /\ Silver' = Silver \union rows
<1>1. silverTable \in Seq(SUBSET Messages)
  BY DEF TypeOK
<1>2. /\ silverTable' \in Seq(SUBSET Messages)
      /\ Len(silverTable) \in Nat
      /\ Len(silverTable') = Len(silverTable) + 1
      /\ \A i \in 1 .. Len(silverTable) : silverTable'[i] = silverTable[i]
      /\ silverTable'[Len(silverTable) + 1] = rows
  BY <1>1
<1>3. \A m : (\E i \in 1 .. Len(silverTable') : m \in silverTable'[i])
              <=> (\E i \in 1 .. Len(silverTable) : m \in silverTable[i]) \/ m \in rows
  BY <1>2
<1>4. Silver' = Silver \union rows
  <2>1. \A m : m \in Silver' <=> \/ m \in Messages /\ silverFiles[m] = "whole"
                                \/ \E i \in 1 .. Len(silverTable') : m \in silverTable'[i]
    BY DEF Silver
  <2>2. QED
    BY <1>3, <2>1, InSilver
<1>5. QED
  BY <1>2, <1>4

\* A record's file is opened, or finished.
LEMMA FileChanges ==
  ASSUME TypeOK, NEW m \in Messages, NEW state \in {"absent", "torn", "whole"},
         UNCHANGED silverTable, silverFiles' = [silverFiles EXCEPT ![m] = state]
  PROVE  /\ silverFiles' \in [Messages -> {"absent", "torn", "whole"}]
         /\ \A k \in Messages : silverFiles'[k] = IF k = m THEN state ELSE silverFiles[k]
         /\ Silver \ {m} \subseteq Silver'
         /\ Silver' \subseteq Silver \union {m}
         /\ state = "whole" => m \in Silver'
<1>1. silverFiles \in [Messages -> {"absent", "torn", "whole"}]
  BY DEF TypeOK
<1>2. \A k \in Messages : silverFiles'[k] = IF k = m THEN state ELSE silverFiles[k]
  BY <1>1
<1>3. QED
  BY <1>1, <1>2 DEF Silver

LEMMA SilverIsTyped ==
  ASSUME TypeOK
  PROVE  Silver \subseteq Messages
BY DEF TypeOK, Silver

\* storage_retry leaves IcebergWriteError alone.
LEMMA SilverErrorsAreRaised == WriteError => Exit("failed")
BY DEF WriteError, IsRetried, Ancestors, RetriedTypes

-----------------------------------------------------------------------------
(* The initial states. *)

LEMMA SilverInit == Init => TypeOK /\ SilverInv
<1>1. SUFFICES ASSUME Init PROVE TypeOK /\ SilverInv
  OBVIOUS
<1>2. StorageTypeOK
  BY <1>1 DEF Init, StorageInit, StorageTypeOK, FileContent, NoContent
<1>3. /\ silverFiles = [m \in Messages |-> "absent"]
      /\ silverTable = <<>> /\ pc = "stopped" /\ tail = "whole"
      /\ unread = {} /\ todo = {} /\ seen = {} /\ buffer = {} /\ stable = {}
      /\ known = 0 /\ writing = <<>> /\ total = 0 /\ last = FALSE
      /\ changes = 0 /\ faults = 0 /\ blind = FALSE
  BY <1>1 DEF Init
<1>4. Len(silverTable) = 0 /\ silverTable \in Seq(SUBSET Messages)
  BY <1>3
<1>5. silverFiles \in [Messages -> {"absent", "torn", "whole"}]
  BY <1>3
<1>6. last \in BOOLEAN /\ blind \in BOOLEAN
  BY <1>3, Zenon
<1>7. TypeOK
  BY <1>2, <1>3, <1>4, <1>5, <1>6 DEF TypeOK
<1>8. LayerFollowsMode /\ SnapshotsDisjoint
  BY <1>3, <1>4 DEF LayerFollowsMode, SnapshotsDisjoint
<1>9. MemoryFollowsPc
  BY <1>3, Zenon DEF MemoryFollowsPc
<1>10. SkippedIsKept /\ LoadedIsKnown /\ ReadIsOnItsWay /\ DoneMeansComplete
  BY <1>3 DEF SkippedIsKept, LoadedIsKnown, ReadIsOnItsWay, DoneMeansComplete
<1>11. QED
  BY <1>7, <1>8, <1>9, <1>10 DEF SilverInv

-----------------------------------------------------------------------------
(* Steps of other processes. *)

\* Bronze changes under the pass: objects that change leave `stable', and the
\* snapshots that are there stay.
LEMMA BronzeStep ==
  ASSUME TypeOK, SilverInv, StorageTypeOK',
         UNCHANGED <<mode, silverVars, pc, memory, blind>>,
         changes' \in 0 .. MaxChanges, faults' \in 0 .. MaxFaults,
         stable' \subseteq stable,
         mode = "local" => \A n \in stable' : files'[n] = files[n],
         mode = "cloud" =>
           /\ Len(snapshots) <= Len(snapshots')
           /\ \A i \in 1 .. Len(snapshots) : snapshots'[i] = snapshots[i]
  PROVE  TypeOK' /\ SilverInv'
<1>1. mode \in {"local", "cloud"} /\ Len(snapshots) \in Nat /\ Len(snapshots') \in Nat
  BY DEF TypeOK, StorageTypeOK
<1>2. Objects \subseteq Objects'
  BY <1>1 DEF Objects
<1>3. TypeOK'
  BY <1>2 DEF TypeOK
<1>4. stable' \subseteq Objects
  BY DEF TypeOK
<1>5. \A n \in stable' : RowsOf(n)' = RowsOf(n)
  BY <1>1, <1>4 DEF RowsOf, Objects
<1>6. Silver' = Silver
  BY DEF Silver
<1>7. ReadIsOnItsWay' /\ DoneMeansComplete'
  BY <1>5, <1>6 DEF SilverInv, ReadIsOnItsWay, DoneMeansComplete
<1>8. LayerFollowsMode' /\ MemoryFollowsPc' /\ SkippedIsKept' /\ LoadedIsKnown'
      /\ SnapshotsDisjoint'
  BY <1>6 DEF SilverInv, LayerFollowsMode, MemoryFollowsPc, SkippedIsKept, LoadedIsKnown,
     SnapshotsDisjoint
<1>9. QED
  BY <1>3, <1>7, <1>8 DEF SilverInv

LEMMA BronzeChangesStep ==
  ASSUME TypeOK, SilverInv, BronzeChanges
  PROVE  TypeOK' /\ SilverInv'
<1>1. /\ UNCHANGED <<mode, silverVars, pc, memory, blind, faults>>
      /\ changes' \in 0 .. MaxChanges
      /\ faults \in 0 .. MaxFaults
  BY DEF BronzeChanges, Change, TypeOK
<1>2. files \in [Messages -> FileContent] /\ snapshots \in Seq(SUBSET Messages)
  BY DEF TypeOK, StorageTypeOK
<1>3. CASE mode = "local"
  <2>1. PICK n \in Messages, content \in FileContent :
          files' = [files EXCEPT ![n] = content] /\ stable' = stable \ {n}
    BY <1>3 DEF BronzeChanges
  <2>2. UNCHANGED snapshots
    BY <1>3 DEF BronzeChanges
  <2>3. files' \in [Messages -> FileContent]
    BY <1>2, <2>1
  <2>4. StorageTypeOK'
    BY <1>1, <2>2, <2>3 DEF TypeOK, StorageTypeOK
  <2>5. stable \subseteq Messages
    BY <1>3 DEF TypeOK, Objects
  <2>6. \A k \in stable' : files'[k] = files[k]
    BY <1>2, <2>1, <2>5
  <2>7. QED
    BY <1>1, <1>3, <2>1, <2>4, <2>6, BronzeStep
<1>4. CASE mode = "cloud"
  <2>1. PICK rows \in SUBSET Messages : snapshots' = Append(snapshots, rows)
    BY <1>4 DEF BronzeChanges
  <2>2. UNCHANGED <<files, stable>>
    BY <1>4 DEF BronzeChanges
  <2>3. /\ snapshots' \in Seq(SUBSET Messages)
        /\ Len(snapshots) <= Len(snapshots')
        /\ \A i \in 1 .. Len(snapshots) : snapshots'[i] = snapshots[i]
    BY <1>2, <2>1
  <2>4. StorageTypeOK'
    BY <1>1, <2>2, <2>3 DEF TypeOK, StorageTypeOK
  <2>5. QED
    BY <1>1, <1>4, <2>2, <2>3, <2>4, BronzeStep
<1>5. QED
  BY <1>3, <1>4 DEF TypeOK, StorageTypeOK

\* The records of a peer are new, so the snapshots stay disjoint.
LEMMA PeerAppendsStep ==
  ASSUME TypeOK, SilverInv, PeerAppends
  PROVE  TypeOK' /\ SilverInv'
<1>1. PICK rows \in SUBSET Messages :
        rows \intersect Silver = {} /\ silverTable' = Append(silverTable, rows)
  BY DEF PeerAppends, Stored
<1>2. /\ mode = "cloud"
      /\ UNCHANGED <<storageVars, silverFiles, pc, memory, faults, blind, stable>>
      /\ changes' \in 0 .. MaxChanges
  BY DEF PeerAppends, Change, TypeOK
<1>3. /\ silverTable' \in Seq(SUBSET Messages)
      /\ Len(silverTable) \in Nat
      /\ Len(silverTable') = Len(silverTable) + 1
      /\ \A i \in 1 .. Len(silverTable) : silverTable'[i] = silverTable[i]
      /\ silverTable'[Len(silverTable) + 1] = rows
      /\ Silver' = Silver \union rows
  BY <1>1, <1>2, TableGrows
<1>4. known \in 0 .. Len(silverTable)
  BY DEF TypeOK
<1>5. TypeOK'
  BY <1>2, <1>3, <1>4 DEF TypeOK, StorageTypeOK, Objects
<1>6. \A i \in 1 .. Len(silverTable) : silverTable[i] \subseteq Silver
  BY DEF Silver
<1>7. SnapshotsDisjoint'
  BY <1>1, <1>2, <1>3, <1>6 DEF SilverInv, SnapshotsDisjoint
<1>8. LoadedIsKnown'
  BY <1>2, <1>3, <1>4 DEF SilverInv, LoadedIsKnown
<1>9. \A n : RowsOf(n)' = RowsOf(n)
  BY <1>2 DEF RowsOf
<1>10. LayerFollowsMode' /\ MemoryFollowsPc' /\ SkippedIsKept' /\ ReadIsOnItsWay'
       /\ DoneMeansComplete'
  BY <1>2, <1>3, <1>9 DEF SilverInv, LayerFollowsMode, MemoryFollowsPc, SkippedIsKept,
     ReadIsOnItsWay, DoneMeansComplete
<1>11. QED
  BY <1>5, <1>7, <1>8, <1>10 DEF SilverInv

-----------------------------------------------------------------------------
(* Steps of the pass. *)

LEMMA StartStep ==
  ASSUME TypeOK, SilverInv, Start
  PROVE  TypeOK' /\ SilverInv'
<1>1. /\ pc \in {"stopped", "done", "failed"} /\ pc' = "starting"
      /\ stable' = unread'
      /\ UNCHANGED <<storageVars, silverVars, todo, tail, writerVars, loopVars,
                     changes, faults, blind>>
  BY DEF Start
<1>2. unread' \subseteq Objects'
  BY DEF Start, Objects
<1>3. TypeOK'
  BY <1>1, <1>2 DEF TypeOK, StorageTypeOK, Objects
<1>4. Silver' = Silver
  BY <1>1 DEF Silver
<1>5. MemoryFollowsPc'
  BY <1>1 DEF SilverInv, MemoryFollowsPc
<1>6. LayerFollowsMode' /\ SkippedIsKept' /\ LoadedIsKnown' /\ SnapshotsDisjoint'
      /\ ReadIsOnItsWay' /\ DoneMeansComplete'
  BY <1>1, <1>4 DEF SilverInv, LayerFollowsMode, SkippedIsKept, LoadedIsKnown,
     SnapshotsDisjoint, ReadIsOnItsWay, DoneMeansComplete
<1>7. QED
  BY <1>3, <1>5, <1>6 DEF SilverInv

\* With the keys loaded, the writer knows all of silver; without some of them, the
\* pass is blind.
LEMMA LoadKeysStep ==
  ASSUME TypeOK, SilverInv, LoadKeys \/ LoadKeysFails
  PROVE  TypeOK' /\ SilverInv'
<1>1. /\ pc = "starting" /\ pc' = "listing"
      /\ known' = Len(silverTable)
      /\ UNCHANGED <<storageVars, silverVars, readerVars, buffer, writing, loopVars,
                     changes, stable>>
  BY DEF LoadKeys, LoadKeysFails
<1>2. \/ seen' = Silver /\ blind' = blind /\ faults' = faults
      \/ seen' \subseteq Silver /\ blind' = TRUE /\ faults' \in 0 .. MaxFaults
  BY DEF LoadKeys, LoadKeysFails, Fault, TypeOK
<1>3. Silver' = Silver /\ Silver \subseteq Messages
  BY <1>1, SilverIsTyped DEF Silver
<1>4. buffer = {} /\ seen = {} /\ todo = {} /\ writing = <<>> /\ ~last
  BY <1>1 DEF SilverInv, MemoryFollowsPc
<1>5. TypeOK'
  <2>1. Len(silverTable) \in 0 .. Len(silverTable)
    BY DEF TypeOK
  <2>2. blind' \in BOOLEAN /\ faults' \in 0 .. MaxFaults /\ seen' \subseteq Messages
    BY <1>2, <1>3 DEF TypeOK
  <2>3. QED
    BY <1>1, <1>4, <2>1, <2>2 DEF TypeOK, StorageTypeOK, Objects
<1>6. LayerFollowsMode'
  BY <1>1 DEF SilverInv, LayerFollowsMode
<1>7. MemoryFollowsPc'
  BY <1>1, <1>4 DEF SilverInv, MemoryFollowsPc
<1>8. SkippedIsKept'
  BY <1>2, <1>3, <1>4 DEF SkippedIsKept
<1>9. LoadedIsKnown'
  BY <1>1, <1>2, <1>4, InSilver DEF LoadedIsKnown, SilverInv, LayerFollowsMode
<1>10. SnapshotsDisjoint'
  BY <1>1, <1>2 DEF SilverInv, SnapshotsDisjoint
<1>11. ReadIsOnItsWay' /\ DoneMeansComplete'
  BY <1>1, <1>3 DEF SilverInv, ReadIsOnItsWay, DoneMeansComplete, RowsOf
<1>12. QED
  BY <1>5, <1>6, <1>7, <1>8, <1>9, <1>10, <1>11 DEF SilverInv

LEMMA ListStep ==
  ASSUME TypeOK, SilverInv, ListFiles \/ ScanTable
  PROVE  TypeOK' /\ SilverInv'
<1>1. /\ pc = "listing" /\ pc' = "reading"
      /\ UNCHANGED <<storageVars, silverVars, todo, tail, writerVars, loopVars,
                     changes, faults, blind>>
  BY DEF ListFiles, ScanTable
<1>2. \/ mode = "local" /\ unread' \subseteq Messages /\ stable' = unread'
      \/ UNCHANGED <<unread, stable>>
  BY DEF ListFiles, ScanTable
<1>3. TypeOK'
  BY <1>1, <1>2 DEF TypeOK, StorageTypeOK, Objects
<1>4. Silver' = Silver
  BY <1>1 DEF Silver
<1>5. MemoryFollowsPc'
  BY <1>1 DEF SilverInv, MemoryFollowsPc
<1>6. LayerFollowsMode' /\ SkippedIsKept' /\ LoadedIsKnown' /\ SnapshotsDisjoint'
      /\ DoneMeansComplete'
  BY <1>1, <1>4 DEF SilverInv, LayerFollowsMode, SkippedIsKept, LoadedIsKnown,
     SnapshotsDisjoint, DoneMeansComplete
<1>7. ReadIsOnItsWay'
  BY <1>1, <1>2, <1>4 DEF SilverInv, ReadIsOnItsWay, RowsOf
<1>8. QED
  BY <1>3, <1>5, <1>6, <1>7 DEF SilverInv

LEMMA OpenObjectStep ==
  ASSUME TypeOK, SilverInv, OpenObject
  PROVE  TypeOK' /\ SilverInv'
<1>1. PICK n \in unread :
        unread' = unread \ {n} /\ todo' = RowsOf(n) /\ tail' = TailOf(n)
  BY DEF OpenObject
<1>2. /\ pc = "reading" /\ todo = {}
      /\ UNCHANGED <<storageVars, silverVars, pc, writerVars, loopVars, history>>
  BY DEF OpenObject, Reading
<1>3. RowsOf(n) \subseteq Messages /\ TailOf(n) \in {"whole", "torn"}
  <2>1. n \in Objects
    BY DEF TypeOK
  <2>2. QED
    BY <2>1 DEF TypeOK, StorageTypeOK, Objects, RowsOf, TailOf, FileContent
<1>4. TypeOK'
  BY <1>1, <1>2, <1>3 DEF TypeOK, StorageTypeOK, Objects
<1>5. Silver' = Silver
  BY <1>2 DEF Silver
<1>6. MemoryFollowsPc'
  BY <1>1, <1>2 DEF SilverInv, MemoryFollowsPc
<1>7. LayerFollowsMode' /\ SkippedIsKept' /\ LoadedIsKnown' /\ SnapshotsDisjoint'
      /\ DoneMeansComplete'
  BY <1>2, <1>5 DEF SilverInv, LayerFollowsMode, SkippedIsKept, LoadedIsKnown,
     SnapshotsDisjoint, DoneMeansComplete
<1>8. ReadIsOnItsWay'
  BY <1>1, <1>2, <1>5 DEF SilverInv, ReadIsOnItsWay, RowsOf
<1>9. QED
  BY <1>4, <1>6, <1>7, <1>8 DEF SilverInv

\* A skipped row is in silver or in the buffer already.
LEMMA MergeRowStep ==
  ASSUME TypeOK, SilverInv, MergeRow
  PROVE  TypeOK' /\ SilverInv'
<1>1. PICK m \in todo :
        /\ todo' = todo \ {m}
        /\ seen' = seen \union {m}
        /\ buffer' = IF m \in seen THEN buffer ELSE buffer \union {m}
  BY DEF MergeRow, Merge
<1>2. /\ pc = "reading" /\ pc' \in {"reading", "flushing"}
      /\ total' = total + 1
      /\ UNCHANGED <<storageVars, silverVars, unread, tail, known, writing, last, history>>
  BY DEF MergeRow, Merge
<1>3. m \in Messages /\ buffer \subseteq seen
  BY DEF TypeOK
<1>4. TypeOK'
  BY <1>1, <1>2, <1>3 DEF TypeOK, StorageTypeOK, Objects
<1>5. Silver' = Silver
  BY <1>2 DEF Silver
<1>6. MemoryFollowsPc'
  BY <1>2 DEF SilverInv, MemoryFollowsPc
<1>7. LayerFollowsMode' /\ SnapshotsDisjoint' /\ DoneMeansComplete'
  BY <1>2, <1>5 DEF SilverInv, LayerFollowsMode, SnapshotsDisjoint, DoneMeansComplete
<1>8. SkippedIsKept'
  BY <1>1, <1>5 DEF SilverInv, SkippedIsKept
<1>9. LoadedIsKnown'
  BY <1>1, <1>2 DEF SilverInv, LoadedIsKnown
<1>10. ReadIsOnItsWay'
  BY <1>1, <1>2, <1>5 DEF SilverInv, SkippedIsKept, ReadIsOnItsWay, RowsOf
<1>11. QED
  BY <1>4, <1>6, <1>7, <1>8, <1>9, <1>10 DEF SilverInv

LEMMA EndOfBronzeStep ==
  ASSUME TypeOK, SilverInv, EndOfBronze
  PROVE  TypeOK' /\ SilverInv'
<1>1. /\ pc = "reading" /\ pc' = "flushing"
      /\ todo = {} /\ unread = {} /\ last' = TRUE
      /\ UNCHANGED <<storageVars, silverVars, readerVars, writerVars, total, history>>
  BY DEF EndOfBronze, Reading
<1>2. TypeOK'
  BY <1>1 DEF TypeOK, StorageTypeOK, Objects
<1>3. Silver' = Silver
  BY <1>1 DEF Silver
<1>4. MemoryFollowsPc'
  BY <1>1 DEF SilverInv, MemoryFollowsPc
<1>5. LayerFollowsMode' /\ SkippedIsKept' /\ LoadedIsKnown' /\ SnapshotsDisjoint'
      /\ ReadIsOnItsWay' /\ DoneMeansComplete'
  BY <1>1, <1>3 DEF SilverInv, LayerFollowsMode, SkippedIsKept, LoadedIsKnown,
     SnapshotsDisjoint, ReadIsOnItsWay, DoneMeansComplete, RowsOf
<1>6. QED
  BY <1>2, <1>4, <1>5 DEF SilverInv

-----------------------------------------------------------------------------
(* The flush and the end of the process. *)

\* A step that ends the process, or starts its life over, and leaves storage alone.
LEMMA ExitStep ==
  ASSUME TypeOK, SilverInv, Exit("failed"),
         UNCHANGED <<storageVars, silverVars, changes, blind, stable>>,
         faults' \in 0 .. MaxFaults
  PROVE  TypeOK' /\ SilverInv'
<1>1. /\ pc' = "failed" /\ tail' = "whole" /\ unread' = {} /\ todo' = {}
      /\ seen' = {} /\ buffer' = {} /\ known' = 0 /\ writing' = <<>>
      /\ total' = 0 /\ last' = FALSE
  BY DEF Exit
<1>2. 0 \in 0 .. Len(silverTable)
  BY DEF TypeOK
<1>3. TypeOK'
  BY <1>1, <1>2 DEF TypeOK, StorageTypeOK, Objects
<1>4. MemoryFollowsPc'
  BY <1>1, Zenon DEF MemoryFollowsPc
<1>5. LayerFollowsMode' /\ SkippedIsKept' /\ LoadedIsKnown' /\ SnapshotsDisjoint'
      /\ ReadIsOnItsWay' /\ DoneMeansComplete'
  BY <1>1 DEF SilverInv, LayerFollowsMode, SkippedIsKept, LoadedIsKnown,
     SnapshotsDisjoint, ReadIsOnItsWay, DoneMeansComplete
<1>6. QED
  BY <1>3, <1>4, <1>5 DEF SilverInv

LEMMA GivesUpStep ==
  ASSUME TypeOK, SilverInv, TornLine \/ Overflow \/ AppendConflicts \/ Crash
  PROVE  TypeOK' /\ SilverInv'
<1>1. Exit("failed") /\ UNCHANGED <<storageVars, silverVars, changes, blind, stable>>
  BY SilverErrorsAreRaised DEF TornLine, Overflow, AppendConflicts, Crash
<1>2. faults' \in 0 .. MaxFaults
  BY DEF TornLine, Overflow, AppendConflicts, Crash, Fault, TypeOK
<1>3. QED
  BY <1>1, <1>2, ExitStep

\* The last flush has left nothing to read, nothing to merge and nothing to write.
LEMMA FlushReturnsStep ==
  ASSUME TypeOK, SilverInv, FlushReturns
  PROVE  TypeOK' /\ SilverInv'
<1>1. /\ pc = "flushing" /\ buffer = {}
      /\ UNCHANGED <<storageVars, silverVars, history>>
  BY DEF FlushReturns
<1>2. Silver' = Silver
  BY <1>1 DEF Silver
<1>3. CASE ~last
  <2>1. pc' = "reading" /\ UNCHANGED memory
    BY <1>3 DEF FlushReturns
  <2>2. writing = <<>>
    BY <1>1 DEF TypeOK
  <2>3. TypeOK'
    BY <1>1, <2>1 DEF TypeOK, StorageTypeOK, Objects
  <2>4. MemoryFollowsPc'
    BY <1>3, <2>1, <2>2 DEF SilverInv, MemoryFollowsPc
  <2>5. LayerFollowsMode' /\ SkippedIsKept' /\ LoadedIsKnown' /\ SnapshotsDisjoint'
        /\ ReadIsOnItsWay' /\ DoneMeansComplete'
    BY <1>1, <1>2, <2>1 DEF SilverInv, LayerFollowsMode, SkippedIsKept, LoadedIsKnown,
       SnapshotsDisjoint, ReadIsOnItsWay, DoneMeansComplete, RowsOf
  <2>6. QED
    BY <2>3, <2>4, <2>5 DEF SilverInv
<1>4. CASE last
  <2>1. /\ pc' = "done" /\ tail' = "whole" /\ unread' = {} /\ todo' = {}
        /\ seen' = {} /\ buffer' = {} /\ known' = 0 /\ writing' = <<>>
        /\ total' = 0 /\ last' = FALSE
    BY <1>4 DEF FlushReturns, Exit
  <2>2. 0 \in 0 .. Len(silverTable)
    BY DEF TypeOK
  <2>3. TypeOK'
    BY <1>1, <2>1, <2>2 DEF TypeOK, StorageTypeOK, Objects
  <2>4. MemoryFollowsPc'
    BY <2>1, Zenon DEF MemoryFollowsPc
  <2>5. LayerFollowsMode' /\ SkippedIsKept' /\ LoadedIsKnown' /\ SnapshotsDisjoint'
        /\ ReadIsOnItsWay'
    BY <1>1, <2>1 DEF SilverInv, LayerFollowsMode, SkippedIsKept, LoadedIsKnown,
       SnapshotsDisjoint, ReadIsOnItsWay
  <2>6. \A n \in stable : RowsOf(n) \subseteq Silver
    BY <1>1, <1>4 DEF SilverInv, ReadIsOnItsWay, MemoryFollowsPc
  <2>7. DoneMeansComplete'
    BY <1>1, <1>2, <2>6 DEF DoneMeansComplete, RowsOf
  <2>8. QED
    BY <2>3, <2>4, <2>5, <2>7 DEF SilverInv
<1>5. QED
  BY <1>3, <1>4 DEF TypeOK

\* Reopening a record's file can cut it off, but the record is buffered.
LEMMA OpenSilverFileStep ==
  ASSUME TypeOK, SilverInv, OpenSilverFile
  PROVE  TypeOK' /\ SilverInv'
<1>1. PICK m \in buffer :
        silverFiles' = [silverFiles EXCEPT ![m] = "torn"] /\ writing' = m
  BY DEF OpenSilverFile
<1>2. /\ pc = "flushing" /\ mode = "local"
      /\ UNCHANGED <<storageVars, silverTable, pc, readerVars, seen, known, buffer, loopVars,
                     history>>
  BY DEF OpenSilverFile
<1>3. m \in Messages
  BY DEF TypeOK
<1>4. /\ silverFiles' \in [Messages -> {"absent", "torn", "whole"}]
      /\ \A k \in Messages : silverFiles'[k] = IF k = m THEN "torn" ELSE silverFiles[k]
      /\ Silver \ {m} \subseteq Silver'
  BY <1>1, <1>2, <1>3, FileChanges
<1>5. TypeOK'
  BY <1>1, <1>2, <1>4 DEF TypeOK, StorageTypeOK, Objects
<1>6. LayerFollowsMode' /\ MemoryFollowsPc' /\ SnapshotsDisjoint'
  BY <1>1, <1>2, <1>3, <1>4 DEF SilverInv, LayerFollowsMode, MemoryFollowsPc, SnapshotsDisjoint
<1>7. SkippedIsKept'
  BY <1>2, <1>4 DEF SilverInv, SkippedIsKept
<1>8. LoadedIsKnown'
  BY <1>2, <1>4 DEF SilverInv, LoadedIsKnown
<1>9. ReadIsOnItsWay' /\ DoneMeansComplete'
  BY <1>2, <1>4 DEF SilverInv, ReadIsOnItsWay, DoneMeansComplete, RowsOf
<1>10. QED
  BY <1>5, <1>6, <1>7, <1>8, <1>9 DEF SilverInv

LEMMA CloseSilverFileStep ==
  ASSUME TypeOK, SilverInv, CloseSilverFile
  PROVE  TypeOK' /\ SilverInv'
<1>1. /\ pc = "flushing" /\ writing # <<>>
      /\ silverFiles' = [silverFiles EXCEPT ![writing] = "whole"]
      /\ buffer' = buffer \ {writing} /\ writing' = <<>>
      /\ UNCHANGED <<storageVars, silverTable, pc, readerVars, seen, known, loopVars, history>>
  BY DEF CloseSilverFile
<1>2. writing \in buffer /\ writing \in seen /\ writing \in Messages /\ mode = "local"
  BY <1>1 DEF TypeOK, SilverInv, MemoryFollowsPc
<1>3. /\ silverFiles' \in [Messages -> {"absent", "torn", "whole"}]
      /\ \A k \in Messages : silverFiles'[k] = IF k = writing THEN "whole" ELSE silverFiles[k]
      /\ Silver \ {writing} \subseteq Silver'
      /\ writing \in Silver'
  BY <1>1, <1>2, FileChanges
<1>4. TypeOK'
  BY <1>1, <1>3 DEF TypeOK, StorageTypeOK, Objects
<1>5. LayerFollowsMode' /\ MemoryFollowsPc' /\ SnapshotsDisjoint'
  BY <1>1, <1>2 DEF SilverInv, LayerFollowsMode, MemoryFollowsPc, SnapshotsDisjoint
<1>6. SkippedIsKept'
  BY <1>1, <1>3 DEF SilverInv, SkippedIsKept
<1>7. LoadedIsKnown'
  BY <1>1, <1>2, <1>3 DEF SilverInv, LoadedIsKnown
<1>8. ReadIsOnItsWay' /\ DoneMeansComplete'
  BY <1>1, <1>3 DEF SilverInv, ReadIsOnItsWay, DoneMeansComplete, RowsOf
<1>9. QED
  BY <1>4, <1>5, <1>6, <1>7, <1>8 DEF SilverInv

\* A commit that the catalog accepts is on top of the snapshots the writer knows,
\* which have no record in common with its buffer.
LEMMA CommitIsNew ==
  ASSUME TypeOK, SilverInv, Appending, known = Len(silverTable),
         silverTable' = Append(silverTable, buffer),
         UNCHANGED <<mode, silverFiles, blind>>
  PROVE  /\ silverTable' \in Seq(SUBSET Messages)
         /\ Len(silverTable) \in Nat
         /\ Len(silverTable') = Len(silverTable) + 1
         /\ \A i \in 1 .. Len(silverTable) : silverTable'[i] = silverTable[i]
         /\ silverTable'[Len(silverTable) + 1] = buffer
         /\ Silver' = Silver \union buffer
         /\ LayerFollowsMode' /\ SnapshotsDisjoint'
<1>1. buffer \in SUBSET Messages
  BY DEF TypeOK
<1>2. /\ silverTable' \in Seq(SUBSET Messages)
      /\ Len(silverTable) \in Nat
      /\ Len(silverTable') = Len(silverTable) + 1
      /\ \A i \in 1 .. Len(silverTable) : silverTable'[i] = silverTable[i]
      /\ silverTable'[Len(silverTable) + 1] = buffer
      /\ Silver' = Silver \union buffer
  BY <1>1, TableGrows
<1>3. ~blind => \A i \in 1 .. Len(silverTable) : silverTable[i] \intersect buffer = {}
  BY DEF Appending, SilverInv, LoadedIsKnown
<1>4. LayerFollowsMode'
  BY DEF Appending, SilverInv, LayerFollowsMode
<1>5. SnapshotsDisjoint'
  BY <1>2, <1>3 DEF SilverInv, SnapshotsDisjoint
<1>6. QED
  BY <1>2, <1>4, <1>5

LEMMA AppendSilverStep ==
  ASSUME TypeOK, SilverInv, AppendSilver
  PROVE  TypeOK' /\ SilverInv'
<1>1. /\ Appending /\ mode = "cloud" /\ pc = "flushing"
      /\ known = Len(silverTable) /\ known' = known + 1
      /\ silverTable' = Append(silverTable, buffer) /\ buffer' = {}
      /\ UNCHANGED <<storageVars, silverFiles, pc, readerVars, seen, writing, loopVars, history>>
  BY DEF AppendSilver, Commit, Appending
<1>2. /\ silverTable' \in Seq(SUBSET Messages)
      /\ Len(silverTable) \in Nat
      /\ Len(silverTable') = Len(silverTable) + 1
      /\ \A i \in 1 .. Len(silverTable) : silverTable'[i] = silverTable[i]
      /\ silverTable'[Len(silverTable) + 1] = buffer
      /\ Silver' = Silver \union buffer
      /\ LayerFollowsMode' /\ SnapshotsDisjoint'
  BY <1>1, CommitIsNew
<1>3. writing = <<>> /\ buffer \subseteq seen
  BY <1>1 DEF TypeOK, SilverInv, MemoryFollowsPc
<1>4. TypeOK'
  BY <1>1, <1>2, <1>3 DEF TypeOK, StorageTypeOK, Objects
<1>5. MemoryFollowsPc'
  BY <1>1 DEF SilverInv, MemoryFollowsPc
<1>6. SkippedIsKept' /\ ReadIsOnItsWay' /\ DoneMeansComplete'
  BY <1>1, <1>2 DEF SilverInv, SkippedIsKept, ReadIsOnItsWay, DoneMeansComplete, RowsOf
<1>7. LoadedIsKnown'
  BY <1>1, <1>2, <1>3 DEF SilverInv, LoadedIsKnown
<1>8. QED
  BY <1>2, <1>4, <1>5, <1>6, <1>7 DEF SilverInv

\* An append that raises after its commit leaves what one that returns leaves; the
\* process ends and forgets.
LEMMA FlushFailsStep ==
  ASSUME TypeOK, SilverInv, FlushFails
  PROVE  TypeOK' /\ SilverInv'
<1>1. /\ Exit("failed")
      /\ UNCHANGED <<storageVars, silverFiles, changes, blind, stable>>
      /\ faults' \in 0 .. MaxFaults
  BY SilverErrorsAreRaised DEF FlushFails, Fault, TypeOK
<1>2. CASE UNCHANGED silverTable
  BY <1>1, <1>2, ExitStep
<1>3. CASE Appending /\ known = Len(silverTable) /\ silverTable' = Append(silverTable, buffer)
  <2>1. /\ silverTable' \in Seq(SUBSET Messages)
        /\ 0 \in 0 .. Len(silverTable')
        /\ LayerFollowsMode' /\ SnapshotsDisjoint'
    BY <1>1, <1>3, CommitIsNew
  <2>2. /\ pc' = "failed" /\ tail' = "whole" /\ unread' = {} /\ todo' = {}
        /\ seen' = {} /\ buffer' = {} /\ known' = 0 /\ writing' = <<>>
        /\ total' = 0 /\ last' = FALSE
    BY <1>1 DEF Exit
  <2>3. TypeOK'
    BY <1>1, <2>1, <2>2 DEF TypeOK, StorageTypeOK, Objects
  <2>4. MemoryFollowsPc'
    BY <2>2, Zenon DEF MemoryFollowsPc
  <2>5. SkippedIsKept' /\ LoadedIsKnown' /\ ReadIsOnItsWay' /\ DoneMeansComplete'
    BY <2>2 DEF SkippedIsKept, LoadedIsKnown, ReadIsOnItsWay, DoneMeansComplete
  <2>6. QED
    BY <2>1, <2>3, <2>4, <2>5 DEF SilverInv
<1>4. QED
  BY <1>2, <1>3 DEF FlushFails

-----------------------------------------------------------------------------
(* The theorems. *)

\* The steps of the process itself, whoever else takes steps.
LEMMA PassStep ==
  ASSUME TypeOK, SilverInv, Progress \/ Failure
  PROVE  TypeOK' /\ SilverInv'
BY StartStep, LoadKeysStep, ListStep, OpenObjectStep, MergeRowStep, GivesUpStep,
   EndOfBronzeStep, FlushReturnsStep, OpenSilverFileStep, CloseSilverFileStep,
   AppendSilverStep, FlushFailsStep DEF Progress, Failure

LEMMA SilverStep == TypeOK /\ SilverInv /\ [Next]_vars => TypeOK' /\ SilverInv'
<1>1. SUFFICES ASSUME TypeOK, SilverInv, [Next]_vars PROVE TypeOK' /\ SilverInv'
  OBVIOUS
<1>2. CASE Next
  BY <1>1, <1>2, BronzeChangesStep, PeerAppendsStep, PassStep DEF Next
<1>3. CASE UNCHANGED vars
  <2>1. /\ UNCHANGED <<mode, silverVars, pc, memory, blind, stable, changes, faults>>
        /\ UNCHANGED <<files, snapshots>>
    BY <1>3 DEF vars
  <2>2. StorageTypeOK' /\ changes' \in 0 .. MaxChanges /\ faults' \in 0 .. MaxFaults
    BY <1>1, <2>1 DEF TypeOK, StorageTypeOK
  <2>3. Len(snapshots) <= Len(snapshots)
    BY <1>1 DEF TypeOK, StorageTypeOK
  <2>4. QED
    BY <1>1, <2>1, <2>2, <2>3, BronzeStep
<1>4. QED
  BY <1>1, <1>2, <1>3

\* Every variable of the transformer keeps its type.
THEOREM TypeCorrect == Spec => []TypeOK
BY SilverInit, SilverStep, PTL DEF Spec

\* The inductive invariant holds in every reachable state.
THEOREM SilverInvHolds == Spec => []SilverInv
BY SilverInit, SilverStep, PTL DEF Spec

\* A pass that ends normally has left none of the rows behind that were in bronze
\* when it began and are still there unchanged, whatever crashed, conflicted or
\* was cut off in earlier passes (services/transformer_silver/app.py:30-58).
THEOREM DonePassesAreComplete == Spec => []DoneMeansComplete
<1>1. SilverInv => DoneMeansComplete
  BY DEF SilverInv
<1>2. QED
  BY <1>1, SilverInvHolds, PTL

\* When no two snapshots have a record in common, each is in one at most.
LEMMA DisjointMeansOnce ==
  ASSUME TypeOK, SnapshotsDisjoint, ~blind, NEW m \in Messages
  PROVE  SilverCopies(m) \in {0, 1}
<1> DEFINE where == {i \in 1 .. Len(silverTable) : m \in silverTable[i]}
<1>1. CASE where = {}
  BY <1>1, FS_EmptySet DEF SilverCopies
<1>2. ASSUME NEW i \in where
      PROVE  SilverCopies(m) = 1
  <2>1. where = {i}
    BY DEF SnapshotsDisjoint
  <2>2. QED
    BY <2>1, FS_Singleton DEF SilverCopies
<1>3. QED
  BY <1>1, <1>2

\* As long as every pass has loaded the keys of silver, no message is in the silver
\* table twice, with any number of transformers, conflicts, crashes and appends
\* whose outcome is not known (ADR-004:30).
THEOREM KnownKeysDeduplicate == Spec => []DeduplicatedWhenKeysAreKnown
<1>1. TypeOK /\ SilverInv => DeduplicatedWhenKeysAreKnown
  BY DisjointMeansOnce DEF SilverInv, DeduplicatedWhenKeysAreKnown
<1>2. QED
  BY <1>1, TypeCorrect, SilverInvHolds, PTL

\* Every record of silver carries the margin of its sale, whatever its amounts.
THEOREM SilverMarginsAreExact == Spec => []MarginsAreExact
<1>1. TypeOK => MarginsAreExact
  <2>1. SUFFICES ASSUME TypeOK, NEW m \in Silver
                 PROVE  LET profit == Amounts[m]["total_profit"]
                            revenue == Amounts[m]["total_revenue"]
                            margin == MarginPct(profit, revenue)
                        IN  IF revenue = 0 THEN margin = 0 ELSE IsNearest(margin, profit, revenue)
    BY DEF MarginsAreExact
  <2>2. m \in Messages
    BY <2>1, SilverIsTyped
  <2>3. Amounts[m]["total_profit"] \in Int /\ Amounts[m]["total_revenue"] \in Int
    BY <2>2 DEF AmountColumns
  <2> DEFINE profit == Amounts[m]["total_profit"]
             revenue == Amounts[m]["total_revenue"]
  <2> HIDE DEF profit, revenue
  <2>4. revenue # 0 => IsNearest(MarginPct(profit, revenue), profit, revenue)
    BY <2>3, MarginIsExact DEF profit, revenue
  <2>5. revenue = 0 => MarginPct(profit, revenue) = 0
    BY DEF MarginPct
  <2>6. QED
    BY <2>4, <2>5 DEF profit, revenue
<1>2. QED
  BY <1>1, TypeCorrect, PTL

\* A step takes no record out of silver while the keys are known: only the file of a
\* record that is not there is opened, and snapshots are only added.
LEMMA SilverGrows ==
  ASSUME TypeOK, SilverInv, [Next]_vars, mode = "cloud" \/ ~blind
  PROVE  Silver \subseteq Silver'
<1>1. CASE UNCHANGED silverVars
  BY <1>1 DEF Silver
<1>2. ASSUME NEW rows \in SUBSET Messages, UNCHANGED silverFiles,
             silverTable' = Append(silverTable, rows)
      PROVE  Silver \subseteq Silver'
  BY <1>2, TableGrows
<1>3. CASE PeerAppends
  <2>1. Stored \subseteq Messages
    BY DEF Stored
  <2>2. QED
    BY <1>2, <1>3, <2>1 DEF PeerAppends, Change
<1>4. CASE AppendSilver \/ FlushFails
  <2>1. buffer \in SUBSET Messages
    BY DEF TypeOK
  <2>2. QED
    BY <1>1, <1>2, <1>4, <2>1 DEF AppendSilver, Commit, FlushFails
<1>5. CASE OpenSilverFile
  <2>1. PICK k \in buffer : silverFiles' = [silverFiles EXCEPT ![k] = "torn"]
    BY <1>5 DEF OpenSilverFile
  <2>2. mode = "local" /\ ~blind /\ pc = "flushing" /\ k \in Messages /\ UNCHANGED silverTable
    BY <1>5 DEF OpenSilverFile, TypeOK
  <2>3. k \notin Silver
    BY <2>2 DEF SilverInv, LayerFollowsMode, LoadedIsKnown, Silver
  <2>4. QED
    BY <2>1, <2>2, <2>3, FileChanges
<1>6. CASE CloseSilverFile
  <2>1. /\ writing # <<>> /\ UNCHANGED silverTable
        /\ silverFiles' = [silverFiles EXCEPT ![writing] = "whole"]
    BY <1>6 DEF CloseSilverFile
  <2>2. writing \in Messages
    BY <2>1 DEF TypeOK
  <2>3. QED
    BY <2>1, <2>2, FileChanges
<1>7. CASE \/ BronzeChanges \/ Start \/ LoadKeys \/ LoadKeysFails \/ ListFiles \/ ScanTable
           \/ OpenObject \/ MergeRow \/ TornLine \/ EndOfBronze \/ FlushReturns
           \/ AppendConflicts \/ Overflow \/ Crash \/ UNCHANGED vars
  BY <1>1, <1>7 DEF BronzeChanges, Change, Start, LoadKeys, LoadKeysFails, ListFiles,
     ScanTable, OpenObject, MergeRow, TornLine, EndOfBronze, FlushReturns, AppendConflicts,
     Overflow, Crash, vars
<1>8. QED
  BY <1>3, <1>4, <1>5, <1>6, <1>7 DEF Next, Progress, Failure

\* What is in silver stays there while every local pass has read all the keys,
\* through redeliveries, failed writes, crashes and appends of other tasks.
THEOREM RecordsAreKept == Spec => SilverIsKept
<1>1. TypeOK /\ SilverInv /\ [Next]_vars
        => [mode = "cloud" \/ ~blind => Silver \subseteq Silver']_vars
  BY SilverGrows
<1>2. QED
  BY <1>1, TypeCorrect, SilverInvHolds, PTL DEF Spec, SilverIsKept

-----------------------------------------------------------------------------
(* What a step of the pass looks like from outside.                          *)

LEMMA PassReadsBronze ==
  ASSUME Progress \/ Failure
  PROVE  UNCHANGED storageVars
BY DEF Progress, Failure, Start, LoadKeys, LoadKeysFails, ListFiles, ScanTable, OpenObject,
   MergeRow, TornLine, EndOfBronze, FlushReturns, OpenSilverFile, CloseSilverFile,
   AppendSilver, AppendConflicts, Overflow, FlushFails, Crash

\* Only rows of bronze get into the buffer.
LEMMA RowsComeFromBronze ==
  ASSUME TypeOK, Progress \/ Failure, NEW rows,
         todo \subseteq rows, buffer \subseteq rows, \A n \in Objects : RowsOf(n) \subseteq rows
  PROVE  todo' \subseteq rows /\ buffer' \subseteq rows
<1>1. CASE OpenObject
  BY <1>1 DEF OpenObject, TypeOK
<1>2. CASE MergeRow
  BY <1>2 DEF MergeRow, Merge
<1>3. CASE CloseSilverFile
  BY <1>3 DEF CloseSilverFile
<1>4. CASE \/ Start \/ LoadKeys \/ LoadKeysFails \/ ListFiles \/ ScanTable \/ EndOfBronze
           \/ OpenSilverFile \/ AppendSilver
  BY <1>4 DEF Start, LoadKeys, LoadKeysFails, ListFiles, ScanTable, EndOfBronze,
     OpenSilverFile, AppendSilver
<1>5. CASE \/ TornLine \/ FlushReturns \/ AppendConflicts \/ Overflow \/ FlushFails \/ Crash
  BY <1>5, SilverErrorsAreRaised DEF TornLine, FlushReturns, AppendConflicts, Overflow,
     FlushFails, Crash, Exit
<1>6. QED
  BY <1>1, <1>2, <1>3, <1>4, <1>5 DEF Progress, Failure

\* Once it has listed bronze, a pass keeps to that listing until it ends.
LEMMA PassKeepsItsListing ==
  ASSUME Progress \/ Failure, ~Start
  PROVE  \/ pc' = "failed"
         \/ /\ mode = "local" /\ pc = "listing" /\ pc' = "reading"
            /\ {n \in Messages : files[n] # NoContent} \subseteq stable'
         \/ /\ stable' = stable
            /\ pc \notin {"stopped", "failed"}
            /\ pc' \in {"reading", "flushing", "done"} =>
                  mode = "cloud" \/ pc \in {"reading", "flushing", "done"}
<1>1. CASE ListFiles
  BY <1>1 DEF ListFiles
<1>2. CASE \/ LoadKeys \/ LoadKeysFails \/ ScanTable \/ OpenObject \/ MergeRow \/ EndOfBronze
           \/ OpenSilverFile \/ CloseSilverFile \/ AppendSilver
  BY <1>2 DEF LoadKeys, LoadKeysFails, ScanTable, OpenObject, Reading, MergeRow, EndOfBronze,
     OpenSilverFile, CloseSilverFile, AppendSilver, Appending
<1>3. CASE FlushReturns
  BY <1>3 DEF FlushReturns, Exit
<1>4. CASE TornLine \/ AppendConflicts \/ Overflow \/ FlushFails \/ Crash
  BY <1>4, SilverErrorsAreRaised DEF TornLine, AppendConflicts, Overflow, FlushFails, Crash,
     Exit
<1>5. QED
  BY <1>1, <1>2, <1>3, <1>4 DEF Progress, Failure

\* The snapshots a row is in, before and after an append.
LEMMA AppendCounts ==
  ASSUME TypeOK, TypeOK', NEW rows \in SUBSET Messages, UNCHANGED silverFiles,
         silverTable' = Append(silverTable, rows), NEW m \in Messages
  PROVE  /\ SilverCopies(m) \in Nat
         /\ SilverCopies(m)' = IF m \in rows THEN SilverCopies(m) + 1 ELSE SilverCopies(m)
<1> DEFINE top == Len(silverTable) + 1
           where == {i \in 1 .. Len(silverTable) : m \in silverTable[i]}
           where2 == {i \in 1 .. Len(silverTable') : m \in silverTable'[i]}
<1>1. /\ Len(silverTable) \in Nat
      /\ Len(silverTable') = Len(silverTable) + 1
      /\ \A i \in 1 .. Len(silverTable) : silverTable'[i] = silverTable[i]
      /\ silverTable'[Len(silverTable) + 1] = rows
  BY TableGrows
<1>2. IsFiniteSet(1 .. Len(silverTable))
  <2>1. \A a, b \in Int : IsFiniteSet(a .. b)
    BY FS_Interval
  <2>2. QED
    BY <1>1, <2>1
<1>3. IsFiniteSet(where) /\ Cardinality(where) \in Nat
  <2>1. where \in SUBSET (1 .. Len(silverTable))
    OBVIOUS
  <2>2. IsFiniteSet(where)
    BY <1>2, <2>1, FS_Subset
  <2>3. QED
    BY <2>2, FS_CardinalityType
<1>4. where2 = IF m \in rows THEN where \union {top} ELSE where
  BY <1>1
<1>5. top \notin where
  BY <1>1
<1>6. SilverCopies(m) = Cardinality(where) /\ SilverCopies(m)' = Cardinality(where2)
  BY DEF SilverCopies
<1> HIDE DEF where, where2, top
<1>7. Cardinality(where \union {top}) = Cardinality(where) + 1
  BY <1>3, <1>5, FS_AddElement
<1>8. QED
  BY <1>3, <1>4, <1>6, <1>7

\* Rows that a writer which knows the keys of silver has buffered are not in silver.
LEMMA BufferedIsNew ==
  ASSUME TypeOK, SilverInv, pc = "flushing", ~blind, known = Len(silverTable),
         mode = "cloud", NEW m \in buffer
  PROVE  SilverCopies(m) = 0
<1>1. {i \in 1 .. Len(silverTable) : m \in silverTable[i]} = {}
  BY DEF SilverInv, LoadedIsKnown
<1>2. QED
  BY <1>1, FS_EmptySet DEF SilverCopies

\* A step of the pass adds one record for some buffered rows, which have none yet
\* unless a pass has lost keys; or it loses keys; or, having lost some, it opens the
\* file of a record again.
LEMMA PassCurates ==
  ASSUME TypeOK, TypeOK', SilverInv, Progress \/ Failure
  PROVE  \/ /\ blind' = blind
            /\ \E rows \in SUBSET buffer :
                  /\ blind \/ \A m \in rows : RecordsOf(m) = 0
                  /\ \A m \in Messages :
                        RecordsOf(m)' = IF m \in rows THEN RecordsOf(m) + 1 ELSE RecordsOf(m)
         \/ blind' = TRUE /\ \A m \in Messages : RecordsOf(m)' = RecordsOf(m)
         \/ /\ blind /\ blind' = blind
            /\ \E k \in buffer :
                  /\ RecordsOf(k) = 1
                  /\ \A m \in Messages : RecordsOf(m)' = IF m = k THEN 0 ELSE RecordsOf(m)
<1> DEFINE Curates ==
             \E rows \in SUBSET buffer :
                 /\ blind \/ \A m \in rows : RecordsOf(m) = 0
                 /\ \A m \in Messages :
                       RecordsOf(m)' = IF m \in rows THEN RecordsOf(m) + 1 ELSE RecordsOf(m)
           Reopens ==
             \E k \in buffer :
                 /\ RecordsOf(k) = 1
                 /\ \A m \in Messages : RecordsOf(m)' = IF m = k THEN 0 ELSE RecordsOf(m)
<1>1. mode' = mode
  BY PassReadsBronze
<1>2. ASSUME UNCHANGED silverVars, blind' = blind
      PROVE  Curates
  <2>1. \A m \in Messages : RecordsOf(m)' = RecordsOf(m)
    BY <1>1, <1>2 DEF RecordsOf, SilverCopies
  <2>2. WITNESS {} \in SUBSET buffer
  <2>3. QED
    BY <2>1
<1>3. ASSUME Appending, known = Len(silverTable), silverTable' = Append(silverTable, buffer),
             UNCHANGED <<silverFiles, blind>>
      PROVE  Curates
  <2>1. mode = "cloud" /\ pc = "flushing" /\ buffer \in SUBSET Messages
    BY <1>3 DEF Appending, TypeOK
  <2>2. \A m : RecordsOf(m) = SilverCopies(m) /\ RecordsOf(m)' = SilverCopies(m)'
    BY <1>1, <2>1 DEF RecordsOf
  <2>3. \A m \in Messages :
          RecordsOf(m)' = IF m \in buffer THEN RecordsOf(m) + 1 ELSE RecordsOf(m)
    BY <1>3, <2>1, <2>2, AppendCounts
  <2>4. blind \/ \A m \in buffer : RecordsOf(m) = 0
    BY <1>3, <2>1, <2>2, BufferedIsNew
  <2>5. QED
    BY <2>3, <2>4
<1>4. ASSUME OpenSilverFile
      PROVE  Curates \/ (blind /\ Reopens)
  <2>1. PICK k \in buffer : silverFiles' = [silverFiles EXCEPT ![k] = "torn"]
    BY <1>4 DEF OpenSilverFile
  <2>2. mode = "local" /\ pc = "flushing" /\ k \in Messages /\ UNCHANGED silverTable
    BY <1>4 DEF OpenSilverFile, TypeOK
  <2>3. \A m \in Messages : silverFiles'[m] = IF m = k THEN "torn" ELSE silverFiles[m]
    BY <2>1, <2>2, FileChanges
  <2>4. CASE silverFiles[k] = "whole"
    <3>1. blind
      BY <2>2, <2>4 DEF SilverInv, LoadedIsKnown
    <3>2. RecordsOf(k) = 1 /\ \A m \in Messages : RecordsOf(m)' = IF m = k THEN 0 ELSE RecordsOf(m)
      BY <1>1, <2>2, <2>3, <2>4 DEF RecordsOf
    <3>3. QED
      BY <3>1, <3>2
  <2>5. CASE silverFiles[k] # "whole"
    <3>1. \A m \in Messages : RecordsOf(m)' = RecordsOf(m)
      BY <1>1, <2>2, <2>3, <2>5 DEF RecordsOf
    <3>2. Curates
      <4>1. WITNESS {} \in SUBSET buffer
      <4>2. QED
        BY <3>1
    <3>3. QED
      BY <3>2
  <2>6. QED
    BY <2>4, <2>5
<1>5. ASSUME CloseSilverFile
      PROVE  Curates
  <2>1. /\ pc = "flushing" /\ writing # <<>> /\ UNCHANGED silverTable
        /\ silverFiles' = [silverFiles EXCEPT ![writing] = "whole"]
    BY <1>5 DEF CloseSilverFile
  <2>2. /\ mode = "local" /\ writing \in buffer /\ writing \in Messages
        /\ silverFiles[writing] # "whole"
    BY <2>1 DEF SilverInv, MemoryFollowsPc, TypeOK
  <2>3. \A m \in Messages : silverFiles'[m] = IF m = writing THEN "whole" ELSE silverFiles[m]
    BY <2>1, <2>2, FileChanges
  <2>4. RecordsOf(writing) = 0
    BY <2>2 DEF RecordsOf
  <2>5. \A m \in Messages :
          RecordsOf(m)' = IF m \in {writing} THEN RecordsOf(m) + 1 ELSE RecordsOf(m)
    BY <1>1, <2>2, <2>3 DEF RecordsOf
  <2>6. QED
    BY <2>2, <2>4, <2>5
<1>6. CASE LoadKeysFails
  <2>1. blind' = TRUE /\ UNCHANGED silverVars
    BY <1>6 DEF LoadKeysFails
  <2>2. \A m \in Messages : RecordsOf(m)' = RecordsOf(m)
    BY <1>1, <2>1 DEF RecordsOf, SilverCopies
  <2>3. QED
    BY <2>1, <2>2
<1>7. CASE AppendSilver \/ FlushFails
  BY <1>2, <1>3, <1>7 DEF AppendSilver, Commit, FlushFails
<1>8. CASE \/ Start \/ LoadKeys \/ ListFiles \/ ScanTable \/ OpenObject \/ MergeRow \/ TornLine
           \/ EndOfBronze \/ FlushReturns \/ AppendConflicts \/ Overflow \/ Crash
  <2>1. UNCHANGED silverVars /\ blind' = blind
    BY <1>8 DEF Start, LoadKeys, ListFiles, ScanTable, OpenObject, MergeRow, TornLine,
       EndOfBronze, FlushReturns, AppendConflicts, Overflow, Crash
  <2>2. QED
    BY <1>2, <2>1
<1>9. CASE OpenSilverFile \/ CloseSilverFile
  <2>1. blind' = blind
    BY <1>9 DEF OpenSilverFile, CloseSilverFile
  <2>2. QED
    BY <1>4, <1>5, <1>9, <2>1
<1>10. QED
  BY <1>6, <1>7, <1>8, <1>9 DEF Progress, Failure

=============================================================================
