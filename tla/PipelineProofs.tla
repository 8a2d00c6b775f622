----------------------------- MODULE PipelineProofs -----------------------------
(***************************************************************************)
(* Theorems about the two services together, for any number of partitions,  *)
(* any log length, batch size and number of failures.                       *)
(***************************************************************************)
EXTENDS Pipeline, ConsumerBronzeProofs

USE MessageAssumption, TopicAssumption, ConsumerAssumption

\* The theorems about the transformer, for the one of the pipeline.
S == INSTANCE SilverTransformerProofs
    WITH pc <- silverPc, buffer <- merged, Amounts <- Ordinary,
         changes <- 0, MaxChanges <- 0

-----------------------------------------------------------------------------
(* The transformer of the theorems is the transformer of the pipeline.       *)

LEMMA SameIds == S!Messages = Messages /\ Silver!Messages = Messages
BY DEF Messages, Partitions, Offsets, S!Messages, S!Partitions, S!Offsets,
   Silver!Messages, Silver!Partitions, Silver!Offsets

LEMMA SameState ==
  /\ Silver!Init <=> S!Init
  /\ Silver!TypeOK <=> S!TypeOK
  /\ Silver!TypeOK' <=> S!TypeOK'
  /\ Silver!StorageTypeOK <=> S!StorageTypeOK
  /\ StorageTypeOK <=> S!StorageTypeOK
  /\ StorageTypeOK' <=> S!StorageTypeOK'
  /\ Silver!Silver = S!Silver
BY DEF StorageTypeOK, FileContent, Messages, Partitions, Offsets,
   Silver!Partitions, S!Partitions, Silver!Offsets, S!Offsets, Silver!Messages,
   S!Messages, Silver!FileContent, S!FileContent, Silver!NoContent, S!NoContent,
   Silver!StorageTypeOK, S!StorageTypeOK, Silver!StorageInit, S!StorageInit, Silver!Objects,
   S!Objects, Silver!TypeOK, S!TypeOK, Silver!Init, S!Init, Silver!Silver, S!Silver

LEMMA SameInv ==
  /\ Silver!SilverInv <=> S!SilverInv
  /\ Silver!SilverInv' <=> S!SilverInv'
<1>1. /\ (Silver!LayerFollowsMode <=> S!LayerFollowsMode)
      /\ (Silver!LayerFollowsMode' <=> S!LayerFollowsMode')
  BY DEF Silver!Partitions, S!Partitions, Silver!Offsets, S!Offsets, Silver!Messages,
     S!Messages, Silver!LayerFollowsMode, S!LayerFollowsMode
<1>2. /\ (Silver!MemoryFollowsPc <=> S!MemoryFollowsPc)
      /\ (Silver!MemoryFollowsPc' <=> S!MemoryFollowsPc')
  BY DEF Silver!MemoryFollowsPc, S!MemoryFollowsPc
<1>3. /\ (Silver!SkippedIsKept <=> S!SkippedIsKept)
      /\ (Silver!SkippedIsKept' <=> S!SkippedIsKept')
  BY DEF Silver!Partitions, S!Partitions, Silver!Offsets, S!Offsets, Silver!Messages,
     S!Messages, Silver!Silver, S!Silver, Silver!SkippedIsKept, S!SkippedIsKept
<1>4. /\ (Silver!LoadedIsKnown <=> S!LoadedIsKnown)
      /\ (Silver!LoadedIsKnown' <=> S!LoadedIsKnown')
  BY DEF Silver!Partitions, S!Partitions, Silver!Offsets, S!Offsets, Silver!Messages,
     S!Messages, Silver!LoadedIsKnown, S!LoadedIsKnown
<1>5. /\ (Silver!SnapshotsDisjoint <=> S!SnapshotsDisjoint)
      /\ (Silver!SnapshotsDisjoint' <=> S!SnapshotsDisjoint')
  BY DEF Silver!SnapshotsDisjoint, S!SnapshotsDisjoint
<1>6. /\ (Silver!ReadIsOnItsWay <=> S!ReadIsOnItsWay)
      /\ (Silver!ReadIsOnItsWay' <=> S!ReadIsOnItsWay')
  BY DEF Silver!Partitions, S!Partitions, Silver!Offsets, S!Offsets, Silver!Messages,
     S!Messages, Silver!Silver, S!Silver, Silver!RowsOf, S!RowsOf, Silver!ReadIsOnItsWay,
     S!ReadIsOnItsWay
<1>7. /\ (Silver!DoneMeansComplete <=> S!DoneMeansComplete)
      /\ (Silver!DoneMeansComplete' <=> S!DoneMeansComplete')
  BY DEF Silver!Partitions, S!Partitions, Silver!Offsets, S!Offsets, Silver!Messages,
     S!Messages, Silver!Silver, S!Silver, Silver!RowsOf, S!RowsOf, Silver!DoneMeansComplete,
     S!DoneMeansComplete
<1>8. QED
  BY <1>1, <1>2, <1>3, <1>4, <1>5, <1>6, <1>7
     DEF Silver!SilverInv, S!SilverInv

LEMMA SameRecords ==
  \A m : Silver!RecordsOf(m) = S!RecordsOf(m) /\ Silver!RecordsOf(m)' = S!RecordsOf(m)'
BY DEF Silver!RecordsOf, S!RecordsOf, Silver!SilverCopies, S!SilverCopies,
   Silver!Cardinality, S!Cardinality

LEMMA SamePass ==
  /\ Silver!Start <=> S!Start
  /\ Silver!Progress <=> S!Progress
  /\ Silver!Failure <=> S!Failure
<1>1. /\ (Silver!Start <=> S!Start)
      /\ (Silver!LoadKeys <=> S!LoadKeys)
      /\ (Silver!LoadKeysFails <=> S!LoadKeysFails)
      /\ (Silver!ListFiles <=> S!ListFiles)
      /\ (Silver!ScanTable <=> S!ScanTable)
  BY DEF Silver!Partitions, S!Partitions, Silver!Offsets, S!Offsets, Silver!Messages,
     S!Messages, Silver!Objects, S!Objects, Silver!Silver, S!Silver, Silver!Fault, S!Fault,
     Silver!NoContent, S!NoContent, Silver!storageVars, S!storageVars, Silver!silverVars,
     S!silverVars, Silver!readerVars, S!readerVars, Silver!writerVars, S!writerVars,
     Silver!loopVars, S!loopVars, Silver!memory, S!memory, Silver!history, S!history,
     Silver!Start, S!Start, Silver!LoadKeys, S!LoadKeys, Silver!LoadKeysFails,
     S!LoadKeysFails, Silver!ListFiles, S!ListFiles, Silver!ScanTable, S!ScanTable
<1>2. /\ (Silver!OpenObject <=> S!OpenObject)
      /\ (Silver!MergeRow <=> S!MergeRow)
      /\ (Silver!EndOfBronze <=> S!EndOfBronze)
  BY DEF Silver!Partitions, S!Partitions, Silver!Offsets, S!Offsets, Silver!Messages,
     S!Messages, Silver!Reading, S!Reading, Silver!RowsOf, S!RowsOf, Silver!TailOf, S!TailOf,
     Silver!NotAfter, S!NotAfter, Silver!Merge, S!Merge, Silver!Objects, S!Objects,
     Silver!storageVars, S!storageVars, Silver!silverVars, S!silverVars, Silver!readerVars,
     S!readerVars, Silver!writerVars, S!writerVars, Silver!loopVars, S!loopVars,
     Silver!memory, S!memory, Silver!history, S!history, Silver!OpenObject, S!OpenObject,
     Silver!MergeRow, S!MergeRow, Silver!EndOfBronze, S!EndOfBronze
<1>3. /\ (Silver!TornLine <=> S!TornLine)
      /\ (Silver!FlushReturns <=> S!FlushReturns)
      /\ (Silver!OpenSilverFile <=> S!OpenSilverFile)
      /\ (Silver!CloseSilverFile <=> S!CloseSilverFile)
      /\ (Silver!Overflow <=> S!Overflow)
      /\ (Silver!Crash <=> S!Crash)
  BY DEF Silver!Partitions, S!Partitions, Silver!Offsets, S!Offsets, Silver!Messages,
     S!Messages, Silver!Reading, S!Reading, Silver!Exit, S!Exit, Silver!Oversized,
     S!Oversized, Silver!Fault, S!Fault, Silver!FitsColumns, S!FitsColumns, Silver!FitsAmount,
     S!FitsAmount, Silver!FitsMargin, S!FitsMargin, Silver!AmountColumns, S!AmountColumns,
     Silver!MarginPct, S!MarginPct, Silver!Rounded, S!Rounded, Silver!Abs, S!Abs,
     Silver!storageVars, S!storageVars, Silver!silverVars, S!silverVars, Silver!readerVars,
     S!readerVars, Silver!writerVars, S!writerVars, Silver!loopVars, S!loopVars,
     Silver!memory, S!memory, Silver!history, S!history, Silver!TornLine, S!TornLine,
     Silver!FlushReturns, S!FlushReturns, Silver!OpenSilverFile, S!OpenSilverFile,
     Silver!CloseSilverFile, S!CloseSilverFile, Silver!Overflow, S!Overflow, Silver!Crash,
     S!Crash
<1>4. /\ (Silver!AppendSilver <=> S!AppendSilver)
      /\ (Silver!AppendConflicts <=> S!AppendConflicts)
      /\ (Silver!FlushFails <=> S!FlushFails)
  BY DEF Silver!Partitions, S!Partitions, Silver!Offsets, S!Offsets, Silver!Messages,
     S!Messages, Silver!Appending, S!Appending, Silver!Commit, S!Commit, Silver!Oversized,
     S!Oversized, Silver!Fault, S!Fault, Silver!WriteError, S!WriteError, Silver!Exit, S!Exit,
     Silver!FitsColumns, S!FitsColumns, Silver!FitsAmount, S!FitsAmount, Silver!FitsMargin,
     S!FitsMargin, Silver!AmountColumns, S!AmountColumns, Silver!MarginPct, S!MarginPct,
     Silver!Rounded, S!Rounded, Silver!Abs, S!Abs, Silver!IsRetried, S!IsRetried,
     Silver!Ancestors, S!Ancestors, Silver!RetriedTypes, S!RetriedTypes, Silver!storageVars,
     S!storageVars, Silver!silverVars, S!silverVars, Silver!readerVars, S!readerVars,
     Silver!writerVars, S!writerVars, Silver!loopVars, S!loopVars, Silver!memory, S!memory,
     Silver!history, S!history, Silver!AppendSilver, S!AppendSilver, Silver!AppendConflicts,
     S!AppendConflicts, Silver!FlushFails, S!FlushFails
<1>5. QED
  BY <1>1, <1>2, <1>3, <1>4
     DEF Silver!Progress, S!Progress, Silver!Failure, S!Failure

\* What SilverTransformer assumes of its constants holds of what the pipeline puts
\* in their place, so its theorems apply.
LEMMA SameAssumptions ==
  S!MessageAssumption /\ S!TransformAssumption /\ S!TransformerAssumption
<1>1. Ordinary \in [Messages -> [AmountColumns -> Int]] /\ 0 \in Nat
  BY DEF Ordinary
<1>2. S!Messages = Messages /\ S!AmountColumns = AmountColumns
  BY SameIds DEF S!AmountColumns, AmountColumns
<1>3. QED
  BY <1>1, <1>2, TransformAssumption
     DEF S!MessageAssumption, S!TransformAssumption, S!TransformerAssumption

-----------------------------------------------------------------------------
(* The steps of the consumer, for the transformer.                           *)

\* What the readers of bronze can count on: no step takes a snapshot away.
LEMMA ConsumerAppends ==
  ASSUME TypeOK, [Next]_vars
  PROVE  /\ mode' = mode
         /\ snapshots' \in {snapshots, Append(snapshots, buffer)}
         /\ Len(snapshots) \in Nat /\ Len(snapshots') \in Nat
         /\ Len(snapshots) <= Len(snapshots')
         /\ \A i \in 1 .. Len(snapshots) : snapshots'[i] = snapshots[i]
<1>1. mode' = mode /\ snapshots' \in {snapshots, Append(snapshots, buffer)}
  BY WriterStep DEF BufferRow, OpenBatchFile, WriteSomeRows, CloseBatchFile, AppendSnapshot,
     AppendSnapshotFails, BatchFileFails, writerVars, storageVars
<1>2. snapshots \in Seq(SUBSET Messages) /\ buffer \in SUBSET Messages
  BY DEF TypeOK, WriterTypeOK, StorageTypeOK
<1>3. QED
  BY <1>1, <1>2

LEMMA ConsumerKeepsPass ==
  ASSUME TypeOK, S!TypeOK, S!SilverInv, [Next]_vars, Consuming
  PROVE  S!TypeOK' /\ S!SilverInv'
<1>1. TypeOK'
  BY TypeStep
<1>2. S!StorageTypeOK' /\ faults' \in 0 .. MaxFaults
  BY <1>1, SameState DEF TypeOK, WriterTypeOK
<1>3. UNCHANGED <<mode, S!silverVars, silverPc, S!memory, blind>>
  BY ConsumerAppends DEF Consuming, passVars, S!silverVars, S!memory, S!readerVars,
     S!writerVars, S!loopVars
<1>4. stable' \subseteq stable /\ (mode = "local" => \A n \in stable' : files'[n] = files[n])
  BY DEF Consuming
<1>5. mode = "cloud" =>
        /\ Len(snapshots) <= Len(snapshots')
        /\ \A i \in 1 .. Len(snapshots) : snapshots'[i] = snapshots[i]
  BY ConsumerAppends
<1>6. 0 \in 0 .. 0
  OBVIOUS
<1>7. QED
  BY <1>2, <1>3, <1>4, <1>5, <1>6, SameAssumptions, S!BronzeStep

\* Only valid messages are buffered by the consumer, and written.
LEMMA ConsumerKeepsRows ==
  ASSUME TypeOK, OffsetsOrdered, BronzeIsValid, buffer \subseteq Valid, [Next]_vars
  PROVE  OffsetsOrdered' /\ BronzeIsValid' /\ buffer' \subseteq Valid' /\ Valid \subseteq Valid'
<1>1. OffsetsOrdered'
  BY OffsetsStep
<1>2. Valid \subseteq Valid'
  BY TopicStep, ValidGrows, ValidStays DEF Rewind, CommitPositions, Deliver, topicVars
<1>3. buffer' \subseteq Valid'
  <2>1. \A p \in Partitions : CanTake(p, "valid") => NextOf(p) \in Valid
    BY DEF CanTake, Valid
  <2>2. buffer' = buffer \/ buffer' = {}
        \/ \E p \in Partitions : CanTake(p, "valid") /\ buffer' = buffer \union {NextOf(p)}
    BY WriterStep DEF BufferRow, OpenBatchFile, WriteSomeRows, CloseBatchFile,
       AppendSnapshot, AppendSnapshotFails, BatchFileFails, ClearBuffer, writerVars
  <2>3. QED
    BY <1>2, <2>1, <2>2
<1>4. files \in [Messages -> FileContent] /\ snapshots \in Seq(SUBSET Messages)
      /\ buffer \in SUBSET Messages
  BY DEF TypeOK, WriterTypeOK, StorageTypeOK
<1>5. \A n \in Messages : files'[n].rows \subseteq Valid'
  <2>1. \/ files' = files
        \/ \E name, content :
              /\ content.rows \subseteq buffer
              /\ files' = [files EXCEPT ![name] = content]
    <3>1. NoContent.rows \subseteq buffer
      BY DEF NoContent
    <3>2. \A rows, end :
            rows \subseteq buffer => [rows |-> rows, tail |-> end].rows \subseteq buffer
      OBVIOUS
    <3>3. CASE OpenBatchFile
      BY <3>1, <3>3 DEF OpenBatchFile
    <3>4. CASE WriteSomeRows
      BY <3>2, <3>4 DEF WriteSomeRows
    <3>5. CASE CloseBatchFile
      BY <3>2, <3>5 DEF CloseBatchFile
    <3>6. QED
      BY <3>3, <3>4, <3>5, WriterStep DEF BufferRow, AppendSnapshot, AppendSnapshotFails,
         BatchFileFails, writerVars, storageVars
  <2>2. SUFFICES ASSUME NEW n \in Messages PROVE files'[n].rows \subseteq Valid'
    OBVIOUS
  <2>3. files'[n].rows \subseteq files[n].rows \union buffer
    BY <1>4, <2>1
  <2>4. QED
    BY <1>2, <2>3 DEF BronzeIsValid
<1>6. \A i \in 1 .. Len(snapshots') : snapshots'[i] \subseteq Valid'
  <2>1. \A i \in 1 .. Len(snapshots') : snapshots'[i] \in {snapshots[i], buffer}
    BY <1>4, ConsumerAppends
  <2>2. \A i \in 1 .. Len(snapshots') :
          i \in 1 .. Len(snapshots) \/ snapshots'[i] = buffer
    BY <1>4, ConsumerAppends
  <2>3. QED
    BY <1>2, <2>1, <2>2 DEF BronzeIsValid
<1>7. QED
  BY <1>1, <1>2, <1>3, <1>5, <1>6 DEF BronzeIsValid

-----------------------------------------------------------------------------
(* The steps of the transformer, for the consumer.                           *)

LEMMA PassKeepsBronze ==
  ASSUME Silver!Progress \/ Silver!Failure, Transforming
  PROVE  UNCHANGED <<topicVars, writerVars, serviceVars>>
<1>1. UNCHANGED S!storageVars
  BY SamePass, SameAssumptions, S!PassReadsBronze
<1>2. QED
  BY <1>1 DEF S!storageVars, Transforming, consumerVars, writerVars

LEMMA PassKeepsInv ==
  ASSUME PipelineTypeOK, Silver!SilverInv, Silver!Progress \/ Silver!Failure, Transforming
  PROVE  PipelineTypeOK' /\ Silver!SilverInv'
<1>1. S!TypeOK' /\ S!SilverInv'
  BY SamePass, SameState, SameInv, SameAssumptions, S!PassStep DEF PipelineTypeOK
<1>2. UNCHANGED <<topicVars, writerVars, serviceVars>>
  BY PassKeepsBronze
<1>3. TypeOK'
  BY <1>1, <1>2 DEF PipelineTypeOK, TypeOK, TopicTypeOK, topicVars, WriterTypeOK, writerVars,
     serviceVars, S!TypeOK, StorageTypeOK
<1>4. due' \subseteq Messages
  BY DEF Transforming, PipelineTypeOK, Valid, OfKind
<1>5. QED
  BY <1>1, <1>3, <1>4, SameState, SameInv DEF PipelineTypeOK

LEMMA PassKeepsRows ==
  ASSUME PipelineTypeOK, RowsAreValid, Silver!Progress \/ Silver!Failure, Transforming
  PROVE  RowsAreValid'
<1>1. UNCHANGED <<topicVars, writerVars, serviceVars>>
  BY PassKeepsBronze
<1>2. Valid' = Valid /\ UNCHANGED <<position, committed, log, buffer, files, snapshots>>
  BY <1>1, ValidStays DEF topicVars, writerVars
<1>3. \A n \in S!Objects : S!RowsOf(n) \subseteq Valid
  BY SameIds DEF RowsAreValid, BronzeIsValid, S!RowsOf, S!Objects
<1>4. todo' \subseteq Valid /\ merged' \subseteq Valid
  <2>1. S!TypeOK /\ (S!Progress \/ S!Failure) /\ todo \subseteq Valid /\ merged \subseteq Valid
    BY SamePass, SameState DEF PipelineTypeOK, RowsAreValid
  <2>2. QED
    BY <1>3, <2>1, SameAssumptions, S!RowsComeFromBronze
<1>5. QED
  BY <1>2, <1>4 DEF RowsAreValid, OffsetsOrdered, BronzeIsValid

-----------------------------------------------------------------------------
(* Types, and the invariant of the two services.                             *)

LEMMA ServicesInit == PipelineInit => PipelineTypeOK /\ ServicesInv
<1>1. SUFFICES ASSUME PipelineInit PROVE PipelineTypeOK /\ ServicesInv
  OBVIOUS
<1>2. TypeOK /\ SafetyInv
  BY <1>1, TypeInit, SafetyInit DEF PipelineInit
<1>3. S!TypeOK /\ S!SilverInv
  BY <1>1, SameState, SameAssumptions, S!SilverInit DEF PipelineInit
<1>4. buffer = {} /\ todo = {} /\ merged = {} /\ due = {}
  BY <1>1 DEF PipelineInit, Init, WriterInit, Silver!Init
<1>5. QED
  BY <1>2, <1>3, <1>4, SameState, SameInv
     DEF PipelineTypeOK, ServicesInv, RowsAreValid, SafetyInv

\* Every step is one of the consumer (or of nobody), or one of the transformer.
LEMMA PipelineStepIsOneOf ==
  ASSUME [PipelineNext]_pipelineVars
  PROVE  \/ [Next]_vars /\ Consuming
         \/ (Silver!Progress \/ Silver!Failure) /\ Transforming
<1>1. CASE UNCHANGED pipelineVars
  BY <1>1 DEF pipelineVars, transformerVars, vars, writerVars, Consuming
<1>2. QED
  BY <1>1 DEF PipelineNext

LEMMA ServicesStep ==
  ASSUME PipelineTypeOK, ServicesInv, [PipelineNext]_pipelineVars
  PROVE  PipelineTypeOK' /\ ServicesInv'
<1>1. CASE [Next]_vars /\ Consuming
  <2>1. TypeOK'
    BY <1>1, TypeStep DEF PipelineTypeOK
  <2>2. S!TypeOK' /\ S!SilverInv'
    BY <1>1, ConsumerKeepsPass, SameState, SameInv DEF PipelineTypeOK, ServicesInv
  <2>3. OffsetsOrdered' /\ BronzeIsValid' /\ buffer' \subseteq Valid' /\ Valid \subseteq Valid'
    BY <1>1, ConsumerKeepsRows DEF PipelineTypeOK, ServicesInv, RowsAreValid
  <2>4. UNCHANGED <<todo, merged, due>>
    BY <1>1 DEF Consuming, passVars
  <2>5. QED
    BY <2>1, <2>2, <2>3, <2>4, SameState, SameInv
       DEF PipelineTypeOK, ServicesInv, RowsAreValid
<1>2. CASE (Silver!Progress \/ Silver!Failure) /\ Transforming
  BY <1>2, PassKeepsInv, PassKeepsRows DEF ServicesInv
<1>3. QED
  BY <1>1, <1>2, PipelineStepIsOneOf

\* Every variable of the two services keeps its type.
THEOREM PipelineTypesHold == PipelineSpec => []PipelineTypeOK
BY ServicesInit, ServicesStep, PTL DEF PipelineSpec

\* Whatever the services do to one another, only valid messages travel through
\* bronze to silver, and the invariant of the transformer holds although the
\* consumer truncates the files it reads.
THEOREM ServicesInvHolds == PipelineSpec => []ServicesInv
BY ServicesInit, ServicesStep, PTL DEF PipelineSpec

-----------------------------------------------------------------------------
(* The promise of ExactlyOnce, step by step.                                 *)

LEMMA PromiseInit == PipelineInit => Promise!Init
<1>1. SUFFICES ASSUME PipelineInit PROVE Promise!Init
  OBVIOUS
<1>2. Valid = {}
  BY <1>1 DEF PipelineInit, Init, TopicInit, Valid, OfKind, Messages, Offsets
<1>3. silverFiles = [m \in Messages |-> "absent"] /\ silverTable = <<>> /\ blind = FALSE
  BY <1>1, SameIds DEF PipelineInit, Silver!Init
<1>4. \A m \in Messages : S!SilverCopies(m) = 0
  <2>1. Len(silverTable) = 0
    BY <1>3
  <2>2. \A m \in Messages : {i \in 1 .. Len(silverTable) : m \in silverTable[i]} = {}
    BY <2>1
  <2>3. S!Cardinality({}) = 0
    BY SameAssumptions, S!FS_EmptySet
  <2>4. QED
    BY <2>2, <2>3 DEF S!SilverCopies
<1>5. \A m \in Messages : Silver!RecordsOf(m) = 0
  BY <1>3, <1>4, SameRecords DEF S!RecordsOf
<1>6. QED
  BY <1>2, <1>3, <1>5 DEF Promise!Init

\* Nothing the consumer does changes what is in silver.
LEMMA ConsumerKeepsPromise ==
  ASSUME TypeOK, OffsetsOrdered, [Next]_vars, Consuming
  PROVE  [Promise!Next]_Promise!vars
<1>1. mode' = mode /\ UNCHANGED <<silverFiles, silverTable, blind>>
  BY ConsumerAppends DEF Consuming, passVars
<1>2. \A m : Silver!RecordsOf(m)' = Silver!RecordsOf(m)
  BY <1>1, SameRecords DEF S!RecordsOf, S!SilverCopies
<1>3. UNCHANGED <<[m \in Messages |-> Silver!RecordsOf(m)], blind>>
  BY <1>1, <1>2
<1>4. Valid' = Valid \/ \E m \in Messages \ Valid : Valid' = Valid \union {m}
  BY PublishAccepts, TopicStep, ValidStays DEF Rewind, CommitPositions, Deliver, topicVars
<1>5. QED
  BY <1>3, <1>4 DEF Promise!Next, Promise!Accept, Promise!vars

\* A step of the transformer adds records of messages it has buffered, which are
\* valid.
LEMMA PassKeepsPromise ==
  ASSUME PipelineTypeOK, ServicesInv, Silver!Progress \/ Silver!Failure, Transforming
  PROVE  [Promise!Next]_Promise!vars
<1> DEFINE copies == [m \in Messages |-> Silver!RecordsOf(m)]
<1>1. UNCHANGED Valid
  BY PassKeepsBronze, ValidStays DEF topicVars
<1>2. \/ /\ blind' = blind
         /\ \E rows \in SUBSET merged :
               /\ blind \/ \A m \in rows : S!RecordsOf(m) = 0
               /\ \A m \in Messages :
                     S!RecordsOf(m)' =
                        IF m \in rows THEN S!RecordsOf(m) + 1 ELSE S!RecordsOf(m)
      \/ blind' = TRUE /\ \A m \in Messages : S!RecordsOf(m)' = S!RecordsOf(m)
      \/ /\ blind /\ blind' = blind
         /\ \E k \in merged :
               /\ S!RecordsOf(k) = 1
               /\ \A m \in Messages :
                     S!RecordsOf(m)' = IF m = k THEN 0 ELSE S!RecordsOf(m)
  <2>1. S!TypeOK /\ S!TypeOK' /\ S!SilverInv /\ (S!Progress \/ S!Failure)
    BY PassKeepsInv, SamePass, SameState, SameInv DEF ServicesInv, PipelineTypeOK
  <2>2. QED
    BY <2>1, SameIds, SameAssumptions, S!PassCurates
<1>3. CASE blind' = TRUE /\ \A m \in Messages : S!RecordsOf(m)' = S!RecordsOf(m)
  <2>1. copies' = copies
    BY <1>3, SameRecords
  <2>2. QED
    BY <1>1, <1>3, <2>1 DEF Promise!Next, Promise!LoseKeys
<1>4. ASSUME blind' = blind, NEW rows \in SUBSET merged,
             blind \/ \A m \in rows : S!RecordsOf(m) = 0,
             \A m \in Messages :
                S!RecordsOf(m)' = IF m \in rows THEN S!RecordsOf(m) + 1 ELSE S!RecordsOf(m)
      PROVE  Promise!Curate
  <2>1. rows \subseteq Valid /\ Valid \subseteq Messages
    BY DEF ServicesInv, RowsAreValid, Valid, OfKind
  <2>2. copies' = [m \in Messages |-> IF m \in rows THEN copies[m] + 1 ELSE copies[m]]
    BY <1>4, SameRecords
  <2>3. blind \/ \A m \in rows : copies[m] = 0
    BY <1>4, <2>1, SameRecords
  <2>4. QED
    BY <1>1, <1>4, <2>1, <2>2, <2>3 DEF Promise!Curate
<1>5. ASSUME blind, blind' = blind, NEW k \in merged, S!RecordsOf(k) = 1,
             \A m \in Messages : S!RecordsOf(m)' = IF m = k THEN 0 ELSE S!RecordsOf(m)
      PROVE  Promise!Reopen
  <2>1. k \in Valid /\ k \in Messages
    BY DEF ServicesInv, RowsAreValid, Valid, OfKind
  <2>2. copies[k] = 1 /\ 1 - 1 = 0
    BY <1>5, <2>1, SameRecords
  <2>3. copies' = [m \in Messages |-> IF m = k THEN 0 ELSE copies[m]]
    BY <1>5, SameRecords
  <2>4. [copies EXCEPT ![k] = @ - 1] = [m \in Messages |-> IF m = k THEN 0 ELSE copies[m]]
    <3> HIDE DEF copies
    <3>1. copies = [m \in Messages |-> copies[m]]
      BY DEF copies
    <3>2. QED
      BY <2>1, <2>2, <3>1
  <2>5. QED
    BY <1>1, <1>5, <2>1, <2>2, <2>3, <2>4 DEF Promise!Reopen
<1>6. QED
  BY <1>2, <1>3, <1>4, <1>5 DEF Promise!Next

\* The two services implement the abstract lake: at most one record of silver per
\* message as long as every pass has loaded its keys, whatever the consumer
\* delivers, writes or truncates twice (ADR-004:30).
THEOREM PipelineImplementsExactlyOnce == PipelineSpec => ImplementsExactlyOnce
<1>1. PipelineTypeOK /\ ServicesInv /\ [PipelineNext]_pipelineVars
        => [Promise!Next]_Promise!vars
  BY PipelineStepIsOneOf, ConsumerKeepsPromise, PassKeepsPromise
     DEF PipelineTypeOK, ServicesInv, RowsAreValid
<1>2. QED
  BY <1>1, PromiseInit, PipelineTypesHold, ServicesInvHolds, PTL
     DEF PipelineSpec, ImplementsExactlyOnce, Promise!Spec

\* The theorem about ExactlyOnce, for the promise of the pipeline.
Once == INSTANCE ExactlyOnceProofs
    WITH accepted <- Valid,
         copies <- [m \in Messages |-> Silver!RecordsOf(m)],
         excused <- blind

\* End to end, from the topic to silver: only valid messages get there, and no
\* message twice while every pass has loaded the keys of silver, through crashes,
\* redeliveries, truncated batch files and failed appends ("no duplicate records
\* appear in silver even if the consumer replays messages", ADR-004:30).
THEOREM SilverHasNoDuplicates == PipelineSpec => []Promise!AtMostOnce
<1>1. Promise!Init <=> Once!Init
  BY DEF Promise!Init, Once!Init
<1>2. [Promise!Next]_Promise!vars <=> [Once!Next]_Once!vars
  BY DEF Promise!Next, Promise!Accept, Promise!Curate, Promise!LoseKeys,
     Promise!Reopen, Promise!vars,
     Once!Next, Once!Accept, Once!Curate, Once!LoseKeys, Once!Reopen,
     Once!vars
<1>3. Promise!AtMostOnce <=> Once!AtMostOnce
  BY DEF Promise!AtMostOnce, Once!AtMostOnce
<1>4. QED
  BY <1>1, <1>2, <1>3, PipelineImplementsExactlyOnce, Once!NoDuplicates, PTL
     DEF ImplementsExactlyOnce, Promise!Spec, Once!Spec

-----------------------------------------------------------------------------
(* What the group has passed is in the sight of the transformer.             *)

\* The consumer leaves the files below its commits alone, and the snapshots.
LEMMA ConsumerSpares ==
  ASSUME TypeOK, SafetyInv, [Next]_vars
  PROVE  /\ Below(committed) \subseteq Below(committed)'
         /\ \A n \in Below(committed) : files'[n] = files[n]
<1>1. \A p \in Partitions : committed[p] \in Nat /\ position[p] \in Nat
  BY DEF TypeOK, TopicTypeOK
<1>2. committed' = committed \/ committed' = position
  BY TopicStep DEF Publish, Rewind, CommitPositions, Deliver, topicVars
<1>3. \A m \in Messages : m[1] \in Partitions /\ m[2] \in Nat
  BY DEF Messages, Offsets
<1>4. Below(committed) \subseteq Below(position)
  BY CommittedIsRead DEF SafetyInv
<1>5. \/ files' = files
      \/ \E name \in buffer : \E content : files' = [files EXCEPT ![name] = content]
  <2>1. CASE OpenBatchFile
    BY <2>1 DEF OpenBatchFile
  <2>2. CASE FlushSome \/ FlushClose
    <3>1. target \in buffer
      BY <2>2 DEF FlushSome, FlushClose, SafetyInv, BufferIsFresh
    <3>2. QED
      BY <2>2, <3>1 DEF FlushSome, FlushClose, WriteSomeRows, CloseBatchFile
  <2>3. QED
    BY <2>1, <2>2 DEF Next, Progress, Poll, FlushStep, Failure, Start, Connect, ConnectFails,
       NextRecord, NextInvalid, NextRejected, BufferRow,
       NextGarbled, GeneratorFinished, IdleStop, EarlyStop, Rejoin, FlushNothing,
       FlushOpen, FlushAppend, AppendSnapshot, FlushFails, BatchFileFails,
       AppendSnapshotFails, Commit, CommitFails, Crash, vars, writerVars, storageVars
<1>6. \A n \in Below(committed) : n \notin buffer
  BY DEF SafetyInv, BufferIsFresh
<1>7. files \in [Messages -> FileContent] /\ buffer \subseteq Messages
  BY DEF TypeOK, WriterTypeOK, StorageTypeOK
<1>8. Below(committed) \subseteq Messages
  BY DEF Below
<1>9. QED
  BY <1>2, <1>4, <1>5, <1>6, <1>7, <1>8 DEF Below

LEMMA ConsumerKeepsSight ==
  ASSUME LocalKeepsMembership, PipelineTypeOK, SightInv, [Next]_vars, Consuming
  PROVE  SightInv'
<1>1. SafetyInv' /\ BronzeFollowsMode'
  BY SafetyStep, BronzeModeStep DEF PipelineTypeOK, SightInv
<1>2. /\ Below(committed) \subseteq Below(committed)'
      /\ \A n \in Below(committed) : files'[n] = files[n]
  BY ConsumerSpares DEF PipelineTypeOK, SightInv
<1>3. /\ mode' = mode
      /\ \A i \in 1 .. Len(snapshots) : snapshots'[i] = snapshots[i]
  BY ConsumerAppends DEF PipelineTypeOK
<1>4. UNCHANGED <<silverPc, due>>
  BY DEF Consuming, passVars
<1>5. stable' = {n \in stable : mode = "local" => files'[n] = files[n]}
  BY DEF Consuming
<1>6. mode = "cloud" => stable \subseteq 1 .. Len(snapshots)
  BY SameState DEF PipelineTypeOK, S!TypeOK, S!Objects
<1>7. SUFFICES ASSUME silverPc \notin {"stopped", "failed"}, NEW m \in due
               PROVE  \/ /\ mode = "local"
                         /\ \E n \in Below(committed)' :
                              /\ m \in files'[n].rows
                              /\ silverPc \in {"reading", "flushing", "done"} => n \in stable'
                      \/ mode = "cloud" /\ \E n \in stable' : m \in snapshots'[n]
  BY <1>1, <1>3, <1>4 DEF SightInv, DueIsInSight
<1>8. CASE mode = "local"
  <2>1. PICK n \in Below(committed) :
          /\ m \in files[n].rows
          /\ silverPc \in {"reading", "flushing", "done"} => n \in stable
    BY <1>7, <1>8 DEF SightInv, DueIsInSight
  <2>2. QED
    BY <1>2, <1>5, <1>8, <2>1
<1>9. CASE mode # "local"
  <2>1. mode = "cloud" /\ \E n \in stable : m \in snapshots[n]
    BY <1>7, <1>9 DEF SightInv, DueIsInSight
  <2>2. stable' = stable
    BY <1>5, <1>9
  <2>3. QED
    BY <1>3, <1>6, <2>1, <2>2
<1>10. QED
  BY <1>8, <1>9

\* When a pass begins, what is committed is settled: in a file named below the
\* commits, or in a snapshot the pass has just taken note of.
LEMMA StartSees ==
  ASSUME PipelineTypeOK, SightInv, Silver!Start, Transforming,
         UNCHANGED <<topicVars, writerVars, serviceVars>>
  PROVE  DueIsInSight'
<1>1. silverPc' = "starting" /\ mode' = mode /\ UNCHANGED <<committed, files, snapshots>>
  BY SamePass DEF S!Start, writerVars, topicVars
<1>2. due' = Valid \intersect Below(committed)
  BY DEF Transforming
<1>3. mode = "cloud" => stable' = 1 .. Len(snapshots)
  BY SamePass DEF S!Start, S!Objects
<1>4. \A m \in due' :
        \/ \E n \in Below(committed) : m \in files[n].rows
        \/ \E i \in 1 .. Len(snapshots) : m \in snapshots[i]
  BY <1>2 DEF SightInv, SafetyInv, CommittedIsSettled, Settled
<1>5. mode \in {"local", "cloud"} /\ Below(committed)' = Below(committed)
  BY <1>1 DEF PipelineTypeOK, TypeOK, WriterTypeOK, StorageTypeOK, Below
<1>6. mode = "local" => 1 .. Len(snapshots) = {}
  BY DEF SightInv, BronzeFollowsMode
<1>7. mode = "cloud" => \A n \in Below(committed) : files[n].rows = {}
  BY DEF SightInv, BronzeFollowsMode, Below
<1>8. QED
  BY <1>1, <1>3, <1>4, <1>5, <1>6, <1>7 DEF DueIsInSight

LEMMA PassKeepsSight ==
  ASSUME PipelineTypeOK, SightInv, Silver!Progress \/ Silver!Failure, Transforming
  PROVE  SightInv'
<1>1. UNCHANGED <<topicVars, writerVars, serviceVars>>
  BY PassKeepsBronze
<1>2. UNCHANGED <<log, position, committed, mode, files, snapshots, buffer, target, pc, phase>>
  BY <1>1 DEF topicVars, writerVars, serviceVars
<1>3. Valid' = Valid /\ Below(position)' = Below(position) /\ Below(committed)' = Below(committed)
  BY <1>2, ValidStays DEF Below
<1>4. SafetyInv' /\ BronzeFollowsMode'
  <2>1. OffsetsOrdered' /\ BufferIsFresh' /\ BronzeIsValid' /\ BronzeFollowsMode'
    BY <1>2, <1>3 DEF SightInv, SafetyInv, OffsetsOrdered, BufferIsFresh, BronzeIsValid,
       BronzeFollowsMode
  <2>2. CommittedIsSettled' /\ ReadIsBuffered' /\ CommittingIsSettled'
    BY <1>2, <1>3 DEF SightInv, SafetyInv, CommittedIsSettled, Settled, ReadIsBuffered,
       Unacknowledged, CommittingIsSettled
  <2>3. QED
    BY <2>1, <2>2 DEF SafetyInv
<1>5. CASE Silver!Start
  BY <1>1, <1>4, <1>5, StartSees DEF SightInv
<1>6. CASE ~Silver!Start
  <2>1. due' = due
    BY <1>6 DEF Transforming
  <2>2. \/ silverPc' = "failed"
        \/ /\ mode = "local" /\ silverPc = "listing" /\ silverPc' = "reading"
           /\ {n \in Messages : files[n] # NoContent} \subseteq stable'
        \/ /\ stable' = stable
           /\ silverPc \notin {"stopped", "failed"}
           /\ silverPc' \in {"reading", "flushing", "done"} =>
                 mode = "cloud" \/ silverPc \in {"reading", "flushing", "done"}
    <3>1. (S!Progress \/ S!Failure) /\ ~S!Start
      BY <1>6, SamePass
    <3>2. S!NoContent = NoContent
      BY DEF S!NoContent, NoContent
    <3>3. QED
      BY <3>1, <3>2, SameIds, SameAssumptions, S!PassKeepsItsListing
  <2>3. \A n \in Below(committed) : n \in Messages /\ (files[n].rows # {} => files[n] # NoContent)
    BY DEF Below, NoContent
  <2>4. mode = "local" => mode # "cloud"
    OBVIOUS
  <2>5. DueIsInSight'
    BY <1>2, <1>3, <2>1, <2>2, <2>3, <2>4 DEF SightInv, DueIsInSight
  <2>6. QED
    BY <1>4, <2>5 DEF SightInv
<1>7. QED
  BY <1>5, <1>6

\* What the transformer can count on, as long as a consumer that writes local files
\* keeps its membership.
THEOREM SightHolds ==
  ASSUME LocalKeepsMembership
  PROVE  PipelineSpec => []SightInv
<1>1. PipelineInit => SightInv
  <2>1. SUFFICES ASSUME PipelineInit PROVE SightInv
    OBVIOUS
  <2>2. Init /\ due = {}
    BY <2>1 DEF PipelineInit
  <2>3. BronzeFollowsMode
    BY <2>2 DEF Init, WriterInit, StorageInit, NoContent, BronzeFollowsMode
  <2>4. QED
    BY <2>2, <2>3, SafetyInit DEF SightInv, DueIsInSight
<1>2. PipelineTypeOK /\ SightInv /\ [PipelineNext]_pipelineVars => SightInv'
  BY PipelineStepIsOneOf, ConsumerKeepsSight, PassKeepsSight
<1>3. QED
  BY <1>1, <1>2, PipelineTypesHold, PTL DEF PipelineSpec

\* A pass that ends normally leaves in silver every message that was committed when
\* it began, although the consumer rewrites files under the reader.
THEOREM CommittedMessagesGetThrough ==
  ASSUME LocalKeepsMembership
  PROVE  PipelineSpec => []CommittedGetsThrough
<1>1. PipelineTypeOK /\ ServicesInv /\ SightInv => CommittedGetsThrough
  <2>1. SUFFICES ASSUME PipelineTypeOK, ServicesInv, SightInv, silverPc = "done", NEW m \in due
                 PROVE  m \in Silver!Silver
    BY DEF CommittedGetsThrough
  <2>2. \E n \in stable : m \in S!RowsOf(n)
    BY <2>1 DEF SightInv, DueIsInSight, S!RowsOf
  <2>3. S!DoneMeansComplete
    BY <2>1, SameInv DEF ServicesInv, S!SilverInv
  <2>4. QED
    BY <2>1, <2>2, <2>3, SameState DEF S!DoneMeansComplete
<1>2. QED
  BY <1>1, PipelineTypesHold, ServicesInvHolds, SightHolds, PTL

\* Next to a transformer, the consumer still implements at-least-once delivery: a
\* pass takes nothing from bronze and acknowledges nothing.
THEOREM PipelineImplementsDelivery ==
  ASSUME LocalKeepsMembership
  PROVE  PipelineSpec => ImplementsDelivery
<1>1. PipelineInit => Delivered!Init
  BY InitRefines DEF PipelineInit
<1>2. /\ PipelineTypeOK /\ SightInv /\ PipelineTypeOK' /\ SightInv'
      /\ [PipelineNext]_pipelineVars
      => [Delivered!Next]_Delivered!vars
  <2>1. SUFFICES ASSUME PipelineTypeOK, SightInv, PipelineTypeOK', SightInv',
                        [PipelineNext]_pipelineVars
                 PROVE  [Delivered!Next]_Delivered!vars
    OBVIOUS
  <2>2. CASE [Next]_vars /\ Consuming
    BY <2>1, <2>2, StepRefines DEF PipelineTypeOK, SightInv
  <2>3. CASE (Silver!Progress \/ Silver!Failure) /\ Transforming
    <3>1. UNCHANGED <<log, committed, files, snapshots>>
      BY <2>3, PassKeepsBronze DEF topicVars, writerVars
    <3>2. UNCHANGED <<Valid, committed, Stored>>
      BY <3>1, ValidStays DEF Stored, Intact
    <3>3. QED
      BY <3>2 DEF Delivered!vars
  <2>4. QED
    BY <2>1, <2>2, <2>3, PipelineStepIsOneOf
<1>3. QED
  BY <1>1, <1>2, PipelineTypesHold, SightHolds, PTL
     DEF PipelineSpec, ImplementsDelivery, Delivered!Spec

=============================================================================
