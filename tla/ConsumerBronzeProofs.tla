------------------------ MODULE ConsumerBronzeProofs ------------------------
(***************************************************************************)
(* Theorems about ConsumerBronze, for any number of partitions, any log     *)
(* length, batch size and number of failures.                               *)
(***************************************************************************)
EXTENDS ConsumerBronze, FiniteSetTheorems, TLAPS

USE MessageAssumption, TopicAssumption, ConsumerAssumption

-----------------------------------------------------------------------------
(* Type correctness. *)

LEMMA TypeInit == Init => TypeOK
  BY DEF Init, TypeOK, TopicInit, TopicTypeOK, WriterInit, WriterTypeOK,
         StorageInit, StorageTypeOK,
         Running, FileContent, NoContent, Partitions

\* A published message makes its partition one longer.
LEMMA PublishType ==
  ASSUME TopicTypeOK, Publish
  PROVE  TopicTypeOK'
<1>1. PICK p \in Partitions, k \in Kinds :
        Len(log[p]) < MaxLog /\ log' = [log EXCEPT ![p] = Append(@, k)]
  BY DEF Publish
<1>2. Append(log[p], k) \in Seq(Kinds) /\ Len(Append(log[p], k)) = Len(log[p]) + 1
  BY DEF TopicTypeOK
<1>3. log' \in [Partitions -> Seq(Kinds)]
  BY <1>1, <1>2 DEF TopicTypeOK
<1>4. \A q \in Partitions : Len(log'[q]) <= MaxLog
  <2>1. TAKE q \in Partitions
  <2>2. CASE q = p
    BY <1>1, <1>2, <2>2 DEF TopicTypeOK
  <2>3. CASE q # p
    BY <1>1, <2>3 DEF TopicTypeOK
  <2>4. QED  BY <2>2, <2>3
<1>5. QED
  BY <1>3, <1>4 DEF TopicTypeOK, Publish

\* The consumer's own moves over the topic.
LEMMA TopicType ==
  ASSUME TopicTypeOK,
         \/ Rewind
         \/ CommitPositions
         \/ \E p \in Partitions : Deliver(p)
         \/ UNCHANGED topicVars
  PROVE  TopicTypeOK'
<1>1. CASE Rewind
  BY <1>1 DEF TopicTypeOK, Rewind
<1>2. CASE CommitPositions
  BY <1>2 DEF TopicTypeOK, CommitPositions
<1>3. ASSUME NEW p \in Partitions, Deliver(p)
      PROVE  TopicTypeOK'
  BY <1>3 DEF TopicTypeOK, Deliver
<1>4. CASE UNCHANGED topicVars
  BY <1>4 DEF TopicTypeOK, topicVars
<1>5. QED
  BY <1>1, <1>2, <1>3, <1>4

\* What a step can do to the topic, and what it can do to the writer.
LEMMA TopicStep ==
  ASSUME [Next]_vars
  PROVE  \/ Publish
         \/ Rewind
         \/ CommitPositions
         \/ \E p \in Partitions, k \in {"valid", "invalid"} : CanTake(p, k) /\ Deliver(p)
         \/ UNCHANGED topicVars
BY DEF Next, Progress, Poll, FlushStep, Failure, Start, Connect, ConnectFails,
       NextRecord, NextInvalid, NextGarbled, NextRejected, GeneratorFinished,
       IdleStop, EarlyStop, Rejoin, FlushNothing, FlushOpen, FlushSome, FlushClose,
       FlushAppend, FlushFails, Commit, CommitFails, Crash, vars, topicVars

LEMMA WriterStep ==
  ASSUME [Next]_vars
  PROVE  \/ \E p \in Partitions : CanTake(p, "valid") /\ BufferRow(NextOf(p))
         \/ OpenBatchFile
         \/ WriteSomeRows
         \/ CloseBatchFile
         \/ AppendSnapshot
         \/ AppendSnapshotFails
         \/ BatchFileFails
         \/ ClearBuffer /\ UNCHANGED storageVars
         \/ UNCHANGED writerVars
BY DEF Next, Progress, Poll, FlushStep, Failure, Start, Connect, ConnectFails,
       NextRecord, NextInvalid, NextGarbled, NextRejected, GeneratorFinished,
       IdleStop, EarlyStop, Rejoin, FlushNothing, FlushOpen, FlushSome, FlushClose,
       FlushAppend, FlushFails, Commit, CommitFails, Crash, vars

LEMMA WriterType ==
  ASSUME TypeOK, [Next]_vars
  PROVE  WriterTypeOK'
<1>1. WriterTypeOK
  BY DEF TypeOK
<1>2. ASSUME NEW p \in Partitions, CanTake(p, "valid"), BufferRow(NextOf(p))
      PROVE  WriterTypeOK'
  BY <1>1, <1>2 DEF CanTake, OfKind, BufferRow, WriterTypeOK, StorageTypeOK, storageVars
<1>3. CASE OpenBatchFile
  BY <1>1, <1>3 DEF OpenBatchFile, WriterTypeOK, StorageTypeOK, FileContent, NoContent
<1>4. CASE WriteSomeRows
  <2>1. PICK rows \in SUBSET buffer, tail \in {"whole", "torn"} :
          files' = [files EXCEPT ![target] = [rows |-> rows, tail |-> tail]]
    BY <1>4 DEF WriteSomeRows
  <2>2. [rows |-> rows, tail |-> tail] \in FileContent
    BY <1>1 DEF WriterTypeOK, StorageTypeOK, FileContent
  <2>3. QED
    BY <1>1, <1>4, <2>1, <2>2 DEF WriteSomeRows, WriterTypeOK, StorageTypeOK
<1>5. CASE CloseBatchFile
  <2>1. [rows |-> buffer, tail |-> "whole"] \in FileContent
    BY <1>1 DEF WriterTypeOK, StorageTypeOK, FileContent
  <2>2. QED
    BY <1>1, <1>5, <2>1 DEF CloseBatchFile, ClearBuffer, WriterTypeOK, StorageTypeOK
<1>6. Append(snapshots, buffer) \in Seq(SUBSET Messages)
  BY <1>1 DEF WriterTypeOK, StorageTypeOK
<1>7. CASE AppendSnapshot
  BY <1>1, <1>6, <1>7 DEF AppendSnapshot, ClearBuffer, WriterTypeOK, StorageTypeOK
<1>8. CASE AppendSnapshotFails
  BY <1>1, <1>6, <1>8 DEF AppendSnapshotFails, ClearBuffer, WriterTypeOK, StorageTypeOK
<1>9. CASE BatchFileFails
  BY <1>1, <1>9 DEF BatchFileFails, ClearBuffer, WriterTypeOK, StorageTypeOK, storageVars
<1>10. CASE ClearBuffer /\ UNCHANGED storageVars
  BY <1>1, <1>10 DEF ClearBuffer, WriterTypeOK, StorageTypeOK, storageVars
<1>11. CASE UNCHANGED writerVars
  BY <1>1, <1>11 DEF WriterTypeOK, StorageTypeOK, writerVars
<1>12. QED
  BY <1>2, <1>3, <1>4, <1>5, <1>7, <1>8, <1>9, <1>10, <1>11, WriterStep

LEMMA ServiceType ==
  ASSUME TypeOK, [Next]_vars
  PROVE  /\ pc' \in Running \union {"done", "failed"}
         /\ generator' \in {"live", "finished"}
         /\ count' \in Nat
         /\ phase' \in {"batch", "tail", "abort"}
         /\ faults' \in 0 .. MaxFaults
BY DEF TypeOK, Next, Progress, Poll, FlushStep, Failure, Start, Connect, ConnectFails,
       NextRecord, NextInvalid, NextGarbled, NextRejected, GeneratorFinished,
       IdleStop, EarlyStop, Rejoin, FlushNothing, FlushOpen, FlushSome, FlushClose,
       FlushAppend, FlushFails, Commit, CommitFails, Crash, vars, serviceVars,
       GoTo, Exit, Flush, Fault, AfterFlush, Running

LEMMA TypeStep ==
  ASSUME TypeOK, [Next]_vars
  PROVE  TypeOK'
<1>1. TopicTypeOK
  BY DEF TypeOK
<1>2. TopicTypeOK'
  BY <1>1, TopicStep, TopicType, PublishType
<1>3. QED
  BY <1>2, WriterType, ServiceType DEF TypeOK

\* Every variable keeps its type.
THEOREM TypeCorrect == Spec => []TypeOK
<1>1. TypeOK /\ [Next]_vars => TypeOK'
  BY TypeStep
<1>2. QED
  BY TypeInit, <1>1, PTL DEF Spec

-----------------------------------------------------------------------------
(* The log only grows: what was valid stays valid, and what becomes valid    *)
(* is beyond every offset already read.                                      *)

LEMMA ValidGrows ==
  ASSUME TypeOK, OffsetsOrdered, Publish
  PROVE  /\ Valid \subseteq Valid'
         /\ Valid' \intersect Below(position) \subseteq Valid
         /\ OffsetsOrdered'
<1>1. PICK p \in Partitions, k \in Kinds :
        Len(log[p]) < MaxLog /\ log' = [log EXCEPT ![p] = Append(@, k)]
  BY DEF Publish
<1>2. log \in [Partitions -> Seq(Kinds)]
  BY DEF TypeOK, TopicTypeOK
<1>3. \A q \in Partitions :
        /\ Len(log[q]) \in Nat
        /\ Len(log[q]) <= Len(log'[q])
        /\ \A i \in 1 .. Len(log[q]) : log'[q][i] = log[q][i]
  <2>1. TAKE q \in Partitions
  <2>2. log[q] \in Seq(Kinds)
    BY <1>2
  <2>3. CASE q = p
    <3>1. log'[q] = Append(log[q], k)
      BY <1>1, <1>2, <2>3
    <3>2. QED
      BY <2>2, <3>1
  <2>4. CASE q # p
    BY <1>1, <1>2, <2>2, <2>4
  <2>5. QED  BY <2>3, <2>4
<1>4. \A m \in Messages : m[2] < Len(log[m[1]]) =>
        /\ m[2] < Len(log'[m[1]])
        /\ log'[m[1]][m[2] + 1] = log[m[1]][m[2] + 1]
  <2>1. TAKE m \in Messages
  <2>2. m[1] \in Partitions /\ m[2] \in Nat
    BY DEF Messages, Offsets
  <2>3. /\ Len(log[m[1]]) \in Nat
        /\ Len(log[m[1]]) <= Len(log'[m[1]])
        /\ \A i \in 1 .. Len(log[m[1]]) : log'[m[1]][i] = log[m[1]][i]
    BY <1>3, <2>2
  <2>4. Len(log'[m[1]]) \in Nat
    BY <1>1, <1>2, <2>2
  <2>5. m[2] < Len(log[m[1]]) => m[2] + 1 \in 1 .. Len(log[m[1]])
    BY <2>2, <2>3
  <2>6. QED
    BY <2>2, <2>3, <2>4, <2>5
<1>5. Valid \subseteq Valid'
  BY <1>4 DEF Valid, OfKind
<1>6. \A m \in Messages : m \in Below(position) => m[2] < Len(log[m[1]])
  <2>1. TAKE m \in Messages
  <2>2. m[1] \in Partitions /\ m[2] \in Nat
    BY DEF Messages, Offsets
  <2>3. QED
    BY <1>3, <2>2 DEF Below, OffsetsOrdered, TypeOK, TopicTypeOK
<1>7. Valid' \intersect Below(position) \subseteq Valid
  BY <1>4, <1>6 DEF Valid, OfKind
<1>8. OffsetsOrdered'
  <2>1. SUFFICES ASSUME NEW q \in Partitions
                 PROVE  committed[q] <= position[q] /\ position[q] <= Len(log'[q])
    BY DEF OffsetsOrdered, Publish
  <2>2. Len(log'[q]) \in Nat
    BY <1>1, <1>2
  <2>3. QED
    BY <1>3, <2>2 DEF OffsetsOrdered, TypeOK, TopicTypeOK
<1>9. QED
  BY <1>5, <1>7, <1>8

LEMMA ValidStays ==
  ASSUME UNCHANGED log
  PROVE  Valid' = Valid
BY DEF Valid, OfKind

LEMMA CommittedIsRead ==
  ASSUME TypeOK, OffsetsOrdered
  PROVE  Below(committed) \subseteq Below(position)
BY DEF Below, OffsetsOrdered, TypeOK, TopicTypeOK, Messages, Offsets

-----------------------------------------------------------------------------
(* The inductive invariant. *)

LEMMA SafetyInit == Init => SafetyInv
<1>1. SUFFICES ASSUME Init PROVE SafetyInv
  OBVIOUS
<1>2. \A p \in Partitions : log[p] = <<>> /\ position[p] = 0 /\ committed[p] = 0
  BY <1>1 DEF Init, TopicInit
<1>3. Valid = {} /\ Below(committed) = {}
  BY <1>2 DEF Valid, OfKind, Below, Messages, Offsets
<1>4. OffsetsOrdered
  BY <1>2 DEF OffsetsOrdered
<1>5. BufferIsFresh /\ BronzeIsValid
  BY <1>1 DEF Init, WriterInit, StorageInit, BufferIsFresh, BronzeIsValid, NoContent
<1>6. QED
  BY <1>1, <1>3, <1>4, <1>5 DEF Init, SafetyInv, CommittedIsSettled,
     ReadIsBuffered, Unacknowledged, CommittingIsSettled

\* A step that leaves the log and bronze alone, whatever it does to the rest.
LEMMA BronzeStays ==
  ASSUME SafetyInv, UNCHANGED <<log, committed, files, snapshots>>
  PROVE  BronzeIsValid' /\ CommittedIsSettled'
<1>1. Valid' = Valid
  BY ValidStays
<1>2. QED
  BY <1>1 DEF SafetyInv, BronzeIsValid, CommittedIsSettled, Settled, Below

\* A step that only moves the process, with nothing buffered or being flushed.
LEMMA ProcessMoves ==
  ASSUME SafetyInv, UNCHANGED topicVars, UNCHANGED storageVars,
         buffer' = {}, pc' \in {"connecting", "done", "failed"}
  PROVE  SafetyInv'
<1>1. Valid' = Valid
  BY ValidStays DEF topicVars
<1>2. BronzeIsValid' /\ CommittedIsSettled'
  BY BronzeStays DEF topicVars, storageVars
<1>3. QED
  BY <1>1, <1>2 DEF SafetyInv, OffsetsOrdered, BufferIsFresh, ReadIsBuffered, Unacknowledged,
     CommittingIsSettled, topicVars

LEMMA StartStep ==
  ASSUME SafetyInv, Start \/ ConnectFails
  PROVE  SafetyInv'
BY ProcessMoves DEF Start, ConnectFails, Exit, GoTo, SafetyInv, BufferIsFresh,
   writerVars, storageVars

LEMMA CrashStep ==
  ASSUME SafetyInv, Crash \/ \E p \in Partitions : NextGarbled(p)
  PROVE  SafetyInv'
BY ProcessMoves DEF Crash, NextGarbled, Exit, ClearBuffer

LEMMA PublishStep ==
  ASSUME TypeOK, SafetyInv, Publish, UNCHANGED <<writerVars, serviceVars, faults>>
  PROVE  SafetyInv'
<1>1. /\ Valid \subseteq Valid'
      /\ Valid' \intersect Below(position) \subseteq Valid
      /\ OffsetsOrdered'
  BY ValidGrows DEF SafetyInv
<1>2. Below(position)' = Below(position) /\ Below(committed)' = Below(committed)
  BY DEF Publish, Below
<1>3. Below(committed) \subseteq Below(position)
  BY CommittedIsRead DEF SafetyInv
<1>4. \A m : Settled(m, committed)' = Settled(m, committed)
             /\ Settled(m, position)' = Settled(m, position)
  BY <1>2 DEF Settled, writerVars
<1>5. BufferIsFresh'
  BY <1>1, <1>2 DEF SafetyInv, BufferIsFresh, writerVars, serviceVars
<1>6. BronzeIsValid'
  BY <1>1 DEF SafetyInv, BronzeIsValid, writerVars
<1>7. CommittedIsSettled'
  BY <1>1, <1>2, <1>3, <1>4 DEF SafetyInv, CommittedIsSettled
<1>8. ReadIsBuffered'
  BY <1>1, <1>2 DEF SafetyInv, ReadIsBuffered, Unacknowledged, writerVars, serviceVars
<1>9. CommittingIsSettled'
  BY <1>1, <1>2, <1>4 DEF SafetyInv, CommittingIsSettled, serviceVars
<1>10. QED
  BY <1>1, <1>5, <1>6, <1>7, <1>8, <1>9 DEF SafetyInv

\* The new process resumes from the committed offsets with nothing in hand.
LEMMA ConnectStep ==
  ASSUME TypeOK, SafetyInv, Connect
  PROVE  SafetyInv'
<1>1. Valid' = Valid
  BY ValidStays DEF Connect, Rewind
<1>2. buffer = {} /\ buffer' = {}
  BY DEF Connect, SafetyInv, BufferIsFresh, writerVars
<1>3. BronzeIsValid' /\ CommittedIsSettled'
  BY BronzeStays DEF Connect, Rewind, writerVars
<1>4. Below(position)' = Below(committed)'
  BY DEF Connect, Rewind, Below
<1>5. OffsetsOrdered'
  <2>1. SUFFICES ASSUME NEW p \in Partitions
                 PROVE  committed[p] <= committed[p] /\ committed[p] <= Len(log[p])
    BY DEF OffsetsOrdered, Connect, Rewind
  <2>2. committed[p] \in Nat /\ position[p] \in Nat /\ Len(log[p]) \in Nat
    BY DEF TypeOK, TopicTypeOK
  <2>3. QED
    BY <2>2 DEF SafetyInv, OffsetsOrdered
<1>6. BufferIsFresh' /\ ReadIsBuffered' /\ CommittingIsSettled'
  BY <1>2, <1>4 DEF BufferIsFresh, ReadIsBuffered, Unacknowledged, CommittingIsSettled,
     Connect, GoTo
<1>7. QED
  BY <1>3, <1>5, <1>6 DEF SafetyInv

\* Reading a message adds exactly that message to what was read.
LEMMA DeliverReads ==
  ASSUME TypeOK, OffsetsOrdered, NEW p \in Partitions, NEW k, NextOf(p) \in OfKind(k),
         Deliver(p)
  PROVE  /\ OffsetsOrdered'
         /\ Valid' = Valid
         /\ Below(position)' = Below(position) \union {NextOf(p)}
         /\ NextOf(p) \in Messages
         /\ NextOf(p) \notin Below(committed)
<1>1. position[p] < Len(log[p]) /\ NextOf(p) \in Messages
  BY DEF OfKind, NextOf
<1>2. position \in [Partitions -> Nat] /\ committed \in [Partitions -> Nat]
  BY DEF TypeOK, TopicTypeOK
<1>3. position' = [position EXCEPT ![p] = @ + 1]
  BY DEF Deliver
<1>4. OffsetsOrdered'
  <2>1. SUFFICES ASSUME NEW q \in Partitions
                 PROVE  committed[q] <= position'[q] /\ position'[q] <= Len(log[q])
    BY DEF OffsetsOrdered, Deliver
  <2>2. Len(log[q]) \in Nat
    BY DEF TypeOK, TopicTypeOK
  <2>3. QED
    BY <1>1, <1>2, <1>3, <2>2 DEF OffsetsOrdered
<1>5. \A m \in Messages : m[2] < position'[m[1]] <=> m[2] < position[m[1]] \/ m = NextOf(p)
  <2>1. TAKE m \in Messages
  <2>2. m = <<m[1], m[2]>> /\ m[1] \in Partitions /\ m[2] \in Nat
    BY DEF Messages, Offsets
  <2>3. CASE m[1] = p
    BY <1>2, <1>3, <2>2, <2>3 DEF NextOf
  <2>4. CASE m[1] # p
    BY <1>2, <1>3, <2>2, <2>4 DEF NextOf
  <2>5. QED
    BY <2>3, <2>4
<1>6. Below(position)' = Below(position) \union {NextOf(p)}
  BY <1>1, <1>5 DEF Below
<1>7. NextOf(p) \notin Below(committed)
  BY <1>2 DEF NextOf, Below, OffsetsOrdered
<1>8. QED
  BY <1>1, <1>4, <1>6, <1>7, ValidStays DEF Deliver

LEMMA NextRecordStep ==
  ASSUME TypeOK, SafetyInv, NEW p \in Partitions, NextRecord(p)
  PROVE  SafetyInv'
<1>1. /\ pc = "polling"
      /\ pc' \in {"polling", "flushing"}
      /\ buffer' = buffer \union {NextOf(p)}
      /\ mode' = mode
      /\ NextOf(p) \in Valid
      /\ Deliver(p)
  BY DEF NextRecord, CanTake, Flush, BufferRow, Valid, storageVars
<1>2. /\ OffsetsOrdered'
      /\ Valid' = Valid
      /\ Below(position)' = Below(position) \union {NextOf(p)}
      /\ NextOf(p) \notin Below(committed)
  BY <1>1, DeliverReads DEF Valid, SafetyInv
<1>3. Below(committed)' = Below(committed)
  BY <1>1 DEF Deliver, Below
<1>4. BronzeIsValid' /\ CommittedIsSettled'
  BY <1>1, BronzeStays DEF NextRecord, BufferRow, Deliver, storageVars
<1>5. BufferIsFresh'
  BY <1>1, <1>2, <1>3 DEF SafetyInv, BufferIsFresh
<1>6. ReadIsBuffered'
  BY <1>1, <1>2, <1>3 DEF SafetyInv, ReadIsBuffered, Unacknowledged
<1>7. CommittingIsSettled'
  BY <1>1 DEF CommittingIsSettled
<1>8. QED
  BY <1>2, <1>4, <1>5, <1>6, <1>7 DEF SafetyInv

LEMMA NextInvalidStep ==
  ASSUME TypeOK, SafetyInv, NEW p \in Partitions, NextInvalid(p)
  PROVE  SafetyInv'
<1>1. /\ pc = "polling"
      /\ NextOf(p) \in OfKind("invalid")
      /\ NextOf(p) \notin Valid
      /\ Deliver(p)
      /\ UNCHANGED <<pc, phase, mode, buffer, target, files, snapshots>>
  BY DEF NextInvalid, CanTake, OfKind, Valid, writerVars
<1>2. /\ OffsetsOrdered'
      /\ Valid' = Valid
      /\ Below(position)' = Below(position) \union {NextOf(p)}
  BY <1>1, DeliverReads DEF SafetyInv
<1>3. Below(committed)' = Below(committed)
  BY <1>1 DEF Deliver, Below
<1>4. BronzeIsValid' /\ CommittedIsSettled'
  BY <1>1, BronzeStays DEF Deliver
<1>5. BufferIsFresh'
  BY <1>1, <1>2, <1>3 DEF SafetyInv, BufferIsFresh
<1>6. ReadIsBuffered'
  BY <1>1, <1>2, <1>3 DEF SafetyInv, ReadIsBuffered, Unacknowledged
<1>7. CommittingIsSettled'
  BY <1>1 DEF CommittingIsSettled
<1>8. QED
  BY <1>2, <1>4, <1>5, <1>6, <1>7 DEF SafetyInv

\* The message of a ConsumerError is read and not buffered; phase "abort" keeps
\* it from being committed.
LEMMA NextRejectedStep ==
  ASSUME TypeOK, SafetyInv, NEW p \in Partitions, NextRejected(p)
  PROVE  SafetyInv'
<1>1. /\ pc = "polling"
      /\ pc' = "flushing"
      /\ phase' = "abort"
      /\ NextOf(p) \in OfKind("valid")
      /\ Deliver(p)
      /\ UNCHANGED <<mode, buffer, target, files, snapshots>>
  BY DEF NextRejected, CanTake, Flush, writerVars
<1>2. /\ OffsetsOrdered'
      /\ Valid' = Valid
      /\ Below(position)' = Below(position) \union {NextOf(p)}
  BY <1>1, DeliverReads DEF SafetyInv
<1>3. Below(committed)' = Below(committed)
  BY <1>1 DEF Deliver, Below
<1>4. BronzeIsValid' /\ CommittedIsSettled'
  BY <1>1, BronzeStays DEF Deliver
<1>5. BufferIsFresh'
  BY <1>1, <1>2, <1>3 DEF SafetyInv, BufferIsFresh
<1>6. ReadIsBuffered' /\ CommittingIsSettled'
  BY <1>1 DEF ReadIsBuffered, Unacknowledged, CommittingIsSettled
<1>7. QED
  BY <1>2, <1>4, <1>5, <1>6 DEF SafetyInv

\* The end of the iteration: the tail is to be flushed.
LEMMA StopStep ==
  ASSUME SafetyInv, GeneratorFinished \/ IdleStop \/ EarlyStop
  PROVE  SafetyInv'
<1>1. /\ pc = "polling"
      /\ pc' = "flushing"
      /\ UNCHANGED <<log, position, committed, mode, buffer, target, files, snapshots>>
  BY DEF GeneratorFinished, IdleStop, EarlyStop, Flush, topicVars, writerVars
<1>2. Valid' = Valid
  BY <1>1, ValidStays
<1>3. BronzeIsValid' /\ CommittedIsSettled'
  BY <1>1, BronzeStays
<1>4. QED
  BY <1>1, <1>2, <1>3 DEF SafetyInv, OffsetsOrdered, BufferIsFresh,
     ReadIsBuffered, Unacknowledged, CommittingIsSettled, Below

\* In the cloud, a consumer that rejoins reads again what is not committed, with
\* part of it still in the buffer.
LEMMA RejoinStep ==
  ASSUME LocalKeepsMembership, TypeOK, SafetyInv, Rejoin
  PROVE  SafetyInv'
<1>1. /\ pc = "polling"
      /\ mode # "local"
      /\ position' = committed
      /\ UNCHANGED <<log, committed, mode, buffer, target, files, snapshots, pc, phase>>
  BY DEF Rejoin, Rewind, LocalKeepsMembership, writerVars, serviceVars
<1>2. Valid' = Valid /\ Below(committed)' = Below(committed)
  BY <1>1, ValidStays DEF Below
<1>3. Below(position)' = Below(committed)'
  BY <1>1 DEF Below
<1>4. BronzeIsValid' /\ CommittedIsSettled'
  BY <1>1, BronzeStays
<1>5. OffsetsOrdered'
  <2>1. SUFFICES ASSUME NEW p \in Partitions
                 PROVE  committed[p] <= committed[p] /\ committed[p] <= Len(log[p])
    BY <1>1 DEF OffsetsOrdered
  <2>2. committed[p] \in Nat /\ position[p] \in Nat /\ Len(log[p]) \in Nat
    BY DEF TypeOK, TopicTypeOK
  <2>3. QED
    BY <2>2 DEF SafetyInv, OffsetsOrdered
<1>6. BufferIsFresh' /\ ReadIsBuffered' /\ CommittingIsSettled'
  BY <1>1, <1>2, <1>3 DEF SafetyInv, BufferIsFresh, ReadIsBuffered, Unacknowledged,
     CommittingIsSettled
<1>7. QED
  BY <1>4, <1>5, <1>6 DEF SafetyInv

-----------------------------------------------------------------------------
(* The flush.  What protects committed rows from a truncation: the file being *)
(* written is named after a row that is not committed.                        *)

LEMMA TruncationSpares ==
  ASSUME SafetyInv, NEW name \in buffer, NEW content,
         files \in [Messages -> FileContent],
         files' = [files EXCEPT ![name] = content],
         UNCHANGED <<committed, snapshots>>,
         NEW m, Settled(m, committed)
  PROVE  Settled(m, committed)'
<1>1. name \notin Below(committed)
  BY DEF SafetyInv, BufferIsFresh
<1>2. CASE \E i \in 1 .. Len(snapshots) : m \in snapshots[i]
  BY <1>2 DEF Settled
<1>3. CASE \E n \in Messages :
             m \in files[n].rows /\ files[n].tail = "whole" /\ n \in Below(committed)
  BY <1>1, <1>3 DEF Settled, Below
<1>4. QED
  BY <1>2, <1>3 DEF Settled

\* The file being written holds part of the batch, hence valid rows.
LEMMA WritesValidRows ==
  ASSUME SafetyInv, NEW name, NEW content \in FileContent,
         content.rows \subseteq buffer,
         files \in [Messages -> FileContent],
         files' = [files EXCEPT ![name] = content],
         UNCHANGED <<log, snapshots>>
  PROVE  BronzeIsValid'
<1>1. Valid' = Valid
  BY ValidStays
<1>2. content.rows \subseteq Valid
  BY DEF SafetyInv, BufferIsFresh
<1>3. QED
  BY <1>1, <1>2 DEF SafetyInv, BronzeIsValid

\* Opening or filling the batch file.
LEMMA WritingStep ==
  ASSUME TypeOK, SafetyInv, FlushOpen \/ FlushSome
  PROVE  SafetyInv'
<1>1. /\ UNCHANGED <<log, position, committed, mode, buffer, snapshots, phase>>
      /\ mode = "local"
      /\ pc \in {"flushing", "writing"}
      /\ pc' = "writing"
  BY DEF FlushOpen, FlushSome, OpenBatchFile, WriteSomeRows, GoTo, topicVars, serviceVars,
     SafetyInv, BufferIsFresh
<1>2. \E name \in buffer, content \in FileContent :
        /\ content.rows \subseteq buffer
        /\ files' = [files EXCEPT ![name] = content]
        /\ target' = name
  <2>1. CASE FlushOpen
    <3>1. NoContent \in FileContent /\ NoContent.rows = {}
      BY DEF FileContent, NoContent
    <3>2. QED
      BY <2>1, <3>1 DEF FlushOpen, OpenBatchFile
  <2>2. CASE FlushSome
    <3>1. PICK rows \in SUBSET buffer, tail \in {"whole", "torn"} :
            files' = [files EXCEPT ![target] = [rows |-> rows, tail |-> tail]]
      BY <2>2 DEF FlushSome, WriteSomeRows
    <3>2. [rows |-> rows, tail |-> tail] \in FileContent
      BY DEF FileContent, TypeOK, WriterTypeOK, StorageTypeOK
    <3>3. target \in buffer /\ target' = target
      BY <2>2 DEF FlushSome, WriteSomeRows, SafetyInv, BufferIsFresh
    <3>4. QED
      BY <3>1, <3>2, <3>3
  <2>3. QED
    BY <2>1, <2>2
<1>3. files \in [Messages -> FileContent]
  BY DEF TypeOK, WriterTypeOK, StorageTypeOK
<1>4. Valid' = Valid /\ Below(position)' = Below(position) /\ Below(committed)' = Below(committed)
  BY <1>1, ValidStays DEF Below
<1>5. BronzeIsValid'
  BY <1>1, <1>2, <1>3, WritesValidRows
<1>6. CommittedIsSettled'
  BY <1>1, <1>2, <1>3, <1>4, TruncationSpares DEF SafetyInv, CommittedIsSettled
<1>7. OffsetsOrdered' /\ BufferIsFresh' /\ ReadIsBuffered' /\ CommittingIsSettled'
  BY <1>1, <1>2, <1>4 DEF SafetyInv, OffsetsOrdered, BufferIsFresh, ReadIsBuffered, Unacknowledged,
     CommittingIsSettled
<1>8. QED
  BY <1>5, <1>6, <1>7 DEF SafetyInv

\* What follows a flush() that returned, once its batch is settled.
LEMMA FlushedStep ==
  ASSUME TypeOK, SafetyInv,
         pc \in {"flushing", "writing"}, AfterFlush,
         UNCHANGED topicVars, buffer' = {},
         BronzeIsValid', CommittedIsSettled',
         \A m \in buffer : Settled(m, position)'
  PROVE  SafetyInv'
<1>1. /\ UNCHANGED <<log, position, committed>>
      /\ pc' \in {"failed", "committing"}
      /\ pc' = "committing" => phase # "abort"
  BY DEF topicVars, AfterFlush, Exit, GoTo
<1>2. Valid' = Valid /\ Below(position)' = Below(position) /\ Below(committed)' = Below(committed)
  BY <1>1, ValidStays DEF Below
<1>3. CommittingIsSettled'
  <2>1. SUFFICES ASSUME pc' = "committing", NEW m \in Valid \intersect Below(position)
                 PROVE  Settled(m, position)'
    BY <1>2 DEF CommittingIsSettled
  <2>2. CASE m \in Below(committed)
    <3>1. Settled(m, committed)'
      BY <1>2, <2>2 DEF CommittedIsSettled
    <3>2. Below(committed)' \subseteq Below(position)'
      BY <1>2, CommittedIsRead DEF SafetyInv
    <3>3. QED
      BY <3>1, <3>2 DEF Settled
  <2>3. CASE m \notin Below(committed)
    BY <1>1, <2>1, <2>3 DEF SafetyInv, ReadIsBuffered, Unacknowledged
  <2>4. QED
    BY <2>2, <2>3
<1>4. OffsetsOrdered' /\ BufferIsFresh' /\ ReadIsBuffered'
  BY <1>1, <1>2 DEF SafetyInv, OffsetsOrdered, BufferIsFresh, ReadIsBuffered, Unacknowledged
<1>5. QED
  BY <1>3, <1>4 DEF SafetyInv

LEMMA FlushNothingStep ==
  ASSUME TypeOK, SafetyInv, FlushNothing
  PROVE  SafetyInv'
<1>1. BronzeIsValid' /\ CommittedIsSettled'
  BY BronzeStays DEF FlushNothing, topicVars, writerVars
<1>2. QED
  BY <1>1, FlushedStep DEF FlushNothing, writerVars

LEMMA FlushCloseStep ==
  ASSUME TypeOK, SafetyInv, FlushClose
  PROVE  SafetyInv'
<1> DEFINE content == [rows |-> buffer, tail |-> "whole"]
<1>1. /\ pc = "writing"
      /\ target \in buffer
      /\ files' = [files EXCEPT ![target] = content]
      /\ buffer' = {}
      /\ UNCHANGED <<log, position, committed, snapshots>>
  BY DEF FlushClose, CloseBatchFile, ClearBuffer, topicVars, SafetyInv, BufferIsFresh
<1>2. content \in FileContent /\ content.rows \subseteq buffer
  BY DEF FileContent, TypeOK, WriterTypeOK, StorageTypeOK
<1>3. files \in [Messages -> FileContent] /\ buffer \subseteq Messages
  BY DEF TypeOK, WriterTypeOK, StorageTypeOK
<1>4. BronzeIsValid'
  BY <1>1, <1>2, <1>3, WritesValidRows
<1>5. Valid' = Valid /\ Below(committed)' = Below(committed) /\ Below(position)' = Below(position)
  BY <1>1, ValidStays DEF Below
<1>6. CommittedIsSettled'
  BY <1>1, <1>3, <1>5, TruncationSpares DEF SafetyInv, CommittedIsSettled
<1>7. \A m \in buffer : Settled(m, position)'
  <2>1. SUFFICES ASSUME NEW m \in buffer
                 PROVE  Settled(m, position)'
    OBVIOUS
  <2>2. target \in Messages /\ target \in Below(position)
    BY <1>1, <1>3 DEF SafetyInv, BufferIsFresh
  <2>3. files'[target] = content
    BY <1>1, <1>3, <2>2
  <2>4. QED
    BY <1>5, <2>2, <2>3 DEF Settled
<1>8. QED
  BY <1>1, <1>4, <1>6, <1>7, FlushedStep DEF FlushClose

\* A snapshot added to the table takes nothing away from it.
LEMMA SnapshotAdds ==
  ASSUME TypeOK, SafetyInv,
         snapshots' \in {snapshots, Append(snapshots, buffer)},
         UNCHANGED <<log, committed, files>>
  PROVE  BronzeIsValid' /\ CommittedIsSettled'
<1>1. CASE snapshots' = snapshots
  BY <1>1, BronzeStays
<1>2. CASE snapshots' = Append(snapshots, buffer)
  <2>1. snapshots \in Seq(SUBSET Messages) /\ buffer \in SUBSET Messages
    BY DEF TypeOK, WriterTypeOK, StorageTypeOK
  <2>2. /\ Len(snapshots') = Len(snapshots) + 1
        /\ \A i \in 1 .. Len(snapshots) : snapshots'[i] = snapshots[i]
        /\ snapshots'[Len(snapshots) + 1] = buffer
    BY <1>2, <2>1
  <2>3. Len(snapshots) \in Nat
    BY <2>1
  <2>4. Valid' = Valid /\ Below(committed)' = Below(committed)
    BY ValidStays DEF Below
  <2>5. \A i \in 1 .. Len(snapshots') : snapshots'[i] \subseteq Valid
    BY <2>2, <2>3 DEF SafetyInv, BronzeIsValid, BufferIsFresh
  <2>6. BronzeIsValid'
    BY <2>4, <2>5 DEF SafetyInv, BronzeIsValid
  <2>7. \A m : Settled(m, committed) => Settled(m, committed)'
    BY <2>2, <2>3, <2>4 DEF Settled
  <2>8. QED
    BY <2>4, <2>6, <2>7 DEF SafetyInv, CommittedIsSettled
<1>3. QED
  BY <1>1, <1>2

LEMMA FlushAppendStep ==
  ASSUME TypeOK, SafetyInv, FlushAppend
  PROVE  SafetyInv'
<1>1. /\ pc = "flushing"
      /\ snapshots' = Append(snapshots, buffer)
      /\ buffer' = {}
      /\ UNCHANGED <<log, position, committed, files>>
  BY DEF FlushAppend, AppendSnapshot, ClearBuffer, topicVars
<1>2. BronzeIsValid' /\ CommittedIsSettled'
  BY <1>1, SnapshotAdds
<1>3. \A m \in buffer : Settled(m, position)'
  <2>1. snapshots \in Seq(SUBSET Messages) /\ buffer \in SUBSET Messages
    BY DEF TypeOK, WriterTypeOK, StorageTypeOK
  <2>2. /\ Len(snapshots) + 1 \in 1 .. Len(snapshots')
        /\ snapshots'[Len(snapshots) + 1] = buffer
    BY <1>1, <2>1
  <2>3. QED
    BY <2>2 DEF Settled
<1>4. QED
  BY <1>1, <1>2, <1>3, FlushedStep DEF FlushAppend

\* storage_retry leaves IcebergWriteError alone.
LEMMA WriteErrorsAreRaised == ~IsRetried("storage", "IcebergWriteError")
BY DEF IsRetried, Ancestors, RetriedTypes

LEMMA FlushFailsStep ==
  ASSUME TypeOK, SafetyInv, FlushFails
  PROVE  SafetyInv'
<1>1. CASE BatchFileFails
  BY <1>1, WriteErrorsAreRaised, ProcessMoves DEF FlushFails, BatchFileFails, ClearBuffer, Exit
<1>2. CASE AppendSnapshotFails
  <2>1. /\ snapshots' \in {snapshots, Append(snapshots, buffer)}
        /\ pc' = "failed"
        /\ buffer' = {}
        /\ UNCHANGED <<log, position, committed, files>>
    BY <1>2, WriteErrorsAreRaised
       DEF FlushFails, AppendSnapshotFails, ClearBuffer, Exit, topicVars
  <2>2. BronzeIsValid' /\ CommittedIsSettled'
    BY <2>1, SnapshotAdds
  <2>3. OffsetsOrdered' /\ BufferIsFresh' /\ ReadIsBuffered' /\ CommittingIsSettled'
    BY <2>1 DEF SafetyInv, OffsetsOrdered, BufferIsFresh, ReadIsBuffered, Unacknowledged,
       CommittingIsSettled
  <2>4. QED
    BY <2>2, <2>3 DEF SafetyInv
<1>3. QED
  BY <1>1, <1>2 DEF FlushFails

-----------------------------------------------------------------------------
(* The commit. *)

LEMMA CommitStep ==
  ASSUME TypeOK, SafetyInv, pc = "committing", CommitPositions,
         UNCHANGED writerVars, pc' \in {"polling", "done", "failed"}
  PROVE  SafetyInv'
<1>1. committed' = position /\ UNCHANGED <<log, position, buffer, files, snapshots>>
  BY DEF CommitPositions, writerVars
<1>2. /\ Valid' = Valid
      /\ Below(position)' = Below(position)
      /\ Below(committed)' = Below(position)
  BY <1>1, ValidStays DEF Below
<1>3. buffer' = {}
  BY <1>1 DEF SafetyInv, BufferIsFresh
<1>4. OffsetsOrdered'
  <2>1. \A p \in Partitions : position[p] <= position[p]
    BY DEF TypeOK, TopicTypeOK
  <2>2. QED
    BY <1>1, <2>1 DEF SafetyInv, OffsetsOrdered
<1>5. BronzeIsValid'
  BY <1>1, <1>2 DEF SafetyInv, BronzeIsValid
<1>6. CommittedIsSettled'
  <2>1. \A m : Settled(m, position) => Settled(m, committed)'
    BY <1>1, <1>2 DEF Settled
  <2>2. QED
    BY <1>2, <2>1 DEF SafetyInv, CommittingIsSettled, CommittedIsSettled
<1>7. BufferIsFresh' /\ ReadIsBuffered' /\ CommittingIsSettled'
  BY <1>2, <1>3 DEF BufferIsFresh, ReadIsBuffered, Unacknowledged, CommittingIsSettled
<1>8. QED
  BY <1>4, <1>5, <1>6, <1>7 DEF SafetyInv

LEMMA CommitFailsStep ==
  ASSUME TypeOK, SafetyInv, CommitFails
  PROVE  SafetyInv'
<1>1. CASE CommitPositions
  BY <1>1, CommitStep DEF CommitFails, Exit
<1>2. CASE UNCHANGED topicVars
  BY <1>2, ProcessMoves DEF CommitFails, Exit, SafetyInv, BufferIsFresh,
     writerVars, storageVars
<1>3. QED
  BY <1>1, <1>2 DEF CommitFails

-----------------------------------------------------------------------------

LEMMA SafetyStep ==
  ASSUME LocalKeepsMembership, TypeOK, SafetyInv, [Next]_vars
  PROVE  SafetyInv'
<1>1. CASE Publish /\ UNCHANGED <<writerVars, serviceVars, faults>>
  BY <1>1, PublishStep
<1>2. CASE Progress
  <2>1. CASE Start
    BY <2>1, StartStep
  <2>2. CASE Connect
    BY <2>2, ConnectStep
  <2>3. CASE Poll
    BY <2>3, NextRecordStep, NextInvalidStep, CrashStep, StopStep DEF Poll
  <2>4. CASE FlushStep
    BY <2>4, FlushNothingStep, WritingStep, FlushCloseStep, FlushAppendStep DEF FlushStep
  <2>5. CASE Commit
    BY <2>5, CommitStep DEF Commit, GoTo, Exit
  <2>6. QED
    BY <1>2, <2>1, <2>2, <2>3, <2>4, <2>5 DEF Progress
<1>3. CASE FlushSome
  BY <1>3, WritingStep
<1>4. CASE Failure
  BY <1>4, StartStep, NextRejectedStep, StopStep, RejoinStep, FlushFailsStep,
     CommitFailsStep, CrashStep DEF Failure
<1>5. CASE UNCHANGED vars
  <2>1. UNCHANGED <<topicVars, writerVars, serviceVars>>
    BY <1>5 DEF vars
  <2>2. Valid' = Valid
    BY <2>1, ValidStays DEF topicVars
  <2>3. BronzeIsValid' /\ CommittedIsSettled'
    BY <2>1, BronzeStays DEF topicVars, writerVars
  <2>4. CommittingIsSettled'
    BY <2>1, <2>2 DEF SafetyInv, CommittingIsSettled, Settled, Below,
       topicVars, writerVars, serviceVars
  <2>5. QED
    BY <2>1, <2>2, <2>3, <2>4 DEF SafetyInv, OffsetsOrdered, BufferIsFresh,
       ReadIsBuffered, Unacknowledged, Below, topicVars, writerVars, serviceVars
<1>6. QED
  BY <1>1, <1>2, <1>3, <1>4, <1>5 DEF Next

\* The inductive invariant holds in every reachable state.
THEOREM SafetyHolds ==
  ASSUME LocalKeepsMembership
  PROVE  Spec => []SafetyInv
<1>1. Init => SafetyInv
  BY SafetyInit
<1>2. TypeOK /\ SafetyInv /\ [Next]_vars => SafetyInv'
  BY SafetyStep
<1>3. QED
  BY <1>1, <1>2, TypeCorrect, PTL DEF Spec

\* Every message that the group has committed is in an intact object of bronze,
\* whatever crashed, failed or was overwritten on the way; in the cloud also when
\* the consumer lost its membership and rejoined.
THEOREM CommittedMessagesAreDurable ==
  ASSUME LocalKeepsMembership
  PROVE  Spec => []CommittedIsDurable
<1>1. SafetyInv => CommittedIsDurable
  BY DEF SafetyInv, CommittedIsSettled, CommittedIsDurable, Settled, Stored,
     Intact, Valid, OfKind
<1>2. QED
  BY <1>1, SafetyHolds, PTL

-----------------------------------------------------------------------------
(* Refinement: the consumer implements Delivery.                            *)

\* Bronze holds valid messages only, and all the committed ones.
LEMMA StoredBetween ==
  ASSUME TypeOK, SafetyInv
  PROVE  Stored \subseteq Valid /\ Delivered!Covered(committed) \subseteq Stored
<1>1. Stored \subseteq Valid
  BY DEF SafetyInv, BronzeIsValid, Stored, Intact
<1>2. Delivered!Covered(committed) \subseteq Stored
  BY DEF Delivered!Covered, SafetyInv, CommittedIsSettled, Settled, Stored,
     Intact, Valid, OfKind, Below
<1>3. QED
  BY <1>1, <1>2

\* The three ways a step looks from outside.
LEMMA StepIsOneOf ==
  ASSUME [Next]_vars
  PROVE  \/ Publish /\ UNCHANGED <<files, snapshots>>
         \/ CommitPositions /\ UNCHANGED <<files, snapshots>>
         \/ UNCHANGED <<log, committed>>
<1>1. [Next]_vars
  OBVIOUS
<1>2. CASE Publish /\ UNCHANGED <<writerVars, serviceVars, faults>>
  BY <1>2 DEF writerVars
<1>3. CASE Progress
  BY <1>3 DEF Progress, Poll, FlushStep, Start, Connect, NextRecord, NextInvalid,
     NextGarbled, GeneratorFinished, IdleStop, FlushNothing, FlushOpen, FlushClose,
     FlushAppend, Commit, Rewind, Deliver, topicVars, writerVars
<1>4. CASE FlushSome
  BY <1>4 DEF FlushSome, topicVars
<1>5. CASE Failure
  BY <1>5 DEF Failure, ConnectFails, NextRejected, EarlyStop, Rejoin, Rewind, FlushFails,
     CommitFails, Crash, Deliver, topicVars, writerVars
<1>6. CASE UNCHANGED vars
  BY <1>6 DEF vars, topicVars
<1>7. QED
  BY <1>1, <1>2, <1>3, <1>4, <1>5, <1>6 DEF Next

LEMMA InitRefines == Init => Delivered!Init
<1>1. SUFFICES ASSUME Init PROVE Delivered!Init
  OBVIOUS
<1>2. Valid = {}
  BY <1>1 DEF Init, TopicInit, Valid, OfKind, Messages, Offsets
<1>3. Stored = {}
  BY <1>1 DEF Init, WriterInit, StorageInit, Stored, Intact, NoContent
<1>4. QED
  BY <1>1, <1>2, <1>3 DEF Delivered!Init, Init, TopicInit

\* A published message is accepted, when it is valid, beyond what is committed.
\* A publication makes one more message valid, or none, and not a committed one.
LEMMA PublishAccepts ==
  ASSUME TypeOK, OffsetsOrdered, Publish
  PROVE  \/ Valid' = Valid
         \/ \E m \in Messages \ Valid :
              committed[m[1]] <= m[2] /\ Valid' = Valid \union {m}
<1>1. PICK p \in Partitions, k \in Kinds :
        Len(log[p]) < MaxLog /\ log' = [log EXCEPT ![p] = Append(@, k)]
  BY DEF Publish
<1> DEFINE new == <<p, Len(log[p])>>
<1>2. log \in [Partitions -> Seq(Kinds)]
  BY DEF TypeOK, TopicTypeOK
<1>3. new \in Messages
  BY <1>1, <1>2 DEF Messages, Offsets
<1>4. Valid' \subseteq Valid \union {new}
  <2>1. SUFFICES ASSUME NEW m \in Messages, m \in Valid', m # new PROVE m \in Valid
    BY DEF Valid, OfKind
  <2>2. m = <<m[1], m[2]>> /\ m[1] \in Partitions /\ m[2] \in Nat
    BY DEF Messages, Offsets
  <2>3. log[p] \in Seq(Kinds)
    BY <1>2
  <2>4. CASE m[1] = p
    <3>1. log'[p] = Append(log[p], k)
      BY <1>1, <1>2
    <3>2. m[2] < Len(log[p]) + 1 /\ m[2] # Len(log[p])
      BY <2>1, <2>2, <2>3, <2>4, <3>1 DEF Valid, OfKind
    <3>3. m[2] < Len(log[p]) /\ log'[p][m[2] + 1] = log[p][m[2] + 1]
      BY <2>2, <2>3, <3>1, <3>2
    <3>4. QED
      BY <2>1, <2>4, <3>3 DEF Valid, OfKind
  <2>5. CASE m[1] # p
    BY <1>1, <1>2, <2>1, <2>2, <2>5 DEF Valid, OfKind
  <2>6. QED
    BY <2>4, <2>5
<1>5. Valid \subseteq Valid'
  BY ValidGrows
<1>6. committed[p] <= Len(log[p])
  <2>1. committed[p] \in Nat /\ position[p] \in Nat /\ Len(log[p]) \in Nat
    BY <1>2 DEF TypeOK, TopicTypeOK
  <2>2. QED
    BY <2>1 DEF OffsetsOrdered
<1>7. CASE Valid' = Valid \union {new} /\ new \notin Valid
  <2>1. new[1] = p /\ new[2] = Len(log[p])
    OBVIOUS
  <2>2. QED
    BY <1>3, <1>6, <1>7, <2>1
<1>8. QED
  BY <1>4, <1>5, <1>7

LEMMA StepRefines ==
  ASSUME TypeOK, SafetyInv, TypeOK', SafetyInv', [Next]_vars
  PROVE  [Delivered!Next]_Delivered!vars
<1>1. /\ Stored' \subseteq Valid'
      /\ {m \in Valid' : m[2] < committed'[m[1]]} \subseteq Stored'
  <2>1. TypeOK' /\ SafetyInv' => Stored' \subseteq Valid'
    BY DEF SafetyInv, BronzeIsValid, Stored, Intact
  <2>2. TypeOK' /\ SafetyInv' => {m \in Valid' : m[2] < committed'[m[1]]} \subseteq Stored'
    BY DEF SafetyInv, CommittedIsSettled, Settled, Stored, Intact, Valid, OfKind, Below
  <2>3. QED
    BY <2>1, <2>2
<1>2. CASE Publish /\ UNCHANGED <<files, snapshots>>
  <2>1. UNCHANGED <<committed, Stored>>
    BY <1>2 DEF Publish, Stored, Intact
  <2>2. Delivered!Accept \/ UNCHANGED Delivered!vars
    BY <1>2, <2>1, PublishAccepts DEF SafetyInv, Delivered!Accept, Delivered!vars, Messages
  <2>3. QED
    BY <2>2 DEF Delivered!Next
<1>3. CASE CommitPositions /\ UNCHANGED <<files, snapshots>>
  <2>1. Valid' = Valid /\ Stored' = Stored
    BY <1>3, ValidStays DEF CommitPositions, Stored, Intact
  <2>2. committed' \in [Partitions -> Nat]
        /\ \A p \in Partitions : committed[p] <= committed'[p]
    BY <1>3 DEF CommitPositions, TypeOK, TopicTypeOK, SafetyInv, OffsetsOrdered
  <2>3. Delivered!Ack
    BY <1>1, <2>1, <2>2 DEF Delivered!Ack, Delivered!Covered
  <2>4. QED
    BY <2>3 DEF Delivered!Next
<1>4. CASE UNCHANGED <<log, committed>>
  <2>1. Valid' = Valid
    BY <1>4, ValidStays
  <2>2. Delivered!Store
    BY <1>1, <1>4, <2>1 DEF Delivered!Store, Delivered!Covered
  <2>3. QED
    BY <2>2 DEF Delivered!Next
<1>5. QED
  BY <1>2, <1>3, <1>4, StepIsOneOf

\* The consumer, with either writer, implements at-least-once delivery.
THEOREM ConsumerImplementsDelivery ==
  ASSUME LocalKeepsMembership
  PROVE  Spec => ImplementsDelivery
<1>1. Init => Delivered!Init
  BY InitRefines
<1>2. TypeOK /\ SafetyInv /\ TypeOK' /\ SafetyInv' /\ [Next]_vars
        => [Delivered!Next]_Delivered!vars
  BY StepRefines
<1>3. QED
  BY <1>1, <1>2, TypeCorrect, SafetyHolds, PTL DEF Spec, ImplementsDelivery, Delivered!Spec

-----------------------------------------------------------------------------
(* What a failure costs: the records read since the last commit.             *)

LEMMA MessagesFinite ==
  /\ IsFiniteSet(Messages)
  /\ \A S \in SUBSET Messages : IsFiniteSet(S) /\ Cardinality(S) \in Nat
<1>1. IsFiniteSet(Partitions) /\ IsFiniteSet(Offsets)
  BY FS_Interval DEF Partitions, Offsets
<1>2. IsFiniteSet(Messages)
  BY <1>1, FS_Product DEF Messages
<1>3. QED
  BY <1>2, FS_Subset, FS_CardinalityType

\* The counter of a batch goes up by one until the batch is full.
LEMMA NextCount ==
  ASSUME NEW n \in Nat, NEW d \in Nat \ {0}
  PROVE  /\ n % d \in Nat /\ n % d < d
         /\ (n + 1) % d = IF (n % d) + 1 = d THEN 0 ELSE (n % d) + 1
<1> DEFINE q == n \div d
           r == n % d
           q2 == (n + 1) \div d
           r2 == (n + 1) % d
<1>1. /\ q \in Int /\ r \in Nat /\ r < d /\ n = d * q + r
      /\ q2 \in Int /\ r2 \in Nat /\ r2 < d /\ n + 1 = d * q2 + r2
  OBVIOUS
<1> HIDE DEF q, r, q2, r2
<1>2. d * (q2 - q) = r + 1 - r2
  BY <1>1
<1> DEFINE k == q2 - q
<1>3. k \in Int /\ d * k = r + 1 - r2
  BY <1>1, <1>2
<1> HIDE DEF k
<1>4. CASE k < 0
  BY <1>1, <1>3, <1>4
<1>5. CASE k = 0
  BY <1>1, <1>3, <1>5 DEF r, r2
<1>6. CASE k = 1
  BY <1>1, <1>3, <1>6 DEF r, r2
<1>7. CASE k > 1
  <2>1. d * k >= d * 2
    BY <1>3, <1>7
  <2>2. QED
    BY <1>1, <1>3, <2>1
<1>8. QED
  BY <1>3, <1>4, <1>5, <1>6, <1>7

LEMMA OffsetsStep ==
  ASSUME TypeOK, OffsetsOrdered, [Next]_vars
  PROVE  OffsetsOrdered'
<1>1. \A p \in Partitions :
        committed[p] \in Nat /\ position[p] \in Nat /\ Len(log[p]) \in Nat
  BY DEF TypeOK, TopicTypeOK
<1>2. CASE Publish
  BY <1>2, ValidGrows
<1>3. CASE Rewind
  BY <1>1, <1>3 DEF Rewind, OffsetsOrdered
<1>4. CASE CommitPositions
  BY <1>1, <1>4 DEF CommitPositions, OffsetsOrdered
<1>5. ASSUME NEW p \in Partitions, NEW k \in {"valid", "invalid"}, CanTake(p, k), Deliver(p)
      PROVE  OffsetsOrdered'
  BY <1>5, DeliverReads DEF CanTake
<1>6. CASE UNCHANGED topicVars
  BY <1>6 DEF topicVars, OffsetsOrdered
<1>7. QED
  BY <1>2, <1>3, <1>4, <1>5, <1>6, TopicStep

\* How a step changes what was read, and the counter while the loop polls.
LEMMA ReadStep ==
  ASSUME [Next]_vars
  PROVE  \/ Publish /\ UNCHANGED <<pc, count>>
         \/ Rewind
         \/ CommitPositions
         \/ \E p \in Partitions : NextRecord(p) \/ NextInvalid(p) \/ NextRejected(p)
         \/ /\ UNCHANGED topicVars
            /\ pc' = "polling" => pc = "polling" /\ count' = count
BY DEF Next, Progress, Poll, FlushStep, Failure, Start, Connect, ConnectFails,
       NextGarbled, GeneratorFinished, IdleStop, EarlyStop, Rejoin, FlushNothing,
       FlushOpen, FlushSome, FlushClose, FlushAppend, FlushFails, Commit, CommitFails,
       Crash, GoTo, Exit, Flush, AfterFlush, vars, serviceVars, topicVars

LEMMA RedeliveryStep ==
  ASSUME TypeOK, TypeOK', RedeliveryInv, [Next]_vars
  PROVE  RedeliveryInv'
<1>1. OffsetsOrdered'
  BY OffsetsStep DEF RedeliveryInv
<1>2. /\ IsFiniteSet(Unacknowledged)
      /\ Cardinality(Unacknowledged) \in Nat
      /\ Cardinality(Unacknowledged) <= FLUSH_EVERY
      /\ pc = "polling" => Cardinality(Unacknowledged) <= count % FLUSH_EVERY
  BY MessagesFinite DEF Unacknowledged, RedeliveryInv, RedeliveryIsBounded, BatchIsCounted, Below
<1>3. count \in Nat /\ count' \in Nat
  BY DEF TypeOK
<1>4. count % FLUSH_EVERY \in Nat /\ count % FLUSH_EVERY < FLUSH_EVERY
      /\ count' % FLUSH_EVERY \in Nat
  BY <1>3, NextCount
<1>5. SUFFICES /\ Cardinality(Unacknowledged') <= FLUSH_EVERY
               /\ pc' = "polling" => Cardinality(Unacknowledged') <= count' % FLUSH_EVERY
  BY <1>1 DEF Unacknowledged, RedeliveryInv, RedeliveryIsBounded, BatchIsCounted
<1>6. CASE Publish /\ UNCHANGED <<pc, count>>
  <2>1. Unacknowledged' = Unacknowledged
    BY <1>6, ValidGrows DEF RedeliveryInv, Unacknowledged, Publish, Below
  <2>2. QED
    BY <1>2, <1>6, <2>1
<1>7. CASE Rewind \/ CommitPositions
  <2>1. Unacknowledged' = {}
    BY <1>7 DEF Rewind, CommitPositions, Unacknowledged, Below
  <2>2. QED
    BY <1>4, <2>1, FS_EmptySet
<1>8. ASSUME NEW p \in Partitions, NEW k, CanTake(p, k), Deliver(p)
      PROVE  Unacknowledged' = IF NextOf(p) \in Valid
                                 THEN Unacknowledged \union {NextOf(p)} ELSE Unacknowledged
  <2>1. /\ Valid' = Valid
        /\ Below(position)' = Below(position) \union {NextOf(p)}
        /\ NextOf(p) \notin Below(committed)
    BY <1>8, DeliverReads DEF CanTake, RedeliveryInv
  <2>2. Below(committed)' = Below(committed)
    BY <1>8 DEF Deliver, Below
  <2>3. QED
    BY <2>1, <2>2 DEF Unacknowledged
<1>9. \A m : /\ Cardinality(Unacknowledged \union {m}) \in Nat
             /\ Cardinality(Unacknowledged \union {m}) <= Cardinality(Unacknowledged) + 1
  <2>1. TAKE m
  <2>2. /\ IsFiniteSet(Unacknowledged \union {m})
        /\ Cardinality(Unacknowledged \union {m}) =
             IF m \in Unacknowledged THEN Cardinality(Unacknowledged)
             ELSE Cardinality(Unacknowledged) + 1
    BY <1>2, FS_AddElement
  <2>3. QED
    BY <1>2, <2>2
<1>10. ASSUME NEW p \in Partitions, NextRecord(p) \/ NextRejected(p)
       PROVE  /\ Cardinality(Unacknowledged') <= FLUSH_EVERY
              /\ pc' = "polling" => Cardinality(Unacknowledged') <= count' % FLUSH_EVERY
  <2>1. pc = "polling" /\ Unacknowledged' = Unacknowledged \union {NextOf(p)}
    BY <1>8, <1>10 DEF NextRecord, NextRejected, CanTake, Valid
  <2> DEFINE unacknowledged == Cardinality(Unacknowledged')
             inBatch == count % FLUSH_EVERY
  <2>2. /\ unacknowledged \in Nat /\ inBatch \in Nat
        /\ unacknowledged <= inBatch + 1 /\ inBatch < FLUSH_EVERY
    <3>1. /\ unacknowledged \in Nat
          /\ unacknowledged <= Cardinality(Unacknowledged) + 1
      BY <1>9, <2>1
    <3>2. Cardinality(Unacknowledged) <= inBatch
      BY <1>2, <2>1
    <3> HIDE DEF unacknowledged, inBatch
    <3>3. QED
      BY <1>2, <1>4, <3>1, <3>2 DEF inBatch
  <2>3. pc' = "polling" => count' = count + 1 /\ count' % FLUSH_EVERY # 0
    BY <1>10 DEF NextRecord, NextRejected, Flush
  <2>4. pc' = "polling" => count' % FLUSH_EVERY = (count % FLUSH_EVERY) + 1
    BY <1>3, <2>3, NextCount
  <2>5. unacknowledged <= FLUSH_EVERY
    BY <2>2
  <2>6. QED
    BY <2>2, <2>4, <2>5
<1>11. ASSUME NEW p \in Partitions, NextInvalid(p)
       PROVE  Unacknowledged' = Unacknowledged /\ UNCHANGED <<pc, count>>
  <2>1. NextOf(p) \notin Valid
    BY <1>11 DEF NextInvalid, CanTake, OfKind, Valid
  <2>2. QED
    BY <1>8, <1>11, <2>1 DEF NextInvalid
<1>12. CASE UNCHANGED topicVars /\ (pc' = "polling" => pc = "polling" /\ count' = count)
  <2>1. Unacknowledged' = Unacknowledged
    BY <1>12, ValidStays DEF topicVars, Unacknowledged, Below
  <2>2. QED
    BY <1>2, <1>12, <2>1
<1>13. QED
  BY <1>2, <1>6, <1>7, <1>10, <1>11, <1>12, ReadStep

\* In the loop, the counter of appended records modulo the batch size bounds what is
\* read and not committed (consumer_bronze/app.py:58-62).
THEOREM RedeliveryInvHolds == Spec => []RedeliveryInv
<1>1. Init => RedeliveryInv
  <2>1. SUFFICES ASSUME Init PROVE RedeliveryInv
    OBVIOUS
  <2>2. \A p \in Partitions : log[p] = <<>> /\ position[p] = 0 /\ committed[p] = 0
    BY <2>1 DEF Init, TopicInit
  <2>3. Valid = {} /\ OffsetsOrdered
    BY <2>2 DEF Valid, OfKind, Messages, Offsets, OffsetsOrdered
  <2>4. pc # "polling"
    BY <2>1 DEF Init
  <2>5. QED
    BY <2>3, <2>4, FS_EmptySet DEF RedeliveryInv, RedeliveryIsBounded, BatchIsCounted,
       Unacknowledged
<1>2. TypeOK /\ TypeOK' /\ RedeliveryInv /\ [Next]_vars => RedeliveryInv'
  BY RedeliveryStep
<1>3. QED
  BY <1>1, <1>2, TypeCorrect, PTL DEF Spec

\* What the process has read and not committed never exceeds one batch, however
\* often it was rejected, expelled, killed or restarted (app.py:60-62).
THEOREM OneBatchIsRedelivered == Spec => []RedeliveryIsBounded
<1>1. RedeliveryInv => RedeliveryIsBounded
  BY DEF RedeliveryInv
<1>2. QED
  BY <1>1, RedeliveryInvHolds, PTL

-----------------------------------------------------------------------------
(* While nothing fails, every row is written once.                           *)

\* The steps that are no failures of the environment, by what they do to bronze.
LEMMA QuietStep ==
  ASSUME TypeOK, [Next]_vars, faults' = 0
  PROVE  /\ faults = 0
         /\ \/ UNCHANGED <<position, committed, writerVars, serviceVars>>
            \/ Start \/ Connect \/ GeneratorFinished \/ IdleStop
            \/ \E p \in Partitions : NextRecord(p) \/ NextInvalid(p) \/ NextGarbled(p)
            \/ FlushNothing \/ FlushOpen \/ FlushSome \/ FlushClose \/ FlushAppend
            \/ Commit
<1>1. ~Fault
  BY DEF TypeOK, Fault
<1>2. faults = 0
  BY <1>1 DEF Next, Progress, Poll, FlushStep, Failure, Start, Connect, ConnectFails,
     NextRecord, NextInvalid, NextGarbled, NextRejected, GeneratorFinished, IdleStop,
     EarlyStop, Rejoin, FlushNothing, FlushOpen, FlushSome, FlushClose, FlushAppend,
     FlushFails, Commit, CommitFails, Crash, vars
<1>3. UNCHANGED vars => UNCHANGED <<position, committed, writerVars, serviceVars>>
  BY DEF vars, topicVars
<1>4. QED
  BY <1>1, <1>2, <1>3 DEF Next, Progress, Poll, FlushStep, Failure, ConnectFails,
     NextRejected, EarlyStop, Rejoin, FlushFails, CommitFails, Crash, Publish

\* A step of the loop, or between two processes: bronze is as it was.
LEMMA LoopStep ==
  ASSUME TypeOK, Orderly,
         \/ Start \/ Connect \/ GeneratorFinished \/ IdleStop
         \/ \E p \in Partitions : NextRecord(p) \/ NextInvalid(p) \/ NextGarbled(p)
  PROVE  BatchIsNew' /\ WrittenIsOld' /\ ObjectsDisjoint'
<1>1. /\ pc \notin {"writing", "committing"} /\ pc' \notin {"writing", "committing"}
      /\ UNCHANGED <<committed, mode, files, snapshots>>
  BY DEF Start, Connect, Rewind, GeneratorFinished, IdleStop, NextRecord, NextInvalid,
     NextGarbled, CanTake, Deliver, BufferRow, GoTo, Flush, Exit, topicVars, writerVars,
     storageVars
<1>2. Below(committed)' = Below(committed)
  BY <1>1 DEF Below
<1>3. WrittenIsOld' /\ ObjectsDisjoint'
  BY <1>1, <1>2 DEF Orderly, WrittenIsOld, ObjectsDisjoint, BronzeFollowsMode
<1>4. ASSUME NEW p \in Partitions, NextRecord(p) \/ NextInvalid(p)
      PROVE  BatchIsNew'
  <2>1. PICK k : CanTake(p, k) /\ Deliver(p)
    BY <1>4 DEF NextRecord, NextInvalid
  <2>2. /\ Below(position)' = Below(position) \union {NextOf(p)}
        /\ NextOf(p) \notin Below(committed)
    BY <2>1, DeliverReads DEF CanTake, Orderly
  <2>3. /\ pc = "polling" /\ pc' \in {"polling", "flushing"} /\ phase' # "abort"
        /\ buffer' \subseteq buffer \union {NextOf(p)}
    BY <1>4 DEF NextRecord, NextInvalid, CanTake, Flush, BufferRow, writerVars, Orderly,
       BatchIsNew
  <2>4. QED
    BY <1>2, <2>2, <2>3 DEF Orderly, BatchIsNew
<1>5. ASSUME NEW p \in Partitions, NextGarbled(p)
      PROVE  BatchIsNew'
  BY <1>5 DEF NextGarbled, ClearBuffer, Exit, BatchIsNew
<1>6. ASSUME Start \/ Connect
      PROVE  BatchIsNew'
  <2>1. /\ pc \in {"done", "failed", "connecting"} /\ pc' # "writing"
        /\ UNCHANGED <<buffer, phase>>
    BY <1>6 DEF Start, Connect, GoTo, writerVars
  <2>2. buffer' = {} /\ phase' # "abort"
    BY <2>1 DEF Orderly, BatchIsNew
  <2>3. QED
    BY <2>1, <2>2 DEF BatchIsNew
<1>7. ASSUME GeneratorFinished \/ IdleStop
      PROVE  BatchIsNew'
  <2>1. /\ pc' = "flushing" /\ phase' = "tail" /\ buffer' = buffer /\ position' = position
        /\ pc = "polling"
    BY <1>7 DEF GeneratorFinished, IdleStop, Flush, topicVars, writerVars
  <2>2. Below(position)' = Below(position)
    BY <2>1 DEF Below
  <2>3. QED
    BY <1>2, <2>1, <2>2 DEF Orderly, BatchIsNew
<1>8. QED
  BY <1>3, <1>4, <1>5, <1>6, <1>7

\* The batch file holds rows of the batch, which are in no other object.
LEMMA FillStep ==
  ASSUME TypeOK, Orderly, FlushOpen \/ FlushSome
  PROVE  BatchIsNew' /\ WrittenIsOld' /\ ObjectsDisjoint'
<1>1. /\ UNCHANGED <<committed, position, mode, buffer, snapshots, phase>>
      /\ mode = "local"
      /\ pc \in {"flushing", "writing"} /\ pc' = "writing"
  BY DEF FlushOpen, FlushSome, OpenBatchFile, WriteSomeRows, GoTo, topicVars, serviceVars,
     Orderly, BatchIsNew
<1>2. files \in [Messages -> FileContent] /\ buffer \subseteq Messages
  BY DEF TypeOK, WriterTypeOK, StorageTypeOK
<1>3. \E content : /\ content.rows \subseteq buffer
                   /\ files' = [files EXCEPT ![target'] = content]
                   /\ target' \in buffer
                   /\ pc = "writing" => target' = target
  <2>1. CASE FlushOpen
    <3>1. NoContent.rows = {} /\ pc # "writing"
      BY <2>1 DEF FlushOpen, NoContent
    <3>2. QED
      BY <2>1, <3>1 DEF FlushOpen, OpenBatchFile
  <2>2. CASE FlushSome
    <3>1. PICK rows \in SUBSET buffer, tail \in {"whole", "torn"} :
            files' = [files EXCEPT ![target] = [rows |-> rows, tail |-> tail]]
      BY <2>2 DEF FlushSome, WriteSomeRows
    <3>2. target' = target /\ target \in buffer
      BY <2>2 DEF FlushSome, WriteSomeRows, Orderly, BatchIsNew
    <3>3. QED
      BY <3>1, <3>2
  <2>3. QED
    BY <2>1, <2>2
<1>4. /\ target' \in buffer
      /\ files'[target'].rows \subseteq buffer
      /\ \A n \in Messages \ {target'} : files'[n] = files[n]
      /\ pc = "writing" => target' = target
  BY <1>2, <1>3
<1>5. Below(committed)' = Below(committed) /\ Below(position)' = Below(position)
  BY <1>1 DEF Below
<1>6. BatchIsNew'
  BY <1>1, <1>4, <1>5 DEF Orderly, BatchIsNew
<1>7. \A n \in Messages \ {target'} : files[n].rows \subseteq Below(committed)
  BY <1>1, <1>4 DEF Orderly, WrittenIsOld
<1>8. WrittenIsOld'
  BY <1>1, <1>4, <1>5, <1>7 DEF Orderly, WrittenIsOld
<1>9. ObjectsDisjoint'
  <2>1. \A n \in Messages \ {target'} : files'[n].rows \intersect files'[target'].rows = {}
    BY <1>4, <1>7 DEF Orderly, BatchIsNew
  <2>2. ASSUME NEW n \in Messages, NEW k \in Messages, n # k
        PROVE  files'[n].rows \intersect files'[k].rows = {}
    <3>1. CASE n # target' /\ k # target'
      BY <1>4, <2>2, <3>1 DEF Orderly, ObjectsDisjoint, BronzeFollowsMode
    <3>2. QED
      BY <2>1, <2>2, <3>1
  <2>3. QED
    BY <1>1, <2>2 DEF Orderly, ObjectsDisjoint, BronzeFollowsMode
<1>10. QED
  BY <1>6, <1>8, <1>9

\* The flush is over, and all that bronze has is about to be committed.
LEMMA FlushedOnce ==
  ASSUME TypeOK, Orderly, FlushNothing \/ FlushClose \/ FlushAppend
  PROVE  BatchIsNew' /\ WrittenIsOld' /\ ObjectsDisjoint'
<1>1. /\ UNCHANGED <<committed, position, mode, phase>>
      /\ pc \in {"flushing", "writing"} /\ pc' = "committing"
      /\ buffer' = {}
  BY DEF FlushNothing, FlushClose, FlushAppend, CloseBatchFile, AppendSnapshot, ClearBuffer,
     AfterFlush, GoTo, topicVars, writerVars, Orderly, BatchIsNew
<1>2. Below(committed)' = Below(committed) /\ Below(position)' = Below(position)
      /\ Below(committed) \subseteq Below(position)
  BY <1>1, CommittedIsRead DEF Below, Orderly
<1>3. BatchIsNew'
  BY <1>1 DEF Orderly, BatchIsNew
<1>4. files \in [Messages -> FileContent] /\ snapshots \in Seq(SUBSET Messages)
      /\ buffer \in SUBSET Messages
  BY DEF TypeOK, WriterTypeOK, StorageTypeOK
<1>5. \A i \in 1 .. Len(snapshots) : snapshots[i] \subseteq Below(committed)
  BY <1>1 DEF Orderly, WrittenIsOld
<1>6. CASE FlushNothing
  <2>1. pc = "flushing" /\ UNCHANGED <<files, snapshots>>
    BY <1>6 DEF FlushNothing, writerVars
  <2>2. WrittenIsOld' /\ ObjectsDisjoint'
    BY <1>1, <1>2, <2>1 DEF Orderly, WrittenIsOld, ObjectsDisjoint, BronzeFollowsMode
  <2>3. QED
    BY <1>3, <2>2
<1>7. CASE FlushClose
  <2>1. /\ pc = "writing" /\ mode = "local" /\ target \in buffer /\ UNCHANGED snapshots
        /\ files' = [files EXCEPT ![target] = [rows |-> buffer, tail |-> "whole"]]
    BY <1>7 DEF FlushClose, CloseBatchFile, Orderly, BatchIsNew
  <2>2. /\ files'[target].rows = buffer
        /\ \A n \in Messages \ {target} : files'[n] = files[n]
    BY <1>4, <2>1
  <2>3. \A n \in Messages \ {target} : files[n].rows \subseteq Below(committed)
    BY <2>1 DEF Orderly, WrittenIsOld
  <2>4. buffer \subseteq Below(position) \ Below(committed)
    BY DEF Orderly, BatchIsNew
  <2>5. WrittenIsOld'
    BY <1>1, <1>2, <1>5, <2>1, <2>2, <2>3, <2>4 DEF WrittenIsOld
  <2>6. ASSUME NEW n \in Messages, NEW k \in Messages, n # k
        PROVE  files'[n].rows \intersect files'[k].rows = {}
    <3>1. CASE n # target /\ k # target
      BY <2>2, <2>6, <3>1 DEF Orderly, ObjectsDisjoint, BronzeFollowsMode
    <3>2. QED
      BY <2>2, <2>3, <2>4, <2>6, <3>1
  <2>7. ObjectsDisjoint'
    BY <1>1, <2>1, <2>6 DEF Orderly, ObjectsDisjoint, BronzeFollowsMode
  <2>8. QED
    BY <1>3, <2>5, <2>7
<1>8. CASE FlushAppend
  <2>1. /\ pc = "flushing" /\ mode = "cloud" /\ UNCHANGED files
        /\ snapshots' = Append(snapshots, buffer)
    BY <1>8 DEF FlushAppend, AppendSnapshot
  <2>2. /\ Len(snapshots) \in Nat /\ Len(snapshots') = Len(snapshots) + 1
        /\ \A i \in 1 .. Len(snapshots) : snapshots'[i] = snapshots[i]
        /\ snapshots'[Len(snapshots) + 1] = buffer
    BY <1>4, <2>1
  <2>3. buffer \subseteq Below(position) \ Below(committed)
    BY DEF Orderly, BatchIsNew
  <2>4. \A n \in Messages : files'[n].rows \subseteq Below(position)'
    BY <1>2, <2>1 DEF Orderly, WrittenIsOld
  <2>5. \A i \in 1 .. Len(snapshots') : snapshots'[i] \subseteq Below(position)'
    BY <1>2, <1>5, <2>2, <2>3
  <2>6. WrittenIsOld'
    BY <1>1, <2>4, <2>5 DEF WrittenIsOld
  <2>7. \A i, j \in 1 .. Len(snapshots') : i # j => snapshots'[i] \intersect snapshots'[j] = {}
    BY <1>5, <2>2, <2>3 DEF Orderly, ObjectsDisjoint, BronzeFollowsMode
  <2>8. ObjectsDisjoint'
    BY <1>1, <2>1, <2>7 DEF Orderly, ObjectsDisjoint, BronzeFollowsMode
  <2>9. QED
    BY <1>3, <2>6, <2>8
<1>9. QED
  BY <1>6, <1>7, <1>8

LEMMA OnceStep ==
  ASSUME TypeOK, OnceInv, [Next]_vars
  PROVE  OnceInv'
<1>1. SUFFICES ASSUME faults' = 0 PROVE Orderly'
  BY DEF OnceInv
<1>2. faults = 0 /\ Orderly
  BY <1>1, QuietStep DEF OnceInv
<1>3. OffsetsOrdered'
  BY <1>2, OffsetsStep DEF Orderly
<1>4. CASE UNCHANGED <<position, committed, writerVars, serviceVars>>
  <2>1. Below(position)' = Below(position) /\ Below(committed)' = Below(committed)
    BY <1>4 DEF Below
  <2>2. BatchIsNew' /\ WrittenIsOld' /\ ObjectsDisjoint'
    BY <1>2, <1>4, <2>1 DEF Orderly, BatchIsNew, WrittenIsOld, ObjectsDisjoint,
       BronzeFollowsMode, writerVars,
       serviceVars
  <2>3. QED
    BY <1>3, <2>2 DEF Orderly
<1>5. CASE \/ Start \/ Connect \/ GeneratorFinished \/ IdleStop
           \/ \E p \in Partitions : NextRecord(p) \/ NextInvalid(p) \/ NextGarbled(p)
  BY <1>2, <1>3, <1>5, LoopStep DEF Orderly
<1>6. CASE FlushNothing \/ FlushOpen \/ FlushSome \/ FlushClose \/ FlushAppend
  BY <1>2, <1>3, <1>6, FillStep, FlushedOnce DEF Orderly
<1>7. CASE Commit
  <2>1. /\ pc = "committing" /\ pc' \in {"polling", "done"} /\ committed' = position
        /\ UNCHANGED <<position, mode, buffer, target, files, snapshots>>
        /\ phase' # "abort"
    BY <1>2, <1>7 DEF Commit, CommitPositions, GoTo, Exit, writerVars, Orderly, BatchIsNew
  <2>2. Below(committed)' = Below(position)
    BY <2>1 DEF Below
  <2>3. BatchIsNew' /\ WrittenIsOld' /\ ObjectsDisjoint'
    BY <1>2, <2>1, <2>2 DEF Orderly, BatchIsNew, WrittenIsOld, ObjectsDisjoint, BronzeFollowsMode
  <2>4. QED
    BY <1>3, <2>3 DEF Orderly
<1>8. QED
  BY <1>1, <1>4, <1>5, <1>6, <1>7, QuietStep

\* Rows in disjoint objects are in one object at most.
LEMMA DisjointMeansOneCopy ==
  ASSUME TypeOK, ObjectsDisjoint, NEW m \in Messages
  PROVE  Copies(m) <= 1
<1> DEFINE in == {n \in Messages : m \in files[n].rows}
           on == {i \in 1 .. Len(snapshots) : m \in snapshots[i]}
<1>1. \A n, k \in in : n = k
  BY DEF ObjectsDisjoint, BronzeFollowsMode
<1>2. \A i, j \in on : i = j
  BY DEF ObjectsDisjoint, BronzeFollowsMode
<1>3. in = {} \/ on = {}
  <2>1. mode = "local" => on = {}
    BY DEF ObjectsDisjoint, BronzeFollowsMode
  <2>2. mode = "cloud" => in = {}
    BY DEF ObjectsDisjoint, BronzeFollowsMode
  <2>3. QED
    BY <2>1, <2>2 DEF TypeOK, WriterTypeOK, StorageTypeOK
<1>4. Copies(m) = Cardinality(in) + Cardinality(on)
  BY DEF Copies
<1> HIDE DEF in, on
<1>5. ASSUME NEW S, \A x, y \in S : x = y
      PROVE  Cardinality(S) \in {0, 1}
  <2>1. CASE S = {}
    BY <2>1, FS_EmptySet
  <2>2. ASSUME NEW x \in S
        PROVE  Cardinality(S) = 1
    <3>1. S = {x}
      BY <1>5
    <3>2. QED
      BY <3>1, FS_Singleton
  <2>3. QED
    BY <2>1, <2>2
<1>6. Cardinality(in) \in {0, 1} /\ Cardinality(on) \in {0, 1}
  BY <1>1, <1>2, <1>5
<1>7. Cardinality({}) = 0
  BY FS_EmptySet
<1>8. QED
  BY <1>3, <1>4, <1>6, <1>7

\* Until something fails, the batch in hand is new, what is written is old, and no
\* two batch files or snapshots share a message (consumer_bronze/app.py:48-66).
THEOREM OnceInvHolds == Spec => []OnceInv
<1>1. Init => OnceInv
  <2>1. SUFFICES ASSUME Init PROVE OnceInv
    OBVIOUS
  <2>2. \A p \in Partitions : log[p] = <<>> /\ position[p] = 0 /\ committed[p] = 0
    BY <2>1 DEF Init, TopicInit
  <2>3. OffsetsOrdered
    BY <2>2 DEF OffsetsOrdered
  <2>4. /\ buffer = {} /\ phase = "batch" /\ pc = "failed" /\ snapshots = <<>>
        /\ \A n \in Messages : files[n].rows = {}
    BY <2>1 DEF Init, WriterInit, StorageInit, NoContent
  <2>5. BatchIsNew /\ WrittenIsOld /\ ObjectsDisjoint
    BY <2>4 DEF BatchIsNew, WrittenIsOld, ObjectsDisjoint, BronzeFollowsMode
  <2>6. QED
    BY <2>3, <2>5 DEF OnceInv, Orderly
<1>2. TypeOK /\ OnceInv /\ [Next]_vars => OnceInv'
  BY OnceStep
<1>3. QED
  BY <1>1, <1>2, TypeCorrect, PTL DEF Spec

\* As long as nothing fails, no message is twice in bronze, whatever the messages
\* that end the generator or the process (ADR-004:13).
THEOREM NoFailureNoDuplicates == Spec => []NoDuplicatesWithoutFailure
<1>1. TypeOK /\ OnceInv => NoDuplicatesWithoutFailure
  BY DisjointMeansOneCopy DEF OnceInv, Orderly, NoDuplicatesWithoutFailure
<1>2. QED
  BY <1>1, OnceInvHolds, TypeCorrect, PTL

-----------------------------------------------------------------------------
(* For the readers of bronze.                                                *)

\* One layer of bronze is in use.
LEMMA BronzeModeStep ==
  ASSUME TypeOK, BronzeFollowsMode, [Next]_vars
  PROVE  BronzeFollowsMode'
<1>1. files \in [Messages -> FileContent] /\ mode \in {"local", "cloud"}
  BY DEF TypeOK, WriterTypeOK, StorageTypeOK
<1>2. mode' = mode
  BY WriterStep DEF BufferRow, OpenBatchFile, WriteSomeRows, CloseBatchFile, AppendSnapshot,
     AppendSnapshotFails, BatchFileFails, writerVars, storageVars
<1>3. CASE mode = "local"
  <2>1. snapshots' = snapshots
    BY <1>3, WriterStep DEF BufferRow, OpenBatchFile, WriteSomeRows, CloseBatchFile,
       AppendSnapshot, AppendSnapshotFails, BatchFileFails, writerVars, storageVars
  <2>2. QED
    BY <1>2, <1>3, <2>1 DEF BronzeFollowsMode
<1>4. CASE mode = "cloud"
  <2>1. pc # "writing" /\ mode # "local"
    BY <1>4 DEF BronzeFollowsMode
  <2>2. files' = files /\ pc' # "writing"
    BY <2>1 DEF Next, Progress, Poll, FlushStep, Failure, Start, Connect, ConnectFails,
       NextRecord, NextInvalid, NextGarbled, NextRejected, GeneratorFinished, IdleStop,
       EarlyStop, Rejoin, FlushNothing, FlushOpen, FlushSome, FlushClose, FlushAppend,
       FlushFails, Commit, CommitFails, Crash, GoTo, Exit, Flush, AfterFlush, BufferRow,
       OpenBatchFile, AppendSnapshot, AppendSnapshotFails, BatchFileFails, vars,
       serviceVars, writerVars, storageVars
  <2>3. QED
    BY <1>2, <1>4, <2>1, <2>2 DEF BronzeFollowsMode
<1>5. QED
  BY <1>1, <1>3, <1>4

=============================================================================
