--------------------------- MODULE ConsumerBronze ---------------------------
(***************************************************************************)
(* The consumer_bronze service (services/consumer_bronze/app.py) with the   *)
(* consumer and the bronze writer it drives, on a topic that producers keep *)
(* filling.  One process at a time (one container in docker-compose.yml),   *)
(* killed at any point and restarted (restart: unless-stopped).             *)
(***************************************************************************)
EXTENDS BronzeWriter, RetryPolicy

CONSTANTS
    FLUSH_EVERY,    \* records per batch
    IdleTimeout,    \* TRUE iff kafka_consumer_timeout_ms > 0
    RejoinModes,    \* the modes whose consumer may lose its group membership
    MaxFaults       \* bound: failures of the environment in a behaviour

ASSUME ConsumerAssumption ==
    /\ FLUSH_EVERY \in Nat \ {0}
    /\ IdleTimeout \in BOOLEAN
    /\ RejoinModes \subseteq {"local", "cloud"}
    /\ MaxFaults \in Nat

VARIABLES
    pc,         \* where the process is in run()
    generator,  \* the consume() generator: finished once it has raised
    count,      \* records appended by this process (count)
    phase,      \* which flush() of run() is executing: "batch", "tail", "abort"
    faults      \* history: failures of the environment so far

serviceVars == <<pc, generator, count, phase>>
vars == <<topicVars, writerVars, serviceVars, faults>>

Running == {"connecting", "polling", "flushing", "writing", "committing"}

TypeOK ==
    /\ TopicTypeOK
    /\ WriterTypeOK
    /\ pc \in Running \union {"done", "failed"}
    /\ generator \in {"live", "finished"}
    /\ count \in Nat
    /\ phase \in {"batch", "tail", "abort"}
    /\ faults \in 0 .. MaxFaults

Init ==
    /\ TopicInit
    /\ WriterInit
    /\ pc = "failed"
    /\ generator = "live"
    /\ count = 0
    /\ phase = "batch"
    /\ faults = 0

Fault ==
    /\ faults < MaxFaults
    /\ faults' = faults + 1

\* The process ends: its memory is gone, what is in storage stays.
Exit(how) ==
    /\ pc' = how
    /\ generator' = "live"
    /\ count' = 0
    /\ phase' = "batch"

GoTo(where) ==
    /\ pc' = where
    /\ UNCHANGED <<generator, count, phase>>

Flush(which) ==
    /\ pc' = "flushing"
    /\ phase' = which

-----------------------------------------------------------------------------
(* Start of the process: writer, connection, generator. *)

Start ==
    /\ pc \in {"done", "failed"}
    /\ GoTo("connecting")
    /\ UNCHANGED <<topicVars, writerVars, faults>>

Connect ==
    /\ pc = "connecting"
    /\ GoTo("polling")
    /\ Rewind
    /\ UNCHANGED <<writerVars, faults>>

\* _connect() gave up after Attempts["kafka"] attempts: MaxRetriesExceededError,
\* then the best-effort flush() of a buffer that is still empty.
ConnectFails ==
    /\ pc = "connecting"
    /\ Fault
    /\ Exit("failed")
    /\ UNCHANGED <<topicVars, writerVars>>

-----------------------------------------------------------------------------
(* next(consumer_gen) and what the loop does with its outcome. *)

\* A message of kind k is next in partition p and the generator can take it.
CanTake(p, k) ==
    /\ pc = "polling"
    /\ generator = "live"
    /\ NextOf(p) \in OfKind(k)

\* A record: append, and flush at every FLUSH_EVERY-th.
NextRecord(p) ==
    /\ CanTake(p, "valid")
    /\ Deliver(p)
    /\ BufferRow(NextOf(p))
    /\ count' = count + 1
    /\ IF count' % FLUSH_EVERY = 0
         THEN Flush("batch")
         ELSE UNCHANGED <<pc, phase>>
    /\ UNCHANGED <<generator, faults>>

\* Mutant of NextInvalid: the offset of the invalid message is not passed.
NextInvalidStays(p) ==
    /\ CanTake(p, "invalid")
    /\ generator' = "finished"
    /\ UNCHANGED <<topicVars, writerVars, pc, count, phase, faults>>

\* InvalidRecordError: logged, and the loop continues; but the generator that
\* raised it is finished.
NextInvalid(p) ==
    /\ CanTake(p, "invalid")
    /\ Deliver(p)
    /\ generator' = "finished"
    /\ UNCHANGED <<writerVars, pc, count, phase, faults>>

\* The value deserializer raises on a message of the fetched batch, which need
\* not be the next one; run() has no handler and the buffer dies with the process.
NextGarbled(p) ==
    /\ pc = "polling"
    /\ generator = "live"
    /\ \E m \in OfKind("garbled") : m[1] = p /\ position[p] <= m[2]
    /\ ClearBuffer
    /\ Exit("failed")
    /\ UNCHANGED <<topicVars, storageVars, faults>>

\* Mutant of NextRejected: the flush after a ConsumerError is followed by the
\* commit, as the one that ends the loop.
NextRejectedCommits(p) ==
    /\ CanTake(p, "valid")
    /\ Fault
    /\ Deliver(p)
    /\ generator' = "finished"
    /\ Flush("tail")
    /\ UNCHANGED <<writerVars, count>>

\* ConsumerError: no BronzeRecord for this message; run() flushes what it has
\* and raises without a commit.
NextRejected(p) ==
    /\ CanTake(p, "valid")
    /\ Fault
    /\ Deliver(p)
    /\ generator' = "finished"
    /\ Flush("abort")
    /\ UNCHANGED <<writerVars, count>>

\* The broker expelled the consumer (a lost session, a rebalance): its iterator
\* rejoins and resumes from the committed offsets, in the same process.  The
\* writer is not told: the buffer stays.
Rejoin ==
    /\ mode \in RejoinModes
    /\ pc = "polling"
    /\ generator = "live"
    /\ Fault
    /\ Rewind
    /\ UNCHANGED <<writerVars, serviceVars>>

\* StopIteration from a generator that has raised.
GeneratorFinished ==
    /\ pc = "polling"
    /\ generator = "finished"
    /\ Flush("tail")
    /\ UNCHANGED <<topicVars, writerVars, generator, count, faults>>

CaughtUp == \A p \in Partitions : position[p] = Len(log[p])

\* StopIteration because nothing arrived for consumer_timeout_ms.
IdleStop ==
    /\ IdleTimeout
    /\ pc = "polling"
    /\ generator = "live"
    /\ CaughtUp
    /\ Flush("tail")
    /\ UNCHANGED <<topicVars, writerVars, generator, count, faults>>

\* The same although messages are waiting: the broker was slow to answer.
EarlyStop ==
    /\ IdleTimeout
    /\ pc = "polling"
    /\ generator = "live"
    /\ ~CaughtUp
    /\ Fault
    /\ Flush("tail")
    /\ UNCHANGED <<topicVars, writerVars, generator, count>>

-----------------------------------------------------------------------------
(* writer.flush() and the consumer.commit() that follows it. *)

\* What follows a flush() that returned: the commit, or, after a
\* ConsumerError, the end of the process.
AfterFlush ==
    IF phase = "abort" THEN Exit("failed") ELSE GoTo("committing")

FlushNothing ==
    /\ pc = "flushing"
    /\ buffer = {}
    /\ AfterFlush
    /\ UNCHANGED <<topicVars, writerVars, faults>>

FlushOpen ==
    /\ pc = "flushing"
    /\ OpenBatchFile
    /\ GoTo("writing")
    /\ UNCHANGED <<topicVars, faults>>

FlushSome ==
    /\ pc = "writing"
    /\ WriteSomeRows
    /\ UNCHANGED <<topicVars, serviceVars, faults>>

FlushClose ==
    /\ pc = "writing"
    /\ CloseBatchFile
    /\ AfterFlush
    /\ UNCHANGED <<topicVars, faults>>

FlushAppend ==
    /\ pc = "flushing"
    /\ buffer # {}
    /\ AppendSnapshot
    /\ AfterFlush
    /\ UNCHANGED <<topicVars, faults>>

\* IcebergWriteError: run() raises it.  Were it retried, the second flush() would
\* find the buffer emptied by the first and return.
FlushFails ==
    /\ pc \in {"flushing", "writing"}
    /\ buffer # {}
    /\ Fault
    /\ BatchFileFails \/ AppendSnapshotFails
    /\ IF IsRetried("storage", "IcebergWriteError") THEN AfterFlush ELSE Exit("failed")
    /\ UNCHANGED topicVars

\* Mutant of Commit: offsets are committed at the end of run() only.
CommitAtEndOnly ==
    /\ pc = "committing"
    /\ IF phase = "batch"
         THEN GoTo("polling") /\ UNCHANGED topicVars
         ELSE Exit("done") /\ CommitPositions
    /\ UNCHANGED <<writerVars, faults>>

\* The commit, then the next batch, or the normal end of run().
Commit ==
    /\ pc = "committing"
    /\ CommitPositions
    /\ IF phase = "batch" THEN GoTo("polling") ELSE Exit("done")
    /\ UNCHANGED <<writerVars, faults>>

\* A KafkaError from commit(): run() has no handler; the broker may have
\* recorded the offsets all the same.
CommitFails ==
    /\ pc = "committing"
    /\ Fault
    /\ CommitPositions \/ UNCHANGED topicVars
    /\ Exit("failed")
    /\ UNCHANGED writerVars

\* The process is killed.
Crash ==
    /\ pc \in Running
    /\ Fault
    /\ ClearBuffer
    /\ Exit("failed")
    /\ UNCHANGED <<topicVars, storageVars>>

-----------------------------------------------------------------------------

Poll ==
    \/ \E p \in Partitions :
        \/ NextRecord(p)
        \/ NextInvalid(p)
        \/ NextGarbled(p)
    \/ GeneratorFinished
    \/ IdleStop

FlushStep == FlushNothing \/ FlushOpen \/ FlushClose \/ FlushAppend

\* The progress of the process itself.
Progress == Start \/ Connect \/ Poll \/ FlushStep \/ Commit

Failure ==
    \/ ConnectFails
    \/ \E p \in Partitions : NextRejected(p)
    \/ EarlyStop
    \/ Rejoin
    \/ FlushFails
    \/ CommitFails
    \/ Crash

Next ==
    \/ Publish /\ UNCHANGED <<writerVars, serviceVars, faults>>
    \/ Progress
    \/ FlushSome
    \/ Failure

Spec == Init /\ [][Next]_vars

\* The process runs whenever it can, and the container restarts whenever it
\* ends (restart: unless-stopped).  Nothing obliges producers or failures.
FairSpec == Spec /\ WF_vars(Progress)

-----------------------------------------------------------------------------
(* Properties. *)

\* No message the group has committed is missing from bronze, whatever the
\* crashes, failed writes and overwritten batch files: "the committed position
\* is never ahead of what is durably written" (kafka/consumer.py:24-27).
CommittedIsDurable == Valid \intersect Below(committed) \subseteq Stored

\* The records a failure now would deliver once more.
Unacknowledged == (Valid \intersect Below(position)) \ Below(committed)

\* A failure costs the redelivery of one batch at most: what run() has read
\* and not committed never exceeds FLUSH_EVERY records (app.py:60-62).
RedeliveryIsBounded == Cardinality(Unacknowledged) <= FLUSH_EVERY

\* Duplicates in bronze are the price of a failure between a write and its
\* commit (ADR-004:13); without one every row is written once.
NoDuplicatesWithoutFailure == faults = 0 => \A m \in Messages : Copies(m) <= 1

\* The consumer implements at-least-once delivery: what was accepted is stored
\* before it is acknowledged and stays stored once it is.
Delivered == INSTANCE Delivery
    WITH accepted <- Valid, acked <- committed, stored <- Stored

ImplementsDelivery == Delivered!Spec

\* "The Kafka consumer must guarantee that no record is lost in transit"
\* (ADR-004:11): a valid message reaches bronze and then stays there.
EventuallyDurable ==
    \A m \in Messages : (m \in Valid) ~> [](m \in Stored)

\* The same on a topic where every message is JSON: one that is not raises in the
\* iterator at every restart (kafka/consumer.py:47) and hides those behind it.
DurableUnlessGarbled == [](OfKind("garbled") = {}) => EventuallyDurable

-----------------------------------------------------------------------------
(* The inductive invariant behind CommittedIsDurable, which holds while a     *)
(* consumer that writes local files keeps its membership.                    *)

LocalKeepsMembership == "local" \notin RejoinModes

\* The group never commits past what was read, nor reads past the log.
OffsetsOrdered ==
    \A p \in Partitions : committed[p] <= position[p] /\ position[p] <= Len(log[p])

\* The buffer holds valid messages not committed, which are behind the position
\* unless the consumer has rejoined, and the process has nothing buffered
\* outside the loop and its flushes.
BufferIsFresh ==
    /\ buffer \subseteq Valid \ Below(committed)
    /\ mode = "local" => buffer \subseteq Below(position)
    /\ pc \notin {"polling", "flushing", "writing"} => buffer = {}
    /\ pc = "writing" => mode = "local" /\ target \in buffer

\* Nothing but valid messages is ever written to bronze.
BronzeIsValid ==
    /\ \A n \in Messages : files[n].rows \subseteq Valid
    /\ \A i \in 1 .. Len(snapshots) : snapshots[i] \subseteq Valid

\* The row is in an object that no later flush can truncate, once the offsets
\* below `offset` are not read again: its file is named after one of them.
Settled(m, offset) ==
    \/ \E n \in Messages :
        m \in files[n].rows /\ files[n].tail = "whole" /\ n \in Below(offset)
    \/ \E i \in 1 .. Len(snapshots) : m \in snapshots[i]

CommittedIsSettled ==
    \A m \in Valid \intersect Below(committed) : Settled(m, committed)

\* Until the flush returns, what was read and is to be committed is buffered.
ReadIsBuffered ==
    pc = "polling" \/ (pc \in {"flushing", "writing"} /\ phase # "abort") =>
        Unacknowledged \subseteq buffer

\* After it, everything about to be committed is settled.
CommittingIsSettled ==
    pc = "committing" =>
        \A m \in Valid \intersect Below(position) : Settled(m, position)

SafetyInv ==
    /\ OffsetsOrdered
    /\ BufferIsFresh
    /\ BronzeIsValid
    /\ CommittedIsSettled
    /\ ReadIsBuffered
    /\ CommittingIsSettled

-----------------------------------------------------------------------------
(* The inductive invariants behind RedeliveryIsBounded and                    *)
(* NoDuplicatesWithoutFailure, with or without a lost membership.             *)

\* In the loop, no more is read and not committed than the counter of appended
\* records says was appended since the last flush.
BatchIsCounted ==
    pc = "polling" => Cardinality(Unacknowledged) <= count % FLUSH_EVERY

RedeliveryInv ==
    /\ OffsetsOrdered
    /\ RedeliveryIsBounded
    /\ BatchIsCounted

\* What is buffered was read since the last commit, and is written before the next.
BatchIsNew ==
    /\ phase # "abort"
    /\ buffer \subseteq Below(position) \ Below(committed)
    /\ pc \notin {"polling", "flushing", "writing"} => buffer = {}
    /\ pc = "writing" => mode = "local" /\ target \in buffer

\* What bronze has is committed, but for the batch being written or committed now.
WrittenIsOld ==
    LET passed == Below(IF pc = "committing" THEN position ELSE committed)
    IN  /\ \A n \in Messages :
            files[n].rows \subseteq IF pc = "writing" /\ n = target THEN buffer ELSE passed
        /\ \A i \in 1 .. Len(snapshots) : snapshots[i] \subseteq passed

\* One layer of bronze is in use.
BronzeFollowsMode ==
    /\ mode = "local" => snapshots = <<>>
    /\ mode = "cloud" => pc # "writing" /\ \A n \in Messages : files[n].rows = {}

\* No row is in two objects of bronze.
ObjectsDisjoint ==
    /\ BronzeFollowsMode
    /\ \A n, k \in Messages : n # k => files[n].rows \intersect files[k].rows = {}
    /\ \A i, j \in 1 .. Len(snapshots) : i # j => snapshots[i] \intersect snapshots[j] = {}

Orderly ==
    /\ OffsetsOrdered
    /\ BatchIsNew
    /\ WrittenIsOld
    /\ ObjectsDisjoint

OnceInv == faults = 0 => Orderly

=============================================================================
