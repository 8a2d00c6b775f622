------------------------ MODULE IngestionCycleProofs ------------------------
(***************************************************************************)
(* Proofs about IngestionCycle, for any number of versions, rows and        *)
(* failures: its types, the inductive invariant CycleInv, what follows from *)
(* it, and the refinement of Ingestion.                                     *)
(***************************************************************************)
EXTENDS IngestionCycle, TLAPS

USE IngestionAssumption, ProducerAssumption, CycleAssumption

-----------------------------------------------------------------------------
(* Types. *)

\* What Appended returns is a count for every row of every version.
LEMMA AppendedType ==
    ASSUME onTopic \in [Versions -> [RowNumbers -> 0 .. 2]], NEW rows
    PROVE  Appended(rows) \in [Versions -> [RowNumbers -> 0 .. 2]]
<1> DEFINE F(f) == [r \in RowNumbers |-> IF r \in rows /\ f[r] < 2 THEN f[r] + 1 ELSE f[r]]
<1>1. ASSUME NEW f \in [RowNumbers -> 0 .. 2] PROVE F(f) \in [RowNumbers -> 0 .. 2]
  BY <1>1
<1>2. Appended(rows) = [onTopic EXCEPT ![landing] = F(onTopic[landing])]
  BY DEF Appended
<1> HIDE DEF F
<1>3. CASE landing \in Versions
  BY <1>1, <1>2, <1>3
<1>4. CASE landing \notin Versions
  BY <1>2, <1>4
<1> QED BY <1>3, <1>4

LEMMA TypeInit == Init => TypeOK
<1> SUFFICES ASSUME Init PROVE TypeOK
  OBVIOUS
<1> USE DEF Versions, RowNumbers
<1>1. StateTypeOK
  BY DEF Init, NoState, StateTypeOK, FileIngestionState
<1>2. failed \in BOOLEAN
  BY Zenon DEF Init, ProducerInit
<1>3. ProducerTypeOK
  BY <1>2 DEF Init, ProducerInit, ProducerTypeOK
<1>4. attempt \in 1 .. Attempts["network"]
  BY DEF Init, Attempts
<1> QED BY <1>1, <1>3, <1>4 DEF Init, TypeOK, Nothing

\* What HEAD answers is typed.
LEMMA CompareType ==
    ASSUME TypeOK, NEW etag \in Versions \union {0}, NEW length \in Nat,
           Compare(etag, length)
    PROVE  /\ seen' \in [etag : Versions \union {0}, length : Nat,
                         version : Versions \union {0}]
           /\ pc' \in {"download", "deciding"}
BY DEF TypeOK, Compare, Versions

\* A torn file is a state file, which says nothing.
LEMMA TornState ==
    ASSUME TearStateFile
    PROVE  /\ stateFile' \in FileIngestionState
           /\ stateFile'.file = "torn"
           /\ stateFile'.etag = 0 /\ stateFile'.length = 0
           /\ stateFile'.checksum = 0 /\ stateFile'.status = "none"
<1>1. stateFile' = [file |-> "torn", etag |-> 0, length |-> 0, checksum |-> 0,
                    status |-> "none"]
  BY DEF TearStateFile, NoState
<1> QED BY <1>1 DEF FileIngestionState

\* The next task of the cloud finds no state file.
LEMMA NextDisk ==
    ASSUME TypeOK, DiskOfNextTask
    PROVE  /\ archive' \in {archive, 0} /\ landing' \in {landing, 0}
           /\ \/ stateFile' = stateFile
              \/ /\ stateFile' \in FileIngestionState
                 /\ stateFile'.checksum = 0 /\ stateFile'.etag = 0
                 /\ stateFile'.length = 0 /\ stateFile'.status = "none"
<1>1. NoState \in FileIngestionState
  BY DEF NoState, FileIngestionState
<1> QED BY <1>1 DEF DiskOfNextTask, files, NoState

\* The attempts of a GET are those the policy allows.
LEMMA AttemptType ==
    ASSUME TypeOK, [Next]_vars
    PROVE  attempt' \in 1 .. Attempts["network"]
<1>0. attempt \in 1 .. 3 /\ Attempts["network"] = 3
  BY DEF TypeOK, Attempts
<1>1. CASE GetFails
  BY <1>0, <1>1 DEF GetFails
<1>2. CASE ~GetFails
  <2>1. attempt' \in {attempt, 1}
    BY <1>2 DEF Next, Progress, Failure, vars, request, Publish, StartCycle, Head,
       HeadUnreadable, Download, Extract, SaveState, Produce, NothingToProduce,
       ProducerTaskFails, NextRow, Deliver, LeaveLoop, FlushReturns, Mark, HeadFails,
       ExtractFails, SendFails, DeliveryFails, Crash
  <2> QED BY <1>0, <2>1
<1> QED BY <1>1, <1>2

\* The producer's flag stays a Boolean.
LEMMA FailedType ==
    ASSUME TypeOK, [Next]_vars
    PROVE  failed' \in BOOLEAN
<1>1. failed' \in {failed, TRUE, FALSE}
  BY Zenon DEF Next, Progress, Failure, vars, producerVars, Publish, StartCycle, Head,
     HeadUnreadable, Download, Extract, SaveState, Produce, NothingToProduce, ProducerTaskFails,
     NextRow,
     Deliver, LeaveLoop, FlushReturns, Mark, HeadFails, GetFails, ExtractFails, SendFails,
     DeliveryFails, Crash, OpenLanding, SendRow, SkipRow, HaltRow, Acknowledge,
     SendRaises, LoseRow, KillProducer
<1> QED BY <1>1 DEF TypeOK, ProducerTypeOK

\* A step keeps the types.  CycleInv is there for LoseRow: the rows that are
\* pending are those of a landed file.
LEMMA TypeNext == TypeOK /\ CycleInv /\ [Next]_vars => TypeOK'
<1> SUFFICES ASSUME TypeOK, CycleInv, [Next]_vars PROVE TypeOK'
  OBVIOUS
<1>0. failed' \in BOOLEAN /\ attempt' \in 1 .. Attempts["network"]
  BY FailedType, AttemptType
<1> USE DEF TypeOK, StateTypeOK, ProducerTypeOK, files, world, request, producerVars
<1>1. CASE Publish
  BY <1>1 DEF Publish, Versions
<1>2. CASE StartCycle
  BY <1>0, <1>2, NextDisk DEF StartCycle
<1>3. CASE Head
  <2>1. provider \in Versions \union {0} /\ LengthOf[provider] \in Nat
    OBVIOUS
  <2> QED BY <1>3, <2>1, CompareType DEF Head, Versions
<1>4. CASE HeadFails
  BY <1>4, CompareType DEF HeadFails, Fault, Versions
<1>5. CASE HeadUnreadable
  BY <1>5 DEF HeadUnreadable
<1>6. CASE Download
  BY <1>0, <1>6 DEF Download
<1>7. CASE Extract
  BY <1>7 DEF Extract
<1>8. CASE SaveState
  BY <1>8 DEF SaveState, SaveExtracted, FileIngestionState
<1>9. CASE GetFails
  <2>1. faults' \in 0 .. MaxFaults
    BY <1>9 DEF GetFails, Fault
  <2>2. pc' \in {"download", "waiting"} /\ archive' \in {archive, 0}
    BY <1>9 DEF GetFails
  <2>3. UNCHANGED <<stateFile, landing, world, producerVars, seen>>
    BY <1>9 DEF GetFails
  <2> QED BY <1>0, <2>1, <2>2, <2>3
<1>21. CASE ExtractFails
  BY <1>21 DEF ExtractFails, Fault
<1>22. CASE ProducerTaskFails
  BY <1>0, <1>22, NextDisk DEF ProducerTaskFails
<1>10. CASE Produce
  BY <1>0, <1>10 DEF Produce, OpenLanding
<1>11. CASE NothingToProduce
  BY <1>11 DEF NothingToProduce
<1>12. CASE NextRow
  <2>1. row' \in 1 .. Rows + 1
    BY <1>12 DEF NextRow, SendRow, SkipRow, HaltRow, GoodRows, RowNumbers
  <2>2. pending' \subseteq RowNumbers
    BY <1>12 DEF NextRow, SendRow, SkipRow, HaltRow, GoodRows
  <2>3. UNCHANGED <<files, world, pc, request, faults, onTopic, lost>>
    BY <1>12 DEF NextRow, SendRow, SkipRow, HaltRow
  <2> QED BY <1>0, <2>1, <2>2, <2>3
<1>13. CASE SendFails
  BY <1>0, <1>13 DEF SendFails, SendRaises, Fault
<1>14. CASE Deliver
  BY <1>14, AppendedType DEF Deliver, Acknowledge
<1>15. CASE DeliveryFails
  <2>1. faults' \in 0 .. MaxFaults
    BY <1>15 DEF DeliveryFails, Fault
  <2>2. landing \in Versions
    BY <1>15 DEF DeliveryFails, CycleInv, LandingIsCurrent, StateIsHonest,
                 FileIngestionState
  <2>3. PICK r \in pending : lost' = lost \union {<<landing, r>>}
    BY <1>15 DEF DeliveryFails, LoseRow
  <2>4. lost' \subseteq Versions \X RowNumbers
    BY <2>2, <2>3
  <2>5. pending' \subseteq RowNumbers
    BY <1>15 DEF DeliveryFails, LoseRow
  <2> QED BY <1>15, <2>1, <2>4, <2>5 DEF DeliveryFails, LoseRow
<1>16. CASE LeaveLoop
  BY <1>16 DEF LeaveLoop
<1>17. CASE FlushReturns
  BY <1>17 DEF FlushReturns
<1>18. CASE Mark
  BY <1>18 DEF Mark, MarkProduced, FileIngestionState
<1>19. CASE Crash
  <2>1. stateFile' \in FileIngestionState
    BY <1>19, TornState DEF Crash
  <2>2. archive' \in Versions \union {0} /\ landing' \in Versions \union {0}
    BY <1>19 DEF Crash
  <2>3. faults' \in 0 .. MaxFaults
    BY <1>19 DEF Crash, Fault
  <2>4. CASE KillProducer
    <3>1. onTopic' \in [Versions -> [RowNumbers -> 0 .. 2]]
      BY <2>4, AppendedType DEF KillProducer
    <3>2. pending' = {} /\ row' \in 1 .. Rows + 1 /\ lost' = lost
      BY <2>4 DEF KillProducer
    <3>3. UNCHANGED <<world, seen>> /\ pc' = "waiting"
      BY <1>19 DEF Crash
    <3> QED BY <1>0, <2>1, <2>2, <2>3, <3>1, <3>2, <3>3
  <2>5. CASE UNCHANGED producerVars
    BY <1>0, <1>19, <2>1, <2>2, <2>3, <2>5 DEF Crash
  <2> QED BY <1>19, <2>4, <2>5 DEF Crash
<1>20. CASE UNCHANGED vars
  BY <1>20 DEF vars
<1> QED
  BY <1>1, <1>2, <1>3, <1>4, <1>5, <1>6, <1>7, <1>8, <1>9, <1>10, <1>11, <1>12, <1>13,
     <1>14, <1>15, <1>16, <1>17, <1>18, <1>19, <1>20, <1>21, <1>22
  DEF Next, Progress, Failure

-----------------------------------------------------------------------------
(* What a step can touch. *)

\* The state file is written by the downloader and by the scheduler, torn by a crash
\* while one of them writes it, and absent from the disk of the next task.
LEMMA StateFileStep ==
    ASSUME [Next]_vars
    PROVE  \/ SaveState \/ Mark \/ (Crash /\ TearStateFile)
           \/ DiskOfNextTask
           \/ UNCHANGED stateFile
BY DEF Next, Progress, Failure, vars, files, world, producerVars, Publish, StartCycle,
       Head, HeadUnreadable, Download, Extract, Produce, NothingToProduce,
       ProducerTaskFails, NextRow, Deliver, LeaveLoop, FlushReturns, HeadFails, GetFails,
       ExtractFails, SendFails,
       DeliveryFails, Crash

\* Rows are appended by the client, all at once when it is killed.
LEMMA TopicStep ==
    ASSUME TypeOK, [Next]_vars
    PROVE  /\ UNCHANGED content
           /\ \/ UNCHANGED onTopic
              \/ /\ pc \in {"producing", "flushing"} /\ (Deliver \/ Crash)
                 /\ \E rows \in SUBSET pending : onTopic' = Appended(rows)
           /\ lost \subseteq lost'
<1>1. CASE Deliver
  <2>1. PICK r \in pending : onTopic' = Appended({r})
    BY <1>1 DEF Deliver, Acknowledge
  <2>2. {r} \in SUBSET pending
    OBVIOUS
  <2>3. UNCHANGED <<content, lost>> /\ pc \in {"producing", "flushing"}
    BY <1>1 DEF Deliver, Acknowledge, world
  <2> QED BY <1>1, <2>1, <2>2, <2>3
<1>2. CASE Crash
  BY <1>2 DEF Crash, KillProducer, world, producerVars
<1>3. CASE DeliveryFails
  BY <1>3 DEF DeliveryFails, LoseRow, world
<1>4. CASE ~Deliver /\ ~Crash /\ ~DeliveryFails
  <2>1. UNCHANGED <<content, onTopic, lost>>
    BY <1>4 DEF Next, Progress, Failure, vars, files, world, producerVars, Publish,
       StartCycle, Head, HeadUnreadable, Download, Extract, SaveState, Produce,
       NothingToProduce, ProducerTaskFails, NextRow, LeaveLoop, FlushReturns, Mark, HeadFails,
       GetFails, ExtractFails, SendFails, OpenLanding, SendRow, SkipRow, HaltRow, SendRaises
  <2> QED BY <2>1
<1> QED BY <1>1, <1>2, <1>3, <1>4

\* Appended adds the rows it is given to the landed version, and no others.
LEMMA AppendedArrives ==
    ASSUME TypeOK, NEW rows, rows \subseteq RowNumbers, onTopic' = Appended(rows)
    PROVE  \A v \in Versions :
              Arrived(v)' = Arrived(v) \union (IF v = landing THEN rows ELSE {})
<1>1. TAKE v \in Versions
<1>2. onTopic[v] \in [RowNumbers -> 0 .. 2]
  BY DEF TypeOK, ProducerTypeOK
<1>3. CASE v = landing
  <2>1. onTopic'[v] = [r \in RowNumbers |->
            IF r \in rows /\ onTopic[v][r] < 2 THEN onTopic[v][r] + 1 ELSE onTopic[v][r]]
    BY <1>3 DEF Appended, TypeOK, ProducerTypeOK
  <2>2. \A r \in RowNumbers : onTopic'[v][r] > 0 <=> onTopic[v][r] > 0 \/ r \in rows
    BY <1>2, <2>1
  <2> QED BY <1>3, <2>2 DEF Arrived
<1>4. CASE v # landing
  <2>1. onTopic'[v] = onTopic[v]
    BY <1>4 DEF Appended, TypeOK, ProducerTypeOK
  <2> QED BY <1>4, <2>1 DEF Arrived
<1> QED BY <1>3, <1>4

\* What has arrived, or is lost, stays so.
LEMMA Monotone ==
    ASSUME TypeOK, [Next]_vars
    PROVE  \A v \in Versions : /\ GoodRows(v)' = GoodRows(v)
                               /\ Arrived(v) \subseteq Arrived(v)'
                               /\ Lost(v) \subseteq Lost(v)'
<1>1. \A v \in Versions : Arrived(v) \subseteq Arrived(v)'
  <2>1. CASE UNCHANGED onTopic
    BY <2>1 DEF Arrived
  <2>2. ASSUME NEW rows \in SUBSET pending, onTopic' = Appended(rows)
        PROVE  \A v \in Versions : Arrived(v) \subseteq Arrived(v)'
    <3>1. rows \subseteq RowNumbers
      BY DEF TypeOK, ProducerTypeOK
    <3> QED BY <2>2, <3>1, AppendedArrives
  <2> QED BY <2>1, <2>2, TopicStep
<1>2. \A v \in Versions : GoodRows(v)' = GoodRows(v)
  BY TopicStep DEF GoodRows
<1>3. \A v \in Versions : Lost(v) \subseteq Lost(v)'
  BY TopicStep DEF Lost
<1> QED BY <1>1, <1>2, <1>3

-----------------------------------------------------------------------------
(* The inductive invariant, one lemma for each of its parts. *)

LEMMA CycleInit == Init => CycleInv
BY DEF Init, NoState, Nothing, Versions, CycleInv, NothingFromTheFuture, StateIsHonest,
       LandingIsCurrent, RowsAreHandled, OnlyGoodRowsAreSent, NewestIsLast, OnTopicUpTo,
       ProducerInit, Arrived, ProducedMeansSent

\* The server does not change what it sends.
LEMMA HeadersStay == [Next]_vars => headers' = headers
BY DEF Next, Progress, Failure, vars, world, Publish, StartCycle, Head, HeadUnreadable,
       Download, Extract, SaveState, Produce, NothingToProduce, ProducerTaskFails, NextRow,
       Deliver, LeaveLoop, FlushReturns, Mark, HeadFails, GetFails, ExtractFails, SendFails,
       DeliveryFails, Crash

\* The headers of HEAD are those of the version served when it was answered.
LEMMA FutureNext ==
    ASSUME TypeOK, CycleInv, [Next]_vars, TypeOK'
    PROVE  NothingFromTheFuture'
<1> USE DEF NothingFromTheFuture, CycleInv
<1>0. /\ provider \in Nat \ {0} /\ archive \in Nat
      /\ seen.version \in Nat /\ stateFile.checksum \in Nat
  <2>1. Versions \subseteq Nat \ {0}
    BY DEF Versions
  <2>2. stateFile.checksum \in Versions \union {0}
    BY DEF TypeOK, StateTypeOK, FileIngestionState
  <2>3. seen.version \in Versions \union {0}
    BY DEF TypeOK
  <2>4. provider \in Versions /\ archive \in Versions \union {0}
    BY DEF TypeOK
  <2>5. \A n \in Versions \union {0} : n \in Nat
    BY <2>1
  <2>6. provider \in Nat \ {0}
    BY <2>1, <2>4
  <2> HIDE DEF NothingFromTheFuture, CycleInv
  <2> QED BY <2>2, <2>3, <2>4, <2>5, <2>6
<1> USE DEF files, world, request
<1>1. CASE Publish
  BY <1>0, <1>1 DEF Publish
<1>2. CASE Head
  <2> DEFINE e == IF "etag" \in headers THEN provider ELSE 0
             l == IF "length" \in headers THEN LengthOf[provider] ELSE 0
  <2>1. /\ seen' = [etag |-> e, length |-> l, version |-> provider]
        /\ pc' \in {"download", "deciding"}
        /\ UNCHANGED <<stateFile, archive, provider>>
    BY <1>2 DEF Head, Compare
  <2>2. e \in {0, provider} /\ (l # 0 => l = LengthOf[provider])
    OBVIOUS
  <2> HIDE DEF e, l
  <2>3. /\ seen'.etag = e /\ seen'.length = l /\ seen'.version = provider
    BY <2>1
  <2>4. headers' = headers /\ ("etag" \in headers => e # 0)
    BY <1>0, <1>2 DEF Head, e
  <2> QED BY <1>0, <2>1, <2>2, <2>3, <2>4
<1>3. CASE HeadFails
  BY <1>0, <1>3 DEF HeadFails, Compare
<1>4. CASE Download
  BY <1>0, <1>4 DEF Download
<1>5. CASE SaveState
  BY <1>0, <1>5 DEF SaveState, SaveExtracted
<1>6. CASE Mark
  <2>1. stateFile'.checksum = stateFile.checksum
    BY <1>6 DEF Mark, MarkProduced, TypeOK, StateTypeOK, FileIngestionState
  <2> QED BY <1>6, <2>1 DEF Mark
<1>7. CASE GetFails \/ ExtractFails
  BY <1>0, <1>7 DEF GetFails, ExtractFails
<1>10. CASE StartCycle \/ ProducerTaskFails
  <2>1. /\ archive' \in {archive, 0} /\ stateFile'.checksum \in {stateFile.checksum, 0}
    BY <1>10, NextDisk DEF StartCycle, ProducerTaskFails
  <2>2. /\ pc' \notin {"extract", "saving"}
        /\ UNCHANGED <<provider, seen, headers>>
    BY <1>10, HeadersStay DEF StartCycle, ProducerTaskFails, request
  <2> QED BY <1>0, <2>1, <2>2
<1>8. CASE Crash
  <2>1. stateFile'.checksum \in {0, stateFile.checksum}
    BY <1>8, TornState DEF Crash
  <2> QED BY <1>0, <1>8, <2>1 DEF Crash
<1>9. CASE ~Publish /\ ~Head /\ ~HeadFails /\ ~Download /\ ~SaveState /\ ~Mark
           /\ ~(GetFails \/ ExtractFails) /\ ~Crash /\ ~(StartCycle \/ ProducerTaskFails)
  <2>1. UNCHANGED <<archive, provider, seen, stateFile, headers>>
    BY <1>9, HeadersStay DEF Next, Progress, Failure, vars, request, HeadUnreadable, Extract,
       Produce, NothingToProduce, NextRow, Deliver, LeaveLoop, FlushReturns, SendFails,
       DeliveryFails
  <2>2. pc' \in {"extract", "saving"} => pc \in {"extract", "saving"}
    BY <1>9 DEF Next, Progress, Failure, vars, request, HeadUnreadable, Extract,
       Produce, NothingToProduce, NextRow, Deliver, LeaveLoop, FlushReturns, SendFails,
       DeliveryFails
  <2> QED BY <2>1, <2>2
<1> QED
  BY <1>1, <1>2, <1>3, <1>4, <1>5, <1>6, <1>7, <1>8, <1>9, <1>10

\* The headers saved are no newer than the content, and a failed save tells nothing.
LEMMA HonestNext ==
    ASSUME TypeOK, CycleInv, [Next]_vars
    PROVE  StateIsHonest'
<1> USE DEF StateIsHonest, CycleInv
<1>0. headers' = headers
  BY HeadersStay
<1>1. CASE SaveState
  <2>1. stateFile' = [file |-> "written", etag |-> seen.etag, length |-> seen.length,
                      checksum |-> archive, status |-> "extracted"]
    BY <1>1 DEF SaveState, SaveExtracted
  <2>3. seen.length # 0 /\ "etag" \in headers => seen.etag # 0
    BY DEF NothingFromTheFuture
  <2>2. /\ archive # 0 /\ seen.version <= archive /\ archive \in Nat
        /\ seen.etag \in {0, seen.version}
        /\ seen.version \in Versions \union {0}
        /\ seen.length # 0 =>
              seen.version # 0 /\ seen.length = LengthOf[seen.version]
    BY <1>1 DEF SaveState, NothingFromTheFuture, TypeOK, Versions
  <2> QED BY <1>0, <2>1, <2>2, <2>3 DEF Versions
<1>2. CASE Mark
  <2>1. /\ stateFile.file = "written"
        /\ stateFile.checksum # 0
    BY <1>2 DEF Mark, LandingIsCurrent
  <2>2. stateFile' = [stateFile EXCEPT !.status = "produced"]
    BY <1>2, <2>1 DEF Mark, MarkProduced
  <2>3. /\ stateFile'.file = stateFile.file
        /\ stateFile'.etag = stateFile.etag
        /\ stateFile'.length = stateFile.length
        /\ stateFile'.checksum = stateFile.checksum
    BY <2>2 DEF TypeOK, StateTypeOK, FileIngestionState
  <2> QED BY <1>0, <2>1, <2>3
<1>3. CASE Crash /\ TearStateFile
  BY <1>3, TornState
<1>4. CASE UNCHANGED stateFile
  BY <1>0, <1>4
<1>5. CASE DiskOfNextTask
  BY <1>4, <1>5, NextDisk
<1> QED BY <1>1, <1>2, <1>3, <1>4, <1>5, StateFileStep

LEMMA LandingNext ==
    ASSUME TypeOK, CycleInv, [Next]_vars
    PROVE  LandingIsCurrent'
<1> USE DEF LandingIsCurrent, CycleInv, files, world
<1>1. CASE Head \/ HeadFails
  BY <1>1 DEF Head, HeadFails, Compare, HasNewContent
<1>2. CASE Extract
  BY <1>2 DEF Extract
<1>3. CASE SaveState
  <2>1. stateFile'.checksum = archive /\ stateFile'.status = "extracted"
    BY <1>3 DEF SaveState, SaveExtracted
  <2> QED BY <1>3, <2>1 DEF SaveState
<1>4. CASE Crash \/ Mark \/ ExtractFails \/ StartCycle \/ ProducerTaskFails
  BY <1>4 DEF Crash, Mark, ExtractFails, StartCycle, ProducerTaskFails
<1>5. CASE Produce
  BY <1>5 DEF Produce
<1>6. CASE FlushReturns
  BY <1>6 DEF FlushReturns
<1>7. CASE ~(Head \/ HeadFails) /\ ~Extract /\ ~SaveState /\ ~Produce /\ ~FlushReturns
           /\ ~(Crash \/ Mark \/ ExtractFails \/ StartCycle \/ ProducerTaskFails)
  BY <1>7 DEF Next, Progress, Failure, vars, Publish, HeadUnreadable, Download, GetFails,
     NothingToProduce, NextRow, Deliver, LeaveLoop, SendFails, DeliveryFails
<1> QED BY <1>1, <1>2, <1>3, <1>4, <1>5, <1>6, <1>7

\* The rows the loop is past do not disappear between the client and the broker.
LEMMA RowsNext ==
    ASSUME TypeOK, CycleInv, [Next]_vars
    PROVE  RowsAreHandled'
<1> DEFINE Handled(v) == pending \union Arrived(v) \union Lost(v)
<1> USE DEF RowsAreHandled, CycleInv
<1>0. /\ row \in Nat /\ pending \subseteq RowNumbers
      /\ \A v : GoodRows(v) \subseteq RowNumbers
      /\ \A r \in RowNumbers : r \in Nat /\ 1 <= r /\ r <= Rows
      /\ pc \in {"producing", "flushing", "marking"} => landing \in Versions
  BY DEF TypeOK, ProducerTypeOK, StateTypeOK, FileIngestionState, RowNumbers, GoodRows,
         LandingIsCurrent, StateIsHonest
<1> USE DEF files, world
<1>1. CASE Produce
  <2>1. pc' = "producing" /\ row' = 1
    BY <1>1 DEF Produce, OpenLanding
  <2>2. \A r \in GoodRows(landing)' : ~(r < row')
    BY <1>1, <2>1 DEF Produce, GoodRows, RowNumbers
  <2> QED BY <2>1, <2>2
<1>2. CASE NextRow
  <2>1. /\ pc = "producing" /\ pc' = "producing"
        /\ UNCHANGED <<landing, content, onTopic, lost>>
    BY <1>2 DEF NextRow, SendRow, SkipRow, HaltRow
  <2>2. /\ GoodRows(landing)' = GoodRows(landing)
        /\ Arrived(landing)' = Arrived(landing)
        /\ Lost(landing)' = Lost(landing)
    BY <2>1 DEF GoodRows, Arrived, Lost
  <2>3. ASSUME NEW r \in GoodRows(landing), r < row'
        PROVE  r \in pending' \union Arrived(landing) \union Lost(landing)
    <3>1. CASE SendRow
      BY <1>0, <2>1, <2>3, <3>1 DEF SendRow
    <3>2. CASE SkipRow
      BY <1>0, <2>1, <2>3, <3>2 DEF SkipRow, GoodRows
    <3>3. CASE HaltRow
      BY <1>0, <2>1, <2>3, <3>3 DEF HaltRow
    <3> QED BY <1>2, <3>1, <3>2, <3>3 DEF NextRow
  <2> QED BY <2>1, <2>2, <2>3
<1>3. CASE Deliver
  <2>1. /\ pc \in {"producing", "flushing"}
        /\ UNCHANGED <<landing, content, lost, pc, row, failed>>
    BY <1>3 DEF Deliver, Acknowledge
  <2>2. PICK r \in pending : pending' = pending \ {r} /\ onTopic' = Appended({r})
    BY <1>3 DEF Deliver, Acknowledge
  <2>3. Arrived(landing) \subseteq Arrived(landing)' /\ r \in Arrived(landing)'
    <3>1. {r} \subseteq RowNumbers
      BY <1>0
    <3>2. \A v \in Versions : Arrived(v)' = Arrived(v) \union (IF v = landing THEN {r} ELSE {})
      BY <2>2, <3>1, AppendedArrives
    <3>3. Arrived(landing)' = {s \in RowNumbers : onTopic'[landing][s] > 0}
      BY <2>1 DEF Arrived
    <3> QED BY <1>0, <2>1, <3>2, <3>3 DEF Arrived
  <2>4. GoodRows(landing)' = GoodRows(landing) /\ Lost(landing)' = Lost(landing)
    BY <2>1 DEF GoodRows, Lost
  <2> QED BY <2>1, <2>2, <2>3, <2>4
<1>4. CASE DeliveryFails
  <2>1. /\ pc \in {"producing", "flushing"}
        /\ UNCHANGED <<landing, content, onTopic, pc, row, failed>>
    BY <1>4 DEF DeliveryFails, LoseRow
  <2>2. PICK r \in pending : /\ pending' = pending \ {r}
                             /\ lost' = lost \union {<<landing, r>>}
    BY <1>4 DEF DeliveryFails, LoseRow
  <2>3. Lost(landing)' = Lost(landing) \union {r}
    BY <1>0, <2>1, <2>2 DEF Lost
  <2>4. /\ GoodRows(landing)' = GoodRows(landing)
        /\ Arrived(landing)' = Arrived(landing)
    BY <2>1 DEF GoodRows, Arrived
  <2> QED BY <2>1, <2>2, <2>3, <2>4
<1>5. CASE LeaveLoop
  <2>1. /\ pc = "producing" /\ pc' = "flushing" /\ (failed \/ row > Rows)
        /\ UNCHANGED <<landing, content, producerVars>>
    BY <1>5 DEF LeaveLoop
  <2>2. /\ GoodRows(landing)' = GoodRows(landing)
        /\ Arrived(landing)' = Arrived(landing)
        /\ Lost(landing)' = Lost(landing)
    BY <2>1 DEF producerVars, GoodRows, Arrived, Lost
  <2> QED BY <2>1, <2>2 DEF producerVars
<1>6. CASE FlushReturns
  <2>1. /\ pc = "flushing" /\ pending = {} /\ pc' = IF failed THEN "waiting" ELSE "marking"
        /\ UNCHANGED <<landing, content, producerVars>>
    BY <1>6 DEF FlushReturns
  <2>2. /\ GoodRows(landing)' = GoodRows(landing)
        /\ Arrived(landing)' = Arrived(landing)
        /\ Lost(landing)' = Lost(landing)
    BY <2>1 DEF producerVars, GoodRows, Arrived, Lost
  <2>3. ~failed => GoodRows(landing) \subseteq Arrived(landing) \union Lost(landing)
    BY <1>0, <2>1
  <2> QED BY <2>1, <2>2, <2>3
<1>7. CASE SendFails
  <2>1. /\ pc = "producing" /\ pc' = "producing"
        /\ UNCHANGED <<landing, content, row, pending, onTopic, lost>>
    BY <1>7 DEF SendFails, SendRaises
  <2>2. /\ GoodRows(landing)' = GoodRows(landing)
        /\ Arrived(landing)' = Arrived(landing)
        /\ Lost(landing)' = Lost(landing)
    BY <2>1 DEF GoodRows, Arrived, Lost
  <2> QED BY <2>1, <2>2
<1>8. CASE \/ Publish
           \/ UNCHANGED vars
  <2>1. UNCHANGED <<pc, landing, content, producerVars>>
    BY <1>8 DEF Publish, vars
  <2>2. /\ GoodRows(landing)' = GoodRows(landing)
        /\ Arrived(landing)' = Arrived(landing)
        /\ Lost(landing)' = Lost(landing)
    BY <2>1 DEF producerVars, GoodRows, Arrived, Lost
  <2> QED BY <2>1, <2>2 DEF producerVars
<1>9. CASE pc' \notin {"producing", "flushing", "marking"}
  BY <1>9
<1>10. CASE ~Produce /\ ~NextRow /\ ~Deliver /\ ~DeliveryFails /\ ~LeaveLoop /\ ~FlushReturns
            /\ ~SendFails /\ ~Publish /\ vars' # vars
  <2>1. pc' \notin {"producing", "flushing", "marking"}
    BY <1>10 DEF Next, Progress, Failure, StartCycle, Head, Compare, HeadUnreadable,
       Download, Extract, SaveState, NothingToProduce, ProducerTaskFails, Mark,
       HeadFails, GetFails, ExtractFails,
       Crash
  <2> QED BY <1>9, <2>1
<1> QED
  BY <1>1, <1>2, <1>3, <1>4, <1>5, <1>6, <1>7, <1>8, <1>10

\* Only SendRow gives rows to the client, and it gives good ones.
LEMMA PendingNext ==
    ASSUME TypeOK, CycleInv, [Next]_vars
    PROVE  OnlyGoodRowsAreSent'
<1> USE DEF OnlyGoodRowsAreSent, CycleInv, files, world
<1>1. CASE Produce
  BY <1>1 DEF Produce, OpenLanding
<1>2. CASE pc \in {"producing", "flushing"} /\ UNCHANGED <<landing, content>>
           /\ pending' \subseteq pending \union GoodRows(landing)
  BY <1>2 DEF GoodRows
<1>3. CASE NextRow \/ SendFails
  BY <1>2, <1>3 DEF NextRow, SendRow, SkipRow, HaltRow, SendFails, SendRaises
<1>4. CASE Deliver \/ DeliveryFails
  BY <1>2, <1>4 DEF Deliver, Acknowledge, DeliveryFails, LoseRow
<1>5. CASE LeaveLoop
  BY <1>2, <1>5 DEF LeaveLoop, producerVars
<1>6. CASE Publish \/ UNCHANGED vars
  BY <1>6 DEF Publish, vars, producerVars, GoodRows
<1>7. CASE ~Produce /\ ~(NextRow \/ SendFails) /\ ~(Deliver \/ DeliveryFails) /\ ~LeaveLoop
           /\ ~(Publish \/ UNCHANGED vars)
  <2>1. pc' \notin {"producing", "flushing"}
    BY <1>7 DEF Next, Progress, Failure, StartCycle, Head, Compare, HeadUnreadable,
       Download, Extract, SaveState, NothingToProduce, ProducerTaskFails, FlushReturns,
       Mark, HeadFails, GetFails, ExtractFails, Crash
  <2> QED BY <2>1
<1> QED BY <1>1, <1>3, <1>4, <1>5, <1>6, <1>7

\* What is landed, and then produced, is no older than anything on the topic.
LEMMA NewestNext ==
    ASSUME TypeOK, CycleInv, [Next]_vars
    PROVE  NewestIsLast'
<1> USE DEF NewestIsLast, CycleInv, OnTopicUpTo
<1>0. /\ provider \in Nat /\ stateFile.checksum \in Nat /\ stateFile.checksum <= provider
      /\ \A v \in Versions : v \in Nat
  BY DEF TypeOK, StateTypeOK, FileIngestionState, Versions, NothingFromTheFuture
<1>1. CASE Deliver \/ Crash
  <2>1. /\ provider' = provider /\ pc' \in {pc, "waiting"}
        /\ pc' = "waiting" \/ (pc \in {"producing", "flushing"} /\ stateFile' = stateFile)
    BY <1>1 DEF Deliver, Crash, files, world
  <2>2. CASE UNCHANGED onTopic
    BY <2>1, <2>2 DEF Arrived
  <2>3. ASSUME NEW rows \in SUBSET pending, onTopic' = Appended(rows),
               pc \in {"producing", "flushing"}
        PROVE  NewestIsLast'
    <3>1. landing = stateFile.checksum /\ stateFile.status = "extracted"
      BY <2>3 DEF LandingIsCurrent
    <3>2. \A v \in Versions :
              Arrived(v)' = Arrived(v) \union (IF v = landing THEN rows ELSE {})
      BY <2>3, AppendedArrives DEF TypeOK, ProducerTypeOK
    <3>3. \A v \in Versions : Arrived(v)' # {} => v <= stateFile.checksum
      BY <1>0, <2>3, <3>1, <3>2
    <3> QED BY <1>0, <2>1, <3>3
  <2> QED BY <2>2, <2>3, TopicStep
<1>2. CASE ~Deliver /\ ~Crash
  <2>1. onTopic' = onTopic
    BY <1>2, TopicStep
  <2>2. \A v \in Versions : Arrived(v)' = Arrived(v)
    BY <2>1 DEF Arrived
  <2>3. CASE Publish
    BY <1>0, <2>2, <2>3 DEF Publish, files
  <2>4. CASE Download
    BY <2>2, <2>4 DEF Download, world
  <2>5. CASE SaveState
    <3>1. stateFile'.checksum = archive /\ UNCHANGED <<archive, provider>>
      BY <2>5 DEF SaveState, SaveExtracted, world
    <3> QED BY <2>2, <2>5, <3>1 DEF SaveState
  <2>6. CASE Head \/ HeadFails
    BY <2>2, <2>6 DEF Head, HeadFails, Compare, HasNewContent, files, world
  <2>7. CASE StartCycle \/ ProducerTaskFails \/ Mark \/ GetFails \/ ExtractFails
    BY <2>2, <2>7 DEF StartCycle, ProducerTaskFails, Mark, GetFails, ExtractFails, world
  <2>8. CASE ~Publish /\ ~Download /\ ~SaveState /\ ~(Head \/ HeadFails)
             /\ ~(StartCycle \/ ProducerTaskFails \/ Mark \/ GetFails \/ ExtractFails)
    <3>1. /\ UNCHANGED <<archive, provider, stateFile>>
          /\ pc' \in {"extract", "saving"} => pc \in {"extract", "saving"}
          /\ pc' \in {"deciding", "producing", "flushing"} =>
                pc \in {"deciding", "producing", "flushing"}
      BY <1>2, <2>8 DEF Next, Progress, Failure, vars, files, world, HeadUnreadable,
         Extract, Produce, NothingToProduce, NextRow, LeaveLoop, FlushReturns, SendFails,
         DeliveryFails
    <3> QED BY <2>2, <3>1
  <2> QED BY <2>3, <2>4, <2>5, <2>6, <2>7, <2>8
<1> QED BY <1>1, <1>2

\* A version is marked when its rows have been handled, and they stay so.
LEMMA SentNext ==
    ASSUME TypeOK, CycleInv, [Next]_vars
    PROVE  ProducedMeansSent'
<1> USE DEF ProducedMeansSent, CycleInv
<1>1. CASE SaveState
  BY <1>1 DEF SaveState, SaveExtracted
<1>2. CASE Crash /\ TearStateFile
  BY <1>2, TornState
<1> DEFINE v == stateFile.checksum
<1>3. CASE Mark
  <2>1. /\ stateFile.file = "written" /\ v \in Versions /\ landing = v
    BY <1>3 DEF Mark, LandingIsCurrent, StateIsHonest, TypeOK, StateTypeOK,
                FileIngestionState
  <2>2. stateFile' = [stateFile EXCEPT !.status = "produced"]
    BY <1>3, <2>1 DEF Mark, MarkProduced
  <2>3. stateFile'.checksum = v
    BY <2>2 DEF TypeOK, StateTypeOK, FileIngestionState
  <2>4. GoodRows(v) \subseteq Arrived(v) \union Lost(v)
    BY <1>3, <2>1 DEF Mark, RowsAreHandled
  <2>5. UNCHANGED <<content, onTopic, lost>>
    BY <1>3 DEF Mark, world, producerVars
  <2>6. /\ GoodRows(stateFile.checksum)' = GoodRows(v)
        /\ Arrived(stateFile.checksum)' = Arrived(v)
        /\ Lost(stateFile.checksum)' = Lost(v)
    BY <2>3, <2>5 DEF GoodRows, Arrived, Lost
  <2> QED BY <2>4, <2>6
<1>4. CASE UNCHANGED stateFile
  <2>1. SUFFICES ASSUME stateFile'.status = "produced"
                 PROVE  GoodRows(stateFile.checksum)'
                            \subseteq (Arrived(stateFile.checksum) \union Lost(stateFile.checksum))'
    OBVIOUS
  <2>2. v \in Versions
    BY <1>4, <2>1 DEF StateIsHonest, TypeOK, StateTypeOK, FileIngestionState
  <2>3. GoodRows(v) \subseteq Arrived(v) \union Lost(v)
    BY <1>4, <2>1
  <2>4. \A w \in Versions : /\ GoodRows(w)' = GoodRows(w)
                            /\ Arrived(w) \subseteq Arrived(w)'
                            /\ Lost(w) \subseteq Lost(w)'
    BY Monotone
  <2>5. \A w \in Versions : w = stateFile'.checksum =>
            /\ GoodRows(stateFile.checksum)' = GoodRows(w)'
            /\ Arrived(stateFile.checksum)' = Arrived(w)'
            /\ Lost(stateFile.checksum)' = Lost(w)'
    BY DEF GoodRows, Arrived, Lost
  <2> QED BY <1>4, <2>2, <2>3, <2>4, <2>5
<1>5. CASE DiskOfNextTask
  BY <1>4, <1>5, NextDisk
<1> QED BY <1>1, <1>2, <1>3, <1>4, <1>5, StateFileStep

LEMMA Inductive == TypeOK /\ CycleInv /\ [Next]_vars => TypeOK' /\ CycleInv'
<1> SUFFICES ASSUME TypeOK, CycleInv, [Next]_vars PROVE TypeOK' /\ CycleInv'
  OBVIOUS
<1>1. TypeOK'
  BY TypeNext
<1> QED BY <1>1, FutureNext, HonestNext, LandingNext, RowsNext, PendingNext,
     NewestNext, SentNext
     DEF CycleInv

-----------------------------------------------------------------------------
(* Theorems. *)

\* Types and the inductive invariant together hold in every state, whatever
\* crashes and whenever the provider publishes (downloader, producer, scheduler).
THEOREM CycleIsSafe == Spec => [](TypeOK /\ CycleInv)
<1>1. Init => TypeOK /\ CycleInv
  BY TypeInit, CycleInit
<1> QED BY <1>1, Inductive, PTL DEF Spec

\* The invariant alone: headers, archive, landed file, state file and what is on
\* the topic stay consistent (scheduler/app.py:81-105).
THEOREM CycleInvHolds == Spec => []CycleInv
BY CycleIsSafe, PTL

\* Types alone (ingestion/state.py:23-35, producer/app.py:43-65).
THEOREM TypeCorrect == Spec => []TypeOK
BY CycleIsSafe, PTL

\* A version is marked as produced only after a complete pass over it
\* (scheduler/app.py:97-105).
THEOREM ProducedIsSent == Spec => []ProducedMeansSent
<1>1. CycleInv => ProducedMeansSent
  BY DEF CycleInv
<1> QED BY <1>1, CycleIsSafe, PTL

\* The producer never reads a file other than the one the state file describes
\* (downloader/app.py:92-112, producer/app.py:43-48).
THEOREM ProducerReads == Spec => []ProducerReadsThatVersion
<1>1. TypeOK /\ CycleInv => ProducerReadsThatVersion
  BY DEF CycleInv, LandingIsCurrent, StateIsHonest, ProducerReadsThatVersion
<1> QED BY <1>1, CycleIsSafe, PTL

-----------------------------------------------------------------------------
(* What is skipped, when versions can be told apart.                          *)

LEMMA DistinguishableStays == [Next]_vars => Distinguishable' = Distinguishable
BY HeadersStay DEF Distinguishable, LengthsDiffer

\* When HEAD leads to no download, the version it asked about is the one in the state.
LEMMA HeadSkips ==
    ASSUME Distinguishable, TypeOK, CycleInv, Head, pc' = "deciding"
    PROVE  /\ stateFile.status = "produced"
           /\ stateFile.checksum = provider
           /\ seen'.version = provider
<1> DEFINE e == IF "etag" \in headers THEN provider ELSE 0
           l == IF "length" \in headers THEN LengthOf[provider] ELSE 0
<1>0. /\ e \in {0, provider} /\ l \in {0, LengthOf[provider]}
      /\ "etag" \in headers => e = provider
      /\ l # 0 => "length" \in headers
  OBVIOUS
<1>1. /\ seen' = [etag |-> e, length |-> l, version |-> provider]
      /\ ~HasNewContent(e, l)
  BY DEF Head, Compare
<1> HIDE DEF e, l
<1>2. /\ stateFile.status = "produced"
      /\ \/ e # 0 /\ e = stateFile.etag
         \/ /\ e = 0 \/ stateFile.etag = 0
            /\ l # 0 /\ l = stateFile.length
  BY <1>1 DEF HasNewContent
<1>3. /\ provider \in Versions /\ stateFile.checksum \in Versions
      /\ stateFile.checksum <= provider
      /\ stateFile.etag <= stateFile.checksum
      /\ stateFile.length # 0 /\ "etag" \in headers => stateFile.etag # 0
  BY <1>2 DEF TypeOK, StateTypeOK, FileIngestionState, CycleInv, StateIsHonest,
              NothingFromTheFuture
<1>4. CASE e # 0 /\ e = stateFile.etag
  BY <1>0, <1>1, <1>2, <1>3, <1>4 DEF Versions
<1>5. CASE (e = 0 \/ stateFile.etag = 0) /\ l # 0 /\ l = stateFile.length
  <2>1. "etag" \notin headers
    BY <1>0, <1>3, <1>5 DEF Versions
  <2>2. headers = {"length"}
    BY <1>0, <1>5, <2>1 DEF TypeOK
  <2>3. LengthsDiffer
    BY <2>2 DEF Distinguishable
  <2>4. PICK v \in Versions : v <= stateFile.checksum /\ stateFile.length = LengthOf[v]
    BY <1>5 DEF CycleInv, StateIsHonest
  <2>5. v = provider
    BY <1>0, <1>3, <1>5, <2>3, <2>4 DEF LengthsDiffer
  <2> QED BY <1>1, <1>2, <1>3, <2>4, <2>5 DEF Versions
<1> QED BY <1>2, <1>4, <1>5

\* A cycle is skipped only for the version that was produced, unless the server sends
\* lengths alone and two are equal (downloader/app.py:76-83, state.py:75-101).
THEOREM SkipJustified == Spec => []SkipIsJustified
<1>1. Init => SkipIsJustified
  BY DEF Init, SkipIsJustified, Skips
<1>2. ASSUME TypeOK, CycleInv, SkipIsJustified, [Next]_vars PROVE SkipIsJustified'
  <2> USE <1>2, DistinguishableStays DEF SkipIsJustified, Skips, files, world
  <2>1. CASE Head
    BY <2>1, HeadSkips DEF Head
  <2>2. CASE HeadFails
    BY <2>2 DEF HeadFails, Compare, HasNewContent
  <2>3. CASE SaveState
    BY <2>3 DEF SaveState, SaveExtracted
  <2>4. CASE Mark \/ Crash \/ StartCycle \/ ProducerTaskFails
    BY <2>4 DEF Mark, Crash, StartCycle, ProducerTaskFails
  <2>5. CASE ~Head /\ ~HeadFails /\ ~SaveState
             /\ ~(Mark \/ Crash \/ StartCycle \/ ProducerTaskFails)
    BY <2>5 DEF Next, Progress, Failure, vars, request, Publish, HeadUnreadable,
       Download, Extract, Produce, NothingToProduce, NextRow, Deliver, LeaveLoop,
       FlushReturns, GetFails, ExtractFails, SendFails, DeliveryFails
  <2> QED BY <2>1, <2>2, <2>3, <2>4, <2>5
<1> QED BY <1>1, <1>2, CycleIsSafe, PTL DEF Spec

-----------------------------------------------------------------------------
(* The cycle implements Ingestion.                                            *)

LEMMA InitRefines == Init => Promise!Init
<1> SUFFICES ASSUME Init PROVE Promise!Init
  OBVIOUS
<1>1. \A v \in Versions : Arrived(v) = {}
  BY DEF Init, ProducerInit, Arrived
<1>2. Delivered = {}
  BY <1>1 DEF Delivered
<1>3. Produced = 0 /\ Skipping = 0
  BY DEF Init, NoState, Produced, Skipping, Skips
<1>4. Wanted \in SUBSET (Versions \X RowNumbers)
  BY DEF Wanted
<1> QED BY <1>2, <1>3, <1>4 DEF Init, ProducerInit, Promise!Init

\* The good rows of a version, as messages of the abstract specification.
LEMMA RowsOfVersion ==
    ASSUME TypeOK, NEW v \in Versions
    PROVE  Promise!RowsOf(v) = {v} \X GoodRows(v)
BY DEF Promise!RowsOf, Wanted, GoodRows

\* While the producer runs no version is recorded, and what it has in hand are good
\* rows of one that was published.
LEMMA WhileProducing ==
    ASSUME TypeOK, CycleInv, pc \in {"producing", "flushing"}
    PROVE  /\ Produced = 0 /\ Skipping = 0
           /\ landing \in Versions /\ landing <= provider
           /\ pending \subseteq GoodRows(landing)
           /\ \A m \in Delivered : m[1] <= landing
BY DEF CycleInv, NewestIsLast, OnTopicUpTo, Delivered, LandingIsCurrent, StateIsHonest,
       NothingFromTheFuture, OnlyGoodRowsAreSent, TypeOK, StateTypeOK, FileIngestionState,
       Produced, Skipping, Skips

\* What Appended adds to the topic are the rows it is given.
LEMMA AppendedDelivers ==
    ASSUME TypeOK, landing \in Versions, NEW rows, rows \subseteq RowNumbers,
           onTopic' = Appended(rows)
    PROVE  Delivered' = Delivered \union ({landing} \X rows)
<1> QED BY AppendedArrives DEF Delivered

\* A step that touches neither the topic nor the provider ends the decision to skip,
\* if there was one, and keeps the record or loses it.
LEMMA QuietRefines ==
    ASSUME UNCHANGED <<provider, content, onTopic, lost>>,
           Produced' \in {Produced, 0}, Skipping' = 0
    PROVE  Promise!EndSkip \/ Promise!Forget
<1>1. UNCHANGED <<Wanted, Delivered>>
  BY DEF Wanted, Delivered, GoodRows, Arrived
<1> QED BY <1>1 DEF Promise!EndSkip, Promise!Forget

\* Rows of the landed file that the client had in hand reach the topic.
LEMMA DeliverRefines ==
    ASSUME TypeOK, CycleInv, pc \in {"producing", "flushing"},
           NEW rows \in SUBSET pending, onTopic' = Appended(rows),
           UNCHANGED <<provider, content, lost, stateFile>>, pc' \in {pc, "waiting"}
    PROVE  Promise!Deliver
<1>1. /\ Produced = 0 /\ Skipping = 0 /\ landing \in Versions /\ landing <= provider
      /\ pending \subseteq GoodRows(landing)
      /\ \A m \in Delivered : m[1] <= landing
  BY WhileProducing
<1>2. Delivered' = Delivered \union ({landing} \X rows)
  BY <1>1, AppendedDelivers DEF GoodRows
<1>3. {landing} \X rows \in SUBSET Promise!RowsOf(landing)
  BY <1>1, RowsOfVersion
<1>4. Wanted' = Wanted
  BY DEF Wanted, GoodRows
<1>5. Produced' = 0 /\ Skipping' = 0
  BY <1>1 DEF Produced, Skipping, Skips
<1> QED BY <1>1, <1>2, <1>3, <1>4, <1>5 DEF Promise!Deliver

\* The scheduler marks a version whose rows have all been handled.
LEMMA MarkRefines == TypeOK /\ CycleInv /\ Mark => Promise!Complete
<1> SUFFICES ASSUME TypeOK, CycleInv, Mark PROVE Promise!Complete
  OBVIOUS
<1> DEFINE v == stateFile.checksum
<1>1. /\ stateFile.file = "written" /\ stateFile.status = "extracted"
      /\ v \in Versions /\ landing = v /\ v <= provider
  BY DEF Mark, CycleInv, LandingIsCurrent, StateIsHonest, NothingFromTheFuture, TypeOK,
         StateTypeOK, FileIngestionState
<1>2. stateFile' = [stateFile EXCEPT !.status = "produced"]
  BY <1>1 DEF Mark, MarkProduced
<1>3. stateFile'.checksum = v /\ stateFile'.status = "produced"
  BY <1>2 DEF TypeOK, StateTypeOK, FileIngestionState
<1>4. Produced = 0 /\ Skipping = 0 /\ Produced' = v /\ Skipping' = 0
  BY <1>1, <1>3 DEF Mark, Produced, Skipping, Skips
<1>5. GoodRows(v) \subseteq Arrived(v) \union Lost(v)
  BY <1>1 DEF Mark, CycleInv, RowsAreHandled
<1>6. {v} \X GoodRows(v) \subseteq Delivered \union lost
  BY <1>1, <1>5 DEF Delivered, GoodRows, Lost
<1>7. Promise!RowsOf(v) \subseteq Delivered \union lost
  BY <1>1, <1>6, RowsOfVersion
<1>8. UNCHANGED <<provider, lost, Wanted, Delivered>>
  BY DEF Mark, world, producerVars, Wanted, Delivered, GoodRows, Arrived
<1> QED BY <1>1, <1>4, <1>7, <1>8 DEF Promise!Complete

\* A crash: rows of the client may have got through, or the state file is torn.
LEMMA CrashRefines == TypeOK /\ CycleInv /\ Crash => [Promise!Next]_Promise!vars
<1> SUFFICES ASSUME TypeOK, CycleInv, Crash PROVE [Promise!Next]_Promise!vars
  OBVIOUS
<1>1. CASE pc \in {"producing", "flushing"}
  <2>1. /\ UNCHANGED <<provider, content, lost, stateFile>> /\ pc' = "waiting"
        /\ \E rows \in SUBSET pending : onTopic' = Appended(rows)
    BY <1>1 DEF Crash, KillProducer, world
  <2> QED BY <1>1, <2>1, DeliverRefines DEF Promise!Next
<1>2. CASE pc \notin {"producing", "flushing"}
  <2>1. UNCHANGED <<provider, content, onTopic, lost>> /\ pc' = "waiting"
    BY <1>2 DEF Crash, world, producerVars
  <2>2. stateFile' = stateFile \/ stateFile'.status = "none"
    BY TornState DEF Crash
  <2>3. Produced' \in {Produced, 0} /\ Skipping' = 0
    BY <2>1, <2>2 DEF Produced, Skipping, Skips
  <2> QED BY <2>1, <2>3, QuietRefines DEF Promise!Next
<1> QED BY <1>1, <1>2

\* The client gives up on a message it had in hand.
LEMMA LossRefines == TypeOK /\ CycleInv /\ DeliveryFails => Promise!Abandon
<1> SUFFICES ASSUME TypeOK, CycleInv, DeliveryFails PROVE Promise!Abandon
  OBVIOUS
<1>1. /\ pc \in {"producing", "flushing"}
      /\ UNCHANGED <<provider, content, onTopic, stateFile, pc>>
  BY DEF DeliveryFails, LoseRow, files, world
<1>2. /\ Produced = 0 /\ Skipping = 0 /\ landing \in Versions /\ landing <= provider
      /\ pending \subseteq GoodRows(landing)
  BY <1>1, WhileProducing
<1>3. PICK r \in pending : lost' = lost \union {<<landing, r>>}
  BY DEF DeliveryFails, LoseRow
<1>4. <<landing, r>> \in Wanted
  BY <1>2 DEF Wanted, GoodRows
<1>5. UNCHANGED <<Wanted, Delivered>>
  BY <1>1 DEF Wanted, Delivered, GoodRows, Arrived
<1>6. Produced' = Produced /\ Skipping' = Skipping
  BY <1>1, <1>2 DEF Produced, Skipping, Skips
<1> QED BY <1>1, <1>2, <1>3, <1>4, <1>5, <1>6 DEF Promise!Abandon

\* HEAD either leads to a download or is the decision to skip.
LEMMA HeadRefines ==
    ASSUME TypeOK, CycleInv, [Next]_vars, Head
    PROVE  Promise!Skip \/ Promise!EndSkip \/ Promise!Forget
<1>1. UNCHANGED <<provider, content, onTopic, lost, stateFile>>
  BY DEF Head, files, world, producerVars
<1>2. Produced' = Produced
  BY <1>1 DEF Produced
<1>3. CASE Distinguishable /\ pc' = "deciding"
  <2>0. Distinguishable'
    BY <1>3, DistinguishableStays
  <2>1. Produced = provider /\ Skipping' = provider
    BY <1>1, <1>3, <2>0, HeadSkips DEF Produced, Skipping, Skips
  <2>2. UNCHANGED <<Wanted, Delivered>>
    BY <1>1 DEF Wanted, Delivered, GoodRows, Arrived
  <2> QED BY <1>1, <1>2, <2>1, <2>2 DEF Promise!Skip
<1>4. CASE ~(Distinguishable /\ pc' = "deciding")
  <2>1. Skipping' = 0
    BY <1>4, DistinguishableStays DEF Skipping, Skips
  <2> QED BY <1>1, <1>2, <2>1, QuietRefines
<1> QED BY <1>3, <1>4

\* Every step of the cycle is a step of Ingestion, or none.
LEMMA StepRefines ==
    ASSUME TypeOK, CycleInv, [Next]_vars
    PROVE  [Promise!Next]_Promise!vars
<1> USE DEF Promise!Next
<1>1. CASE Publish
  <2>1. UNCHANGED <<content, onTopic, lost, stateFile, pc, seen>>
    BY <1>1 DEF Publish, files, producerVars, request
  <2>2. UNCHANGED <<Wanted, Delivered, Produced, Skipping>>
    BY <2>1, DistinguishableStays
       DEF Wanted, Delivered, GoodRows, Arrived, Produced, Skipping, Skips
  <2> QED BY <1>1, <2>1, <2>2 DEF Publish, Promise!Publish
<1>2. CASE Head
  BY <1>2, HeadRefines
<1>3. CASE SaveState
  <2>1. stateFile'.status = "extracted"
    BY <1>3 DEF SaveState, SaveExtracted
  <2>2. Produced' = 0 /\ Skipping' = 0
    BY <2>1 DEF Produced, Skipping, Skips
  <2>3. UNCHANGED <<provider, content, onTopic, lost>>
    BY <1>3 DEF SaveState, world, producerVars
  <2> QED BY <2>2, <2>3, QuietRefines
<1>4. CASE StartCycle \/ ProducerTaskFails
  <2>1. /\ UNCHANGED <<provider, content, onTopic, lost>>
        /\ pc' # "deciding" /\ DiskOfNextTask
    BY <1>4 DEF StartCycle, ProducerTaskFails, world, producerVars
  <2>2. Produced' \in {Produced, 0} /\ Skipping' = 0
    BY <2>1, NextDisk DEF Produced, Skipping, Skips
  <2> QED BY <2>1, <2>2, QuietRefines
<1>5. CASE Deliver
  <2>1. /\ pc \in {"producing", "flushing"}
        /\ UNCHANGED <<provider, content, lost, stateFile, pc>>
    BY <1>5 DEF Deliver, Acknowledge, files, world
  <2>2. PICK r \in pending : onTopic' = Appended({r})
    BY <1>5 DEF Deliver, Acknowledge
  <2>3. {r} \in SUBSET pending
    OBVIOUS
  <2> QED BY <2>1, <2>2, <2>3, DeliverRefines
<1>6. CASE DeliveryFails
  BY <1>6, LossRefines
<1>7. CASE Mark
  BY <1>7, MarkRefines
<1>8. CASE Crash
  BY <1>8, CrashRefines
<1>9. CASE UNCHANGED vars
  <2>1. UNCHANGED <<provider, content, onTopic, lost, stateFile, pc, seen>>
    BY <1>9 DEF vars, producerVars
  <2>2. UNCHANGED <<Wanted, Delivered, Produced, Skipping>>
    BY <2>1, DistinguishableStays
       DEF Wanted, Delivered, GoodRows, Arrived, Produced, Skipping, Skips
  <2> QED BY <2>1, <2>2 DEF Promise!vars
<1>10. CASE ~Publish /\ ~Head /\ ~SaveState /\ ~(StartCycle \/ ProducerTaskFails) /\ ~Deliver
            /\ ~DeliveryFails /\ ~Mark /\ ~Crash /\ ~UNCHANGED vars
  <2>1. /\ UNCHANGED <<provider, content, onTopic, lost, stateFile>>
        /\ pc' # "deciding"
    BY <1>10 DEF Next, Progress, Failure, files, world, producerVars, HeadFails, Compare,
       HasNewContent, HeadUnreadable, Download, Extract, Produce, NothingToProduce,
       NextRow, SendRow, SkipRow, HaltRow, LeaveLoop, FlushReturns, GetFails, ExtractFails,
       SendFails, SendRaises, OpenLanding
  <2>2. Produced' = Produced /\ Skipping' = 0
    BY <2>1 DEF Produced, Skipping, Skips
  <2> QED BY <2>1, <2>2, QuietRefines
<1> QED BY <1>1, <1>2, <1>3, <1>4, <1>5, <1>6, <1>7, <1>8, <1>9, <1>10

\* The daily cycle keeps the promise of Ingestion (ingestion/state.py:1-13, 75-101;
\* scheduler/app.py:81-105).
THEOREM CycleImplementsIngestion == Spec => ImplementsIngestion
<1>1. TypeOK /\ CycleInv /\ [Next]_vars => [Promise!Next]_Promise!vars
  BY StepRefines
<1> QED BY InitRefines, <1>1, CycleIsSafe, PTL DEF Spec, ImplementsIngestion, Promise!Spec

\* What Ingestion promises of a version that is recorded or skipped, it keeps.
LEMMA PromiseStep ==
    ASSUME provider \in Int, Produced \in Int, Skipping \in Int,
           Wanted \subseteq Versions \X RowNumbers,
           Promise!SettledIsHandled, [Promise!Next]_Promise!vars
    PROVE  Promise!SettledIsHandled'
<1> USE DEF Promise!SettledIsHandled, Promise!Handled, Promise!RowsOf
<1>0. \A m \in Wanted : m[1] \in Int
  BY DEF Versions
<1>1. CASE Promise!Publish
  <2>1. \A v \in Int : v <= provider => v <= provider'
    BY <1>1 DEF Promise!Publish
  <2> QED BY <1>0, <1>1, <2>1 DEF Promise!Publish
<1>2. CASE Promise!Deliver
  BY <1>2 DEF Promise!Deliver
<1>3. CASE Promise!Abandon
  BY <1>3 DEF Promise!Abandon
<1>4. CASE Promise!Complete
  BY <1>4 DEF Promise!Complete
<1>5. CASE Promise!Skip
  BY <1>5 DEF Promise!Skip
<1>6. CASE Promise!EndSkip
  BY <1>6 DEF Promise!EndSkip
<1>7. CASE Promise!Forget
  BY <1>7 DEF Promise!Forget
<1>8. CASE UNCHANGED Promise!vars
  BY <1>8 DEF Promise!vars
<1> QED BY <1>1, <1>2, <1>3, <1>4, <1>5, <1>6, <1>7, <1>8 DEF Promise!Next

\* Whatever is marked or skipped was handled row by row, however publications,
\* failures and crashes interleaved with the cycles (downloader/app.py:76-112).
THEOREM SettledVersionsAreHandled == Spec => []SettledIsHandled
<1>1. Promise!Init => Promise!SettledIsHandled
  BY DEF Promise!Init, Promise!SettledIsHandled
<1>2. TypeOK => /\ provider \in Int /\ Produced \in Int /\ Skipping \in Int
                /\ Wanted \subseteq Versions \X RowNumbers
  <2>1. \A n \in Versions \union {0} : n \in Int
    BY DEF Versions
  <2> QED BY <2>1 DEF TypeOK, StateTypeOK, FileIngestionState, Produced, Skipping, Skips, Wanted
<1>3. /\ TypeOK /\ CycleInv /\ Promise!SettledIsHandled /\ [Next]_vars
      => Promise!SettledIsHandled'
  BY <1>2, StepRefines, PromiseStep
<1> QED BY InitRefines, <1>1, <1>3, CycleIsSafe, PTL DEF Spec, SettledIsHandled

=============================================================================
