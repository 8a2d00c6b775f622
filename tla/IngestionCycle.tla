--------------------------- MODULE IngestionCycle ---------------------------
(***************************************************************************)
(* The daily ingestion cycle: downloader (services/downloader/app.py) and   *)
(* producer run in turn around the state file, by the scheduler service     *)
(* (services/scheduler/app.py) in the compose file or by Step Functions     *)
(* (infra/modules/scheduler/main.tf) in the cloud, while the provider may   *)
(* publish a new version of its file at any time.                           *)
(***************************************************************************)
EXTENDS SalesProducer, RetryPolicy

CONSTANT
    MaxFaults       \* bound: failures of the environment in a behaviour

ASSUME CycleAssumption == MaxFaults \in Nat

VARIABLES
    provider,       \* version the provider serves
    headers,        \* headers its server sends, the same for every version
    platform,       \* where the cycle runs: "compose" or "cloud"
    pc,             \* where the cycle is
    seen,           \* the downloader's HEAD: etag, length; history: the version
    attempt,        \* attempt of the GET
    archive,        \* version of dataset.zip, 0 if there is none or half of one
    faults          \* history: failures of the environment so far

vars == <<stateFile, content, landing, producerVars, provider, headers, platform, pc,
          seen, attempt, archive, faults>>

\* What a step of the cycle that is not the producer's leaves alone.
files == <<stateFile, archive, landing>>
world == <<content, provider, headers, platform>>
request == <<seen, attempt>>

Nothing == [etag |-> 0, length |-> 0, version |-> 0]

TypeOK ==
    /\ StateTypeOK
    /\ ProducerTypeOK
    /\ provider \in Versions
    /\ headers \subseteq {"etag", "length"}
    /\ platform \in {"compose", "cloud"}
    /\ pc \in {"waiting", "head", "download", "extract", "saving", "deciding",
               "producing", "flushing", "marking"}
    /\ seen \in [etag : Versions \union {0}, length : Nat, version : Versions \union {0}]
    /\ attempt \in 1 .. Attempts["network"]
    /\ archive \in Versions \union {0}
    /\ faults \in 0 .. MaxFaults

Init ==
    /\ stateFile = NoState
    /\ ProducerInit
    /\ provider = 1
    /\ headers \in SUBSET {"etag", "length"}
    /\ platform \in {"compose", "cloud"}
    /\ pc = "waiting"
    /\ seen = Nothing
    /\ attempt = 1
    /\ archive = 0
    /\ faults = 0

Fault ==
    /\ faults < MaxFaults
    /\ faults' = faults + 1

-----------------------------------------------------------------------------

\* The provider replaces its file.
Publish ==
    /\ provider < MaxVersion
    /\ provider' = provider + 1
    /\ UNCHANGED <<files, content, producerVars, headers, platform, pc, request, faults>>

\* In the compose file the services share a volume.  A task of the cloud has a disk
\* of its own, and the s3:// paths are directories of it for os.makedirs and open.
DiskOfNextTask ==
    IF platform = "compose"
      THEN UNCHANGED files
      ELSE stateFile' = NoState /\ archive' = 0 /\ landing' = 0

\* The clock strikes: run_ingestion_cycle, or the state machine's Downloader state.
StartCycle ==
    /\ pc = "waiting"
    /\ pc' = "head"
    /\ DiskOfNextTask
    /\ UNCHANGED <<world, producerVars, request, faults>>

-----------------------------------------------------------------------------
(* The downloader. *)

\* has_new_content() on what HEAD answered: download, or exit 0.
Compare(etag, length) ==
    /\ seen' = [etag |-> etag, length |-> length, version |-> provider]
    /\ pc' = IF HasNewContent(etag, length) THEN "download" ELSE "deciding"

Head ==
    /\ pc = "head"
    /\ ~Unreadable
    /\ Compare(IF "etag" \in headers THEN provider ELSE 0,
               IF "length" \in headers THEN LengthOf[provider] ELSE 0)
    /\ UNCHANGED <<files, world, producerVars, attempt, faults>>

\* HEAD failed: "will proceed with download", on no headers at all.
HeadFails ==
    /\ pc = "head"
    /\ ~Unreadable
    /\ Fault
    /\ Compare(0, 0)
    /\ UNCHANGED <<files, world, producerVars, attempt>>

\* load() raises on a torn state file: the downloader exits 1, the cycle ends.
HeadUnreadable ==
    /\ pc = "head"
    /\ Unreadable
    /\ pc' = "waiting"
    /\ UNCHANGED <<files, world, producerVars, request, faults>>

\* GET: whatever the provider serves now replaces the archive.
Download ==
    /\ pc = "download"
    /\ archive' = provider
    /\ attempt' = 1
    /\ pc' = "extract"
    /\ UNCHANGED <<stateFile, landing, world, producerVars, seen, faults>>

\* An attempt of the GET fails, before or while it writes the archive, with the
\* DownloadError that requests' exceptions become or an OSError of the disk.  The
\* policy decides whether there is another attempt; an outage lasts for as many as
\* it likes.
GetFails ==
    /\ pc = "download"
    /\ IF attempt = 1 THEN Fault ELSE UNCHANGED faults
    /\ archive' \in {archive, 0}
    /\ \E e \in {"DownloadError", "OSError"} :
          IF IsRetried("network", e) /\ attempt < Attempts["network"]
            THEN attempt' = attempt + 1 /\ UNCHANGED pc
            ELSE attempt' = 1 /\ pc' = "waiting"
    /\ UNCHANGED <<stateFile, landing, world, producerVars, seen>>

Extract ==
    /\ pc = "extract"
    /\ landing' = archive
    /\ pc' = "saving"
    /\ UNCHANGED <<stateFile, archive, world, producerVars, request, faults>>

\* Mutant of SaveState: the headers saved are those of a second HEAD.
SaveLatestHeaders ==
    /\ pc = "saving"
    /\ SaveExtracted(IF "etag" \in headers THEN provider ELSE 0,
                     IF "length" \in headers THEN LengthOf[provider] ELSE 0, archive)
    /\ pc' = "deciding"
    /\ UNCHANGED <<archive, landing, world, producerVars, request, faults>>

\* The state is saved with the headers of HEAD and the checksum of GET.
SaveState ==
    /\ pc = "saving"
    /\ SaveExtracted(seen.etag, seen.length, archive)
    /\ pc' = "deciding"
    /\ UNCHANGED <<archive, landing, world, producerVars, request, faults>>

\* Mutant of ExtractFails: an ExtractionError is logged and run() goes on.
ExtractionIgnored ==
    /\ pc = "extract"
    /\ Fault
    /\ landing' \in {landing, 0}
    /\ pc' = "saving"
    /\ UNCHANGED <<stateFile, archive, world, producerVars, request>>

\* ExtractionError: the landed file is half-written, or was not touched yet.
ExtractFails ==
    /\ pc = "extract"
    /\ Fault
    /\ landing' \in {landing, 0}
    /\ pc' = "waiting"
    /\ UNCHANGED <<stateFile, archive, world, producerVars, request>>

-----------------------------------------------------------------------------
(* Once the downloader has exited 0. *)

\* Mutant of Produce: the file is marked before it is produced.
ProduceAlreadyMarked ==
    /\ pc = "deciding"
    /\ stateFile.status = "extracted"
    /\ MarkProduced
    /\ OpenLanding
    /\ pc' = "producing"
    /\ UNCHANGED <<archive, landing, world, request, faults>>

Produce ==
    /\ pc = "deciding"
    /\ platform = "compose"
    /\ stateFile.status = "extracted"
    /\ OpenLanding
    /\ pc' = "producing"
    /\ UNCHANGED <<files, world, request, faults>>

NothingToProduce ==
    /\ pc = "deciding"
    /\ platform = "compose"
    /\ stateFile.status # "extracted"
    /\ pc' = "waiting"
    /\ UNCHANGED <<files, world, producerVars, request, faults>>

\* Step Functions runs the producer task, whatever was landed: open() finds no
\* file on its disk, and the execution ends in IngestionFailed.
ProducerTaskFails ==
    /\ pc = "deciding"
    /\ platform = "cloud"
    /\ DiskOfNextTask
    /\ pc' = "waiting"
    /\ UNCHANGED <<world, producerVars, request, faults>>

\* One turn of the producer's loop.
NextRow ==
    /\ pc = "producing"
    /\ ~failed
    /\ SendRow \/ SkipRow \/ HaltRow
    /\ UNCHANGED <<files, world, pc, request, faults>>

SendFails ==
    /\ pc = "producing"
    /\ ~failed
    /\ Fault
    /\ SendRaises
    /\ UNCHANGED <<files, world, pc, request>>

\* The client's background thread.
Deliver ==
    /\ pc \in {"producing", "flushing"}
    /\ Acknowledge
    /\ UNCHANGED <<files, world, pc, request, faults>>

DeliveryFails ==
    /\ pc \in {"producing", "flushing"}
    /\ Fault
    /\ LoseRow
    /\ UNCHANGED <<files, world, pc, request>>

\* Mutant of LeaveLoop: the last row of the file is not read.
LeaveLoopEarly ==
    /\ pc = "producing"
    /\ failed \/ row >= Rows
    /\ pc' = "flushing"
    /\ UNCHANGED <<files, world, producerVars, request, faults>>

\* Mutant of LeaveLoop: __exit__ does not flush, the process ends with what is pending.
LeaveLoopUnflushed ==
    /\ pc = "producing"
    /\ failed \/ row > Rows
    /\ pc' = IF failed THEN "waiting" ELSE "marking"
    /\ UNCHANGED <<files, world, producerVars, request, faults>>

\* The end of the loop, or an exception: __exit__ flushes.
LeaveLoop ==
    /\ pc = "producing"
    /\ failed \/ row > Rows
    /\ pc' = "flushing"
    /\ UNCHANGED <<files, world, producerVars, request, faults>>

\* Mutant of FlushReturns: the exit code of the producer is ignored.
FlushReturnsUnchecked ==
    /\ pc = "flushing"
    /\ pending = {}
    /\ pc' = "marking"
    /\ UNCHANGED <<files, world, producerVars, request, faults>>

\* flush() returns when nothing is pending, delivered or not; the exit code says
\* whether an exception left the loop.
FlushReturns ==
    /\ pc = "flushing"
    /\ pending = {}
    /\ pc' = IF failed THEN "waiting" ELSE "marking"
    /\ UNCHANGED <<files, world, producerVars, request, faults>>

Mark ==
    /\ pc = "marking"
    /\ MarkProduced
    /\ pc' = "waiting"
    /\ UNCHANGED <<archive, landing, world, producerVars, request, faults>>

\* The container is killed, with the service it was running.
Crash ==
    /\ pc # "waiting"
    /\ Fault
    /\ IF pc \in {"saving", "marking"}
         THEN TearStateFile \/ UNCHANGED stateFile
         ELSE UNCHANGED stateFile
    /\ archive' \in IF pc = "download" THEN {archive, 0} ELSE {archive}
    /\ landing' \in IF pc = "extract" THEN {landing, 0} ELSE {landing}
    /\ IF pc \in {"producing", "flushing"} THEN KillProducer ELSE UNCHANGED producerVars
    /\ attempt' = 1
    /\ pc' = "waiting"
    /\ UNCHANGED <<world, seen>>

-----------------------------------------------------------------------------

\* The progress of the services themselves.
Progress ==
    \/ StartCycle
    \/ Head \/ HeadUnreadable \/ Download \/ Extract \/ SaveState
    \/ Produce \/ NothingToProduce \/ ProducerTaskFails
    \/ NextRow \/ Deliver \/ LeaveLoop \/ FlushReturns \/ Mark

Failure == HeadFails \/ GetFails \/ ExtractFails \/ SendFails \/ DeliveryFails \/ Crash

Next == Publish \/ Progress \/ Failure

Spec == Init /\ [][Next]_vars

\* A cycle starts again and again (the cron matches every day) and runs to its
\* end; the client delivers or gives up on what it was given.
FairSpec == Spec /\ WF_vars(Progress)

-----------------------------------------------------------------------------
(* Properties. *)

Arrived(v) == {r \in RowNumbers : onTopic[v][r] > 0}
Lost(v) == {r \in RowNumbers : <<v, r>> \in lost}

\* A version is marked as produced only when the producer got through its whole
\* file: every good row has been delivered or given up on by the client.
ProducedMeansSent ==
    stateFile.status = "produced" =>
        GoodRows(stateFile.checksum) \subseteq Arrived(stateFile.checksum) \union Lost(stateFile.checksum)

\* "produced" means "producer sent all records to Kafka" (ingestion/state.py:11),
\* with acks="all" for "the strongest durability guarantee" (kafka/producer.py:25).
ProducedMeansDelivered ==
    stateFile.status = "produced" =>
        GoodRows(stateFile.checksum) \subseteq Arrived(stateFile.checksum)

LengthsDiffer == \A v, w \in Versions : LengthOf[v] = LengthOf[w] => v = w

\* Versions look different, unless the server sends nothing but their lengths, the
\* "weak signal" of ingestion/state.py:87, and two lengths are equal.
Distinguishable == headers = {"length"} => LengthsDiffer

\* The decision to skip, taken by a downloader that can tell versions apart.
Skips == Distinguishable /\ pc = "deciding" /\ stateFile.status = "produced"

\* The downloader skips a cycle only when the version it asked about is the one
\* that was downloaded, produced and marked, however HEAD, GET, new versions and
\* failures interleaved before.
SkipIsJustified == Skips => stateFile.checksum = seen.version

\* What the producer reads is the version the state file speaks of.
ProducerReadsThatVersion ==
    pc \in {"producing", "flushing", "marking"} =>
        landing = stateFile.checksum /\ landing # 0

\* A re-ingested file is harmless, "false positives are absorbed by the silver
\* dedup layer" (ingestion/state.py:88-89): no row is on the topic under two
\* offsets, which is what silver's key is made of.
RowsArriveOnce == \A v \in Versions, r \in RowNumbers : onTopic[v][r] < 2

\* The version the provider ends up with is on the topic in the end, row by row,
\* unless the state file is torn, a row halts the producer, or the client loses a
\* message.
ReachesTopic ==
    [](~Unreadable) =>
        \A v \in Versions :
            <>[](provider = v /\ \A r \in RowNumbers : content[v][r] # "halting")
                => <>[](GoodRows(v) \subseteq Arrived(v) \union Lost(v))

\* Under the scheduler service, every version reaches the topic through failed
\* HEADs, exhausted or refused retries, torn archives, failed producers and crashes.
EventuallyArrives == platform = "compose" /\ Distinguishable => ReachesTopic

\* Under Step Functions too: "downloader (fetch -> archive/ -> landing/)", then
\* "producer (landing/ -> Kafka topic)" (infra/modules/scheduler/main.tf:7-8).
CloudVersionsArrive == platform = "cloud" => ReachesTopic

\* The state of the abstract specification, as the cycle holds it.
Wanted == {m \in Versions \X RowNumbers : m[2] \in GoodRows(m[1])}
Delivered == {m \in Versions \X RowNumbers : m[2] \in Arrived(m[1])}
Produced == IF stateFile.status = "produced" THEN stateFile.checksum ELSE 0
Skipping == IF Skips THEN seen.version ELSE 0

Promise == INSTANCE Ingestion WITH
    published <- provider, wanted <- Wanted, delivered <- Delivered, abandoned <- lost,
    produced <- Produced, skipping <- Skipping

\* The cycle is an implementation of Ingestion: through interrupted cycles, failures
\* and versions published meanwhile, only good rows of published versions reach the
\* topic, none after a row of a later version; a version is recorded after all of its
\* rows, nothing is sent while one is recorded, and a cycle is skipped for the version
\* served at that moment alone.
ImplementsIngestion == Promise!Spec

\* A version is marked or skipped only when none of its good rows is missing, even
\* when it was published between the HEAD and the GET of the cycle before; and rows
\* that are no good, or of no published version, never get anywhere.
SettledIsHandled == Promise!SettledIsHandled

-----------------------------------------------------------------------------
(* The inductive invariant behind ProducedMeansSent, SkipIsJustified and      *)
(* ImplementsIngestion.                                                       *)

\* Nothing is newer than what the provider serves; the headers in hand are those
\* of one version, and what was downloaded since is not older.
NothingFromTheFuture ==
    /\ archive <= provider
    /\ seen.version <= provider
    /\ stateFile.checksum <= provider
    /\ seen.etag \in {0, seen.version}
    /\ seen.length # 0 => seen.version # 0 /\ seen.length = LengthOf[seen.version]
    /\ seen.length # 0 /\ "etag" \in headers => seen.etag # 0
    /\ pc \in {"extract", "saving"} => archive # 0 /\ seen.version <= archive

\* The headers in the state file are those of the version in it or of an older one,
\* and the length is not alone when the server sends ETags.
StateIsHonest ==
    /\ stateFile.status # "none" => stateFile.file = "written" /\ stateFile.checksum # 0
    /\ stateFile.etag <= stateFile.checksum
    /\ stateFile.length # 0 =>
        \E v \in Versions : v <= stateFile.checksum /\ stateFile.length = LengthOf[v]
    /\ stateFile.length # 0 /\ "etag" \in headers => stateFile.etag # 0

\* The landed file is the one the state is about, when that matters.
LandingIsCurrent ==
    /\ pc = "saving" => landing = archive
    /\ pc = "deciding" /\ stateFile.status = "extracted" => landing = stateFile.checksum
    /\ pc \in {"producing", "flushing", "marking"} =>
        landing = stateFile.checksum /\ stateFile.status = "extracted"

\* The good rows the loop is past are with the client, the broker, or lost.
RowsAreHandled ==
    /\ pc \in {"producing", "flushing"} =>
        \A r \in GoodRows(landing) :
            r < row => r \in pending \union Arrived(landing) \union Lost(landing)
    /\ pc = "flushing" /\ ~failed => row > Rows
    /\ pc = "marking" => GoodRows(landing) \subseteq Arrived(landing) \union Lost(landing)

\* What the client holds are good rows of the landed file.
OnlyGoodRowsAreSent ==
    pc \in {"producing", "flushing"} => pending \subseteq GoodRows(landing)

\* Nothing on the topic is of a later version than what comes next.
OnTopicUpTo(n) == \A v \in Versions : Arrived(v) # {} => v <= n

NewestIsLast ==
    /\ OnTopicUpTo(provider)
    /\ pc \in {"extract", "saving"} => OnTopicUpTo(archive)
    /\ pc \in {"deciding", "producing", "flushing"} /\ stateFile.status = "extracted" =>
        OnTopicUpTo(stateFile.checksum)

CycleInv ==
    /\ NothingFromTheFuture
    /\ StateIsHonest
    /\ LandingIsCurrent
    /\ RowsAreHandled
    /\ OnlyGoodRowsAreSent
    /\ NewestIsLast
    /\ ProducedMeansSent

=============================================================================
