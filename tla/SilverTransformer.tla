-------------------------- MODULE SilverTransformer --------------------------
(***************************************************************************)
(* The transformer_silver service (services/transformer_silver/app.py) with *)
(* the bronze readers and the silver writers it uses: one pass over bronze, *)
(* each row merged into silver unless its key is known, then the process    *)
(* ends and its container restarts it.  A silver record is named by its     *)
(* source_kafka_offset, the message; its figures are those of the row, see  *)
(* SilverTransform.  Meanwhile the consumer writes bronze and, in the       *)
(* cloud, another transformer task (a rolling deployment, ADR-005 scaling)  *)
(* writes silver.                                                           *)
(***************************************************************************)
EXTENDS BronzeTable, RetryPolicy, SilverTransform

CONSTANTS
    FLUSH_EVERY,    \* rows, written or skipped, between two flushes
    Amounts,        \* Amounts[m]: the amounts of the sale in message m
    MaxChanges,     \* bound: changes by other processes in a behaviour
    MaxFaults       \* bound: failures of the environment in a behaviour

ASSUME TransformerAssumption ==
    /\ FLUSH_EVERY \in Nat \ {0}
    /\ Amounts \in [Messages -> [AmountColumns -> Int]]
    /\ MaxChanges \in Nat
    /\ MaxFaults \in Nat

VARIABLES
    silverFiles,    \* local: state of order_{id}_{key}.json, by key
    silverTable,    \* cloud: snapshots of the Iceberg silver table
    pc,             \* where the process is in run()
    unread,         \* bronze objects listed or scanned and not yet read
    todo,           \* rows of the current object not yet merged
    tail,           \* how the current object ends
    seen,           \* keys known to the writer (_seen)
    known,          \* snapshots of silver that its table object knows (_table)
    buffer,         \* records merged and not written (_buffer)
    writing,        \* the record whose file is open, or <<>>
    total,          \* written + skipped
    last,           \* the flush at the end of run()
    changes,        \* history: changes by other processes so far
    faults,         \* history: failures of the environment so far
    blind,          \* history: some pass started without all the keys of silver
    stable          \* history: objects of this pass that did not change since

silverVars == <<silverFiles, silverTable>>
readerVars == <<unread, todo, tail>>
writerVars == <<seen, known, buffer, writing>>
loopVars == <<total, last>>
memory == <<readerVars, writerVars, loopVars>>
history == <<changes, faults, blind, stable>>
vars == <<storageVars, silverVars, pc, memory, history>>

\* Rows with a figure that the decimal columns of silver do not take.
Oversized == {m \in Messages : ~FitsColumns(Amounts[m])}

\* Objects of bronze: file names locally, snapshot numbers in the cloud.
RowsOf(n) == IF mode = "local" THEN files[n].rows ELSE snapshots[n]
TailOf(n) == IF mode = "local" THEN files[n].tail ELSE "whole"
Objects == IF mode = "local" THEN Messages ELSE 1 .. Len(snapshots)

\* The records a reader of silver finds.
Silver == {m \in Messages : silverFiles[m] = "whole"}
          \union UNION {silverTable[i] : i \in 1 .. Len(silverTable)}

TypeOK ==
    /\ StorageTypeOK
    /\ silverFiles \in [Messages -> {"absent", "torn", "whole"}]
    /\ silverTable \in Seq(SUBSET Messages)
    /\ pc \in {"stopped", "starting", "listing", "reading", "flushing", "done", "failed"}
    /\ unread \subseteq Objects
    /\ todo \subseteq Messages
    /\ tail \in {"whole", "torn"}
    /\ seen \subseteq Messages
    /\ known \in 0 .. Len(silverTable)
    /\ buffer \subseteq seen
    /\ writing \in buffer \union {<<>>}
    /\ total \in Nat
    /\ last \in BOOLEAN
    /\ changes \in 0 .. MaxChanges
    /\ faults \in 0 .. MaxFaults
    /\ blind \in BOOLEAN
    /\ stable \subseteq Objects

Init ==
    /\ StorageInit
    /\ silverFiles = [m \in Messages |-> "absent"]
    /\ silverTable = <<>>
    /\ pc = "stopped"
    /\ unread = {} /\ todo = {} /\ tail = "whole"
    /\ seen = {} /\ known = 0 /\ buffer = {} /\ writing = <<>>
    /\ total = 0 /\ last = FALSE
    /\ changes = 0 /\ faults = 0 /\ blind = FALSE /\ stable = {}

Fault ==
    /\ faults < MaxFaults
    /\ faults' = faults + 1

\* The process ends, with its memory.
Exit(how) ==
    /\ pc' = how
    /\ unread' = {} /\ todo' = {} /\ tail' = "whole"
    /\ seen' = {} /\ known' = 0 /\ buffer' = {} /\ writing' = <<>>
    /\ total' = 0 /\ last' = FALSE

-----------------------------------------------------------------------------
(* The other processes. *)

Change ==
    /\ changes < MaxChanges
    /\ changes' = changes + 1
    /\ UNCHANGED <<mode, silverFiles, pc, memory, faults, blind>>

\* The consumer creates, truncates, extends or completes one batch file; or it
\* adds one more snapshot to the table.
BronzeChanges ==
    /\ Change
    /\ \/ /\ mode = "local"
          /\ \E n \in Messages, content \in FileContent :
                /\ files' = [files EXCEPT ![n] = content]
                /\ stable' = stable \ {n}
          /\ UNCHANGED snapshots
       \/ /\ mode = "cloud"
          /\ \E rows \in (SUBSET Messages) \ {{}} : snapshots' = Append(snapshots, rows)
          /\ UNCHANGED <<files, stable>>
    /\ UNCHANGED silverTable

\* Another transformer that knows the keys of silver commits a flush of its own.
PeerAppends ==
    /\ mode = "cloud"
    /\ Change
    /\ \E rows \in SUBSET (Stored \ (Silver \union Oversized)) :
        /\ rows # {}
        /\ silverTable' = Append(silverTable, rows)
    /\ UNCHANGED <<files, snapshots, stable>>

-----------------------------------------------------------------------------
(* Start of a pass. *)

\* The reader is built first: in the cloud, its table is as of now.
Start ==
    /\ pc \in {"stopped", "done", "failed"}
    /\ pc' = "starting"
    /\ unread' = IF mode = "cloud" THEN Objects ELSE {}
    /\ stable' = unread'
    /\ UNCHANGED <<storageVars, silverVars, todo, tail, writerVars, loopVars,
                   changes, faults, blind>>

\* Mutant of LoadKeys: a record whose file exists counts even when it is half-written.
LoadKeysOfTornFiles ==
    /\ pc = "starting"
    /\ pc' = "listing"
    /\ seen' = Silver \union {m \in Messages : silverFiles[m] = "torn"}
    /\ known' = Len(silverTable)
    /\ UNCHANGED <<storageVars, silverVars, readerVars, buffer, writing, loopVars, history>>

\* The table is loaded; _load_existing_keys() reads the intact local records, or
\* the key column of the table as loaded.
LoadKeys ==
    /\ pc = "starting"
    /\ pc' = "listing"
    /\ seen' = Silver
    /\ known' = Len(silverTable)
    /\ UNCHANGED <<storageVars, silverVars, readerVars, buffer, writing, loopVars, history>>

\* The scan of the silver table raises: a warning, and an empty set of keys.  Locally
\* an OSError passes over the record files it hits, without a warning.
LoadKeysFails ==
    /\ pc = "starting"
    /\ Fault
    /\ pc' = "listing"
    /\ \E keys \in SUBSET Silver :
        /\ mode = "cloud" => keys = {}
        /\ seen' = keys
    /\ known' = Len(silverTable)
    /\ blind' = TRUE
    /\ UNCHANGED <<storageVars, silverVars, readerVars, buffer, writing, loopVars,
                   changes, stable>>

\* sorted(os.listdir()): at least the files that have something in them.
ListFiles ==
    /\ mode = "local"
    /\ pc = "listing"
    /\ pc' = "reading"
    /\ \E names \in SUBSET Messages :
        /\ {n \in Messages : files[n] # NoContent} \subseteq names
        /\ unread' = names
        /\ stable' = names
    /\ UNCHANGED <<storageVars, silverVars, todo, tail, writerVars, loopVars,
                   changes, faults, blind>>

\* scan().to_arrow() of the table the reader was built with.
ScanTable ==
    /\ mode = "cloud"
    /\ pc = "listing"
    /\ pc' = "reading"
    /\ UNCHANGED <<storageVars, silverVars, memory, history>>

-----------------------------------------------------------------------------
(* The loop over the rows of bronze. *)

Reading == pc = "reading" /\ todo = {}

\* The next file in the order of the listing; snapshots come in any order.
OpenObject ==
    /\ Reading
    /\ tail = "whole"
    /\ \E n \in unread :
        /\ mode = "local" => \A k \in unread : NotAfter(n, k)
        /\ unread' = unread \ {n}
        /\ todo' = RowsOf(n)
        /\ tail' = TailOf(n)
    /\ UNCHANGED <<storageVars, silverVars, pc, writerVars, loopVars, history>>

\* Mutant of Merge: the key of a buffered record is not remembered.
MergeForgets(m) ==
    /\ buffer' = IF m \in seen THEN buffer ELSE buffer \union {m}
    /\ UNCHANGED <<seen, known, writing>>

\* merge(): a known key is skipped, a new one buffered.
Merge(m) ==
    /\ seen' = seen \union {m}
    /\ buffer' = IF m \in seen THEN buffer ELSE buffer \union {m}
    /\ UNCHANGED <<known, writing>>

\* transform, merge, and a flush at every FLUSH_EVERY-th row, written or skipped.
MergeRow ==
    /\ pc = "reading"
    /\ \E m \in todo :
        /\ \A k \in todo : NotAfter(m, k)
        /\ todo' = todo \ {m}
        /\ Merge(m)
    /\ total' = total + 1
    /\ pc' = IF total' % FLUSH_EVERY = 0 THEN "flushing" ELSE "reading"
    /\ UNCHANGED <<storageVars, silverVars, unread, tail, last, history>>

\* json.loads of half a line raises; run() has no handler for it.
TornLine ==
    /\ Reading
    /\ tail = "torn"
    /\ Exit("failed")
    /\ UNCHANGED <<storageVars, silverVars, history>>

EndOfBronze ==
    /\ Reading
    /\ tail = "whole"
    /\ unread = {}
    /\ pc' = "flushing"
    /\ last' = TRUE
    /\ UNCHANGED <<storageVars, silverVars, readerVars, writerVars, total, history>>

-----------------------------------------------------------------------------
(* writer.flush() *)

\* flush() returned: the loop continues, or run() ends.
FlushReturns ==
    /\ pc = "flushing"
    /\ buffer = {}
    /\ IF last
         THEN Exit("done")
         ELSE pc' = "reading" /\ UNCHANGED memory
    /\ UNCHANGED <<storageVars, silverVars, history>>

\* open(..., "w") of a record's file.
OpenSilverFile ==
    /\ mode = "local"
    /\ pc = "flushing"
    /\ writing = <<>>
    /\ \E m \in buffer :
        /\ silverFiles' = [silverFiles EXCEPT ![m] = "torn"]
        /\ writing' = m
    /\ UNCHANGED <<storageVars, silverTable, pc, readerVars, seen, known, buffer, loopVars,
                   history>>

\* The record is in its file; the next one follows.
CloseSilverFile ==
    /\ pc = "flushing"
    /\ writing # <<>>
    /\ silverFiles' = [silverFiles EXCEPT ![writing] = "whole"]
    /\ buffer' = buffer \ {writing}
    /\ writing' = <<>>
    /\ UNCHANGED <<storageVars, silverTable, pc, readerVars, seen, known, loopVars, history>>

\* flush() gets as far as Table.append().
Appending ==
    /\ mode = "cloud"
    /\ pc = "flushing"
    /\ buffer # {}
    /\ buffer \intersect Oversized = {}

\* Mutant of Commit: the append is retried on the snapshot that is current now.
CommitOnCurrent ==
    /\ silverTable' = Append(silverTable, buffer)
    /\ known' = Len(silverTable')

\* The catalog accepts a commit on the snapshot the table object knows, which must
\* still be the current one.
Commit ==
    /\ known = Len(silverTable)
    /\ silverTable' = Append(silverTable, buffer)
    /\ known' = known + 1

\* Table.append(): the buffer becomes one snapshot.
AppendSilver ==
    /\ Appending
    /\ Commit
    /\ buffer' = {}
    /\ UNCHANGED <<storageVars, silverFiles, pc, readerVars, seen, writing, loopVars, history>>

\* The conversion to the decimal columns overflows, outside the try block.
Overflow ==
    /\ mode = "cloud"
    /\ pc = "flushing"
    /\ buffer \intersect Oversized # {}
    /\ Exit("failed")
    /\ UNCHANGED <<storageVars, silverVars, history>>

\* IcebergWriteError: the buffer is emptied, so the flush() of the handler, or of
\* a retry, has nothing to write.
WriteError ==
    IF IsRetried("storage", "IcebergWriteError")
      THEN /\ buffer' = {} /\ writing' = <<>>
           /\ UNCHANGED <<pc, readerVars, seen, known, loopVars>>
      ELSE Exit("failed")

\* CommitFailedException: another commit came first.
AppendConflicts ==
    /\ Appending
    /\ known # Len(silverTable)
    /\ WriteError
    /\ UNCHANGED <<storageVars, silverVars, history>>

\* An OSError, or an append that raises; it may have been committed all the same.
FlushFails ==
    /\ pc = "flushing"
    /\ buffer # {}
    /\ Fault
    /\ WriteError
    /\ \/ UNCHANGED silverTable
       \/ Appending /\ known = Len(silverTable) /\ silverTable' = Append(silverTable, buffer)
    /\ UNCHANGED <<storageVars, silverFiles, changes, blind, stable>>

\* The process is killed.
Crash ==
    /\ pc \in {"starting", "listing", "reading", "flushing"}
    /\ Fault
    /\ Exit("failed")
    /\ UNCHANGED <<storageVars, silverVars, changes, blind, stable>>

-----------------------------------------------------------------------------

\* The progress of the process itself.
Progress ==
    \/ Start \/ LoadKeys \/ ListFiles \/ ScanTable
    \/ OpenObject \/ MergeRow \/ TornLine \/ EndOfBronze
    \/ FlushReturns \/ OpenSilverFile \/ CloseSilverFile
    \/ AppendSilver \/ AppendConflicts \/ Overflow

Failure == LoadKeysFails \/ FlushFails \/ Crash

Next == BronzeChanges \/ PeerAppends \/ Progress \/ Failure

Spec == Init /\ [][Next]_vars

\* The process runs whenever it can and its container always restarts it
\* (restart: unless-stopped).  Nothing obliges other processes or the failures.
FairSpec == Spec /\ WF_vars(Progress)

-----------------------------------------------------------------------------
(* Properties. *)

\* In how many snapshots of the silver table a record is.
SilverCopies(m) == Cardinality({i \in 1 .. Len(silverTable) : m \in silverTable[i]})

\* How many records of silver are made from a message.
RecordsOf(m) ==
    IF mode = "cloud" THEN SilverCopies(m)
    ELSE IF silverFiles[m] = "whole" THEN 1 ELSE 0

\* "No duplicate records appear in silver even if the consumer replays
\* messages" (ADR-004:30), as long as every pass knows the keys of silver.
DeduplicatedWhenKeysAreKnown == ~blind => \A m \in Messages : SilverCopies(m) <= 1

\* The same without the proviso: "the pre-loaded offset set makes restarts after
\* a failure completely idempotent" (ADR-004:30).
SilverIsDeduplicated == \A m \in Messages : SilverCopies(m) <= 1

\* Every record of silver carries the margin of its sale, losses and refunds
\* included, and 0 for a sale without revenue: "Financial fields use Decimal to
\* avoid IEEE-754 rounding in aggregations" (models/sales.py:102).
MarginsAreExact ==
    \A m \in Silver :
        LET profit == Amounts[m]["total_profit"]
            revenue == Amounts[m]["total_revenue"]
            margin == MarginPct(profit, revenue)
        IN  IF revenue = 0 THEN margin = 0 ELSE IsNearest(margin, profit, revenue)

\* A pass that ends normally leaves in silver every row of the bronze objects
\* that were there when it began and have not changed since.
DoneMeansComplete == pc = "done" => UNION {RowsOf(n) : n \in stable} \subseteq Silver

\* A record of silver never leaves it, although a flush truncates the files it opens:
\* a known record is skipped (dao/iceberg_dao_read_write.py:109-113).  Locally this
\* takes a pass that has read all the keys.
SilverIsKept == [][mode = "cloud" \/ ~blind => Silver \subseteq Silver']_vars

\* Nothing in bronze stops a pass half-way: no file ends in half a line, and no
\* row overflows the columns of the Iceberg table.
Passable ==
    /\ \A n \in Messages : files[n].tail = "whole"
    /\ mode = "cloud" => Stored \intersect Oversized = {}

\* A row that is in bronze for good gets into silver for good, through crashes,
\* failed writes and half-written silver files, if bronze is passable in the end.
EventuallyInSilver ==
    \A m \in Messages : <>[](m \in Stored /\ Passable) => <>[](m \in Silver)

-----------------------------------------------------------------------------
(* The inductive invariant behind these properties.                          *)

\* One layer of silver is in use.
LayerFollowsMode ==
    /\ mode = "local" => silverTable = <<>>
    /\ mode = "cloud" => \A m \in Messages : silverFiles[m] = "absent"

\* A process has no memory before its pass, and no rows before it reads; it ends
\* its last flush with nothing left to read.
MemoryFollowsPc ==
    /\ pc \notin {"listing", "reading", "flushing"} => seen = {}
    /\ pc \notin {"reading", "flushing"} => buffer = {} /\ todo = {}
    /\ writing # <<>> => pc = "flushing" /\ mode = "local" /\ silverFiles[writing] = "torn"
    /\ last => pc = "flushing" /\ unread = {} /\ todo = {}

\* A key that the writer skips names a record that is in silver or in its buffer.
SkippedIsKept == seen \subseteq Silver \union buffer

\* The writer knows every key of the silver it has loaded, and buffers none of it.
LoadedIsKnown ==
    pc \in {"listing", "reading", "flushing"} /\ ~blind =>
        /\ \A m \in Messages : silverFiles[m] = "whole" => m \in seen \ buffer
        /\ \A i \in 1 .. known : silverTable[i] \subseteq seen \ buffer

\* No record is in two snapshots of silver.
SnapshotsDisjoint ==
    ~blind => \A i, j \in 1 .. Len(silverTable) :
                  i # j => silverTable[i] \intersect silverTable[j] = {}

\* What was read of the objects that have not changed is in silver or on its way.
ReadIsOnItsWay ==
    pc \in {"starting", "listing", "reading", "flushing"} =>
        \A n \in stable \ unread : RowsOf(n) \subseteq Silver \union buffer \union todo

SilverInv ==
    /\ LayerFollowsMode
    /\ MemoryFollowsPc
    /\ SkippedIsKept
    /\ LoadedIsKnown
    /\ SnapshotsDisjoint
    /\ ReadIsOnItsWay
    /\ DoneMeansComplete

=============================================================================
