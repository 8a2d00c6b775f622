# Verification of the sales pipeline

TLA+ models of the economics-data-ingestion pipeline, model-checked with TLC, with
theorems checked by TLAPS. Paths are relative to the repository root;
`dao/`, `kafka/`, `models/`, `ingestion/` abbreviate
`packages/economics_pipeline/...`.

## 1. The system

```
 provider --HTTP--> downloader --landed CSV--> producer --Kafka--> consumer_bronze --files/Iceberg--> transformer_silver --> silver
                        |                         |
                        +------ state file -------+---- scheduler (cron), or Step Functions in the cloud
```

| Part | State it keeps | Operations | Meets the others through |
|---|---|---|---|
| scheduler (`services/scheduler/app.py`) | `fired_this_minute` | one cycle: downloader, then producer if the state says "extracted", then mark | exit codes of the two services, state file |
| downloader (`services/downloader/app.py`) | archive zip, landed CSV | HEAD, compare, GET, extract, save state | state file, shared data volume, the provider |
| ingestion state (`ingestion/state.py`) | `state.json`: ETag, length, checksum, status | `load`, `has_new_content`, `save`, `mark_produced` | shared by downloader and scheduler |
| producer (`services/producer/app.py`, `kafka/producer.py`) | the client's unacknowledged records | read row, send, flush on exit | landed CSV, topic |
| Step Functions (`infra/modules/scheduler/main.tf`) | the state of an execution | Downloader, then Producer, else IngestionFailed | exit codes of the two tasks |
| topic and group (Kafka, external) | log per partition, committed offsets | append, deliver, commit | producer, consumer |
| consumer_bronze (`services/consumer_bronze/app.py`, `kafka/consumer.py`) | positions, generator, `count` | poll, append, flush every `FLUSH_EVERY`, commit | topic, bronze |
| bronze writers (`dao/iceberg_dao_read_write.py:35-72, 241-319`) | `_buffer`, batch files or Iceberg snapshots | `append`, `flush` | consumer, bronze readers |
| bronze readers (`dao/iceberg_dao_read_only.py`) | listing or scan in progress | `read_all` | bronze, transformer |
| transformer_silver (`services/transformer_silver/app.py`) | position in bronze, counters | pass over bronze, flush every `FLUSH_EVERY` rows | bronze, silver |
| silver transform (`transforms/silver.py`) | none | figures of a record | transformer |
| retry policies (`retry/policy.py`) | the attempt | repeat a call that raised certain types | the GET, the flushes, the Kafka connection |
| silver writers (`dao/iceberg_dao_read_write.py:75-137, 322-429`) | `_seen`, `_buffer`, record files or snapshots | load keys, `merge`, `flush` | transformer |

Other parts (settings, models, exceptions, the S3 DAOs, the rest of the Terraform code)
are listed with their status in `PROJECT.json`.

What is hard: there are no transactions anywhere, so every property is about the order of
writes to separate places (file, then offset; CSV, then state file; key set, then record)
and about what a crash, a failed call or another process in between leaves behind. Kafka
redelivers; batch files are truncated in place and named after their first row; buffers
are emptied even by a failed flush, so whether a failed flush is retried matters; a generator that has raised is dead; HEAD and GET are
two requests; the producer's sends are asynchronous.

What makes each part correct:

* consumer and bronze: no committed message is missing from bronze; a failure costs one
  batch of redelivery; without a failure nothing is written twice; every valid message
  arrives;
* silver: one record per message however often bronze repeats it; a pass that ends
  normally has copied all of bronze; every row gets there in the end; the margin is exact;
* consumer and transformer together: every valid message is in silver once;
* ingestion: a version is marked as produced only after a complete pass over its rows;
  a cycle is skipped only when there is nothing new; the producer never reads a
  half-extracted or foreign file; no row of an old version follows those of a newer one; the
  provider's last version reaches the topic;
* scheduler: no minute is fired twice, and the loop steps over one minute at most.

## 2. Modules

| Module | Models |
|---|---|
| `MessageIds` | messages by partition and offset (`record_key`), and the order batches are sorted in |
| `SalesTopic` | the topic's log, the group's committed offsets, the consumer's positions |
| `BronzeTable` | what is in bronze: batch files (complete lines plus torn tail) or Iceberg snapshots |
| `BronzeWriter` | `append`/`flush` of `LocalBronzeWriter` and `CloudBronzeWriter` |
| `ConsumerBronze` | `run()` of consumer_bronze, composing the four above; its properties; its inductive invariant |
| `Delivery` | abstract at-least-once transfer: accept, store, acknowledge |
| `SilverTransformer` | `run()` of transformer_silver with the readers and the silver writers, while bronze changes under it and, in the cloud, another task writes silver |
| `SilverTransform` | the margin of a record and the decimal columns it must fit |
| `RetryPolicy` | which exceptions the three decorators retry, and how often |
| `ExactlyOnce` | abstract transfer from the topic to silver: every accepted message, once; after a failed read of the keys, records may be repeated or written anew |
| `Pipeline` | `ConsumerBronze` and an instance of `SilverTransformer` on one bronze layer, interleaved |
| `IngestionState` | the state file |
| `SalesProducer` | the producer's loop and the Kafka client's background thread |
| `Ingestion` | abstract daily cycle: versions published, rows delivered or given up on, the version recorded as produced, the version skipped |
| `IngestionCycle` | scheduler or Step Functions, downloader and producer around the state file, and the provider |
| `SchedulerClock` | the scheduler's loop: when it looks at the clock, and when it fires a cycle |
| `ConsumerBronzeProofs`, `SilverTransformerProofs`, `PipelineProofs`, `DeliveryProofs`, `ExactlyOnceProofs`, `IngestionCycleProofs`, `SilverTransformProofs`, `SchedulerClockProofs` | theorems |
| `MCConsumerBronze`, `MCSilverTransformer`, `MCPipeline`, `MCIngestionCycle` | values for the constants in the `.cfg` files |

How the models correspond to the code:

* **A row is the message it came from.** In `ConsumerBronze` a message is `<<partition,
  offset>>` with a kind: *valid*, *invalid* (JSON, but no `SalesRecord`) or *garbled* (not
  JSON). `next(consumer_gen)` has one action per outcome: `NextRecord`, `NextInvalid`
  (the generator is finished after it: `continue` leads to `StopIteration`),
  `NextGarbled` (raises inside `KafkaConsumer`), `NextRejected` (`ConsumerError`),
  `GeneratorFinished`, `IdleStop`, `EarlyStop`.
* **flush()** is split where something else can see it: `FlushOpen` (truncates the file of
  that name), `FlushSome` (some complete lines, perhaps half a line, have reached the
  file), `FlushClose`. An Iceberg append is one step, `FlushAppend`; a failed one
  may have taken effect. `phase` says which of the three `flush()` calls of `run()` it is,
  hence whether a commit follows.
* **`mode`** is `settings.is_cloud`: chosen in `Init`, never changed, so every run covers both.
* **`SilverTransformer`** names a silver record by its `source_kafka_offset`, as the code's
  key does. Local records are files (absent, torn, whole), the cloud table is a sequence
  of snapshots. Bronze changes arbitrarily between any two steps (`BronzeChanges`): a file
  is created, truncated, grows or is completed; a snapshot is added. This is weaker than
  what `ConsumerBronze` does, so what holds here holds with that consumer. In the cloud
  another task may commit to the silver table (`PeerAppends`). The writer's table object
  knows the snapshots up to `known`; an append is accepted only if they are all there is
  (`Commit`), and otherwise raises (`AppendConflicts`): the optimistic commit of Iceberg. The
  figures of a row are integers in hundred-thousandths; a row whose figures do not
  fit the columns (`Oversized`) ends the pass outside the `try` block (`Overflow`).
* **`Pipeline`** conjoins the steps: a step of the consumer leaves the transformer's memory
  alone, and the other way round; only bronze is common. The transformer's own
  `BronzeChanges` is not used: the consumer takes its place. Two history variables
  (`stable`, `due`) follow what a pass was given at its start.
* **`RetryPolicy`** is a table. `IcebergWriteError` and `DownloadError` are not among the
  retried types nor descend from them, so in the models a failed flush reaches the
  handler at once, as in the code, whatever the comments say ("after all retry attempts",
  `exceptions/storage.py:27`, `exceptions/ingestion.py:13`; "retried up to 3×",
  `services/downloader/app.py:14`). The flush actions ask `IsRetried`, so the mutant that adds
  the pipeline's errors to the table shows what a retry would do to a buffer that
  `finally` has emptied: three runs notice.
* **`IngestionCycle`** numbers the versions of the provider's file. ETag and checksum are
  that number, the length is `LengthOf[version]`. Which headers the server sends is chosen
  once. `Publish` may happen between any two steps, between HEAD and GET among them.
  `platform` is `compose` or `cloud`, chosen in `Init`. In the cloud every task starts on a
  disk of its own (`DiskOfNextTask`), so the state file is never found and the producer task has
  no file to open (`ProducerTaskFails`). A GET has up to three attempts (`attempt`), each of which may
  leave the archive as it was or half-written. A data row is *good*, *skipped* (`InvalidRecordError`) or *halting* (`SchemaError` or
  pydantic's own error, which the producer does not catch).
* **`SchedulerClock`** counts time in ticks. A look at the clock and its decision are one step
  (the code reads `now` once); the time of a turn (logging, a slow host) is added to its sleep. A
  minute is named by its number since the beginning, as `minute_key` contains the date.
  Histories (`fires`, `looks`, `idle`) are those of one process and start again with it.
* **Crashes**: one `Crash` action per model (`Restart` in `SchedulerClock`), possible at any step; it forgets memory and
  keeps storage, with a file that was open left cut off (`TearStateFile`, a torn batch
  file, a half-written archive).
* **Mutants**: a definition described as a "Mutant of" another is not part of the
  specification; it is what a plausible slip in that code would make of it, and shows that
  a property notices.

## 3. Runs

| Run | Question | Bounds | Result |
|---|---|---|---|
| `bronze` | Does the consumer deliver at least once, in both modes? | 2 partitions, 2 messages each of any kind, batches of 2, 2 failures (232 000 states) | all 9 properties hold |
| `bronze_tail` | Does everything arrive with the production timeout -1? | no failures | violated: the tail batch waits for ever |
| `bronze_rejoin` | Does a lost group membership keep committed messages in bronze, locally? | 1 failure | violated: the stale buffer names a file that is truncated later |
| `silver` | Is a pass idempotent and complete while others write bronze and silver? | 2 rows, 3 changes by others, flush every 2, 2 failures (299 000 states) | all 7 properties hold |
| `silver_blind` | Is silver deduplicated without the keys of silver? | 1 failure | violated: a failed key scan becomes an empty set |
| `pipeline` | Do the two services together deliver every message once? | 2 partitions of 1 message, valid or invalid, batches of 2, 1 failure (132 000 states) | all 6 properties hold |
| `pipeline_torn` | Does every message reach silver, locally too? | the same, batches of 3 | violated: a batch file cut off by a crash is never written again; every pass ends there and drops what it has not flushed |
| `ingestion` | Do the daily cycles bring every version to the topic? | 2 versions, 2 rows of any kind, any headers, 2 failures, both platforms (949 000 states) | all 8 properties hold |
| `ingestion_lost` | Does "produced" mean delivered? | 1 failure | violated: nobody looks at the futures of `send()` |
| `ingestion_twice` | Is a re-ingested file absorbed by silver? | no failures | violated: the rows have new offsets, hence new keys |
| `ingestion_cloud` | Do they under Step Functions? | 1 version, 1 failure | violated: the producer task never finds a file |
| `schedule` | Does the loop fire at the right times? | 3-minute days of 9 ticks, turns up to 5, 24 ticks (94 000 states) | all 3 properties hold |

### What the passing runs check

`bronze`:

* `CommittedIsDurable`: no committed valid message is outside an intact object of bronze.
* `SafetyInv`, `RedeliveryInv`, `OnceInv`: the inductive invariants (section 5) of the property above
  and of the next two.
* `RedeliveryIsBounded`: what is read and not committed is at most one batch. The batch
  boundary counts records since the start of the process, not records in the buffer; the
  two agree only because every other way out of the loop ends the process.
* `NoDuplicatesWithoutFailure`: as long as nothing fails, each row is written once, also over
  several runs of the process (invalid messages end a run, and are not failures).
* `ImplementsDelivery`: the refinement of `Delivery`, with `accepted` the valid
  messages, `acked` the committed offsets, `stored` the intact rows. It says more than the
  invariant: a stored and acknowledged row stays stored at every step, although batch
  files get truncated.
* `DurableUnlessGarbled`: under fairness, each valid message is in bronze for good in the
  end, if no message is garbled. It depends on invalid messages being passed and on
  the tail being committed when one ends the run. The proviso is needed: a message that is not
  JSON raises in the iterator before the position moves, at every restart, although
  `services/consumer_bronze/app.py:7` says it is skipped.

`silver`:

* `DeduplicatedWhenKeysAreKnown`: no record is in two snapshots as long as no pass started
  with a failed key scan, also while another task appends. It rests on the keys
  being those of the very snapshot the append is based on: its mutant rebases the append.
* `DoneMeansComplete`: a pass that ended normally left in silver all rows of the objects that
  existed at its start and did not change since.
* `SilverIsKept`: no step takes a record out of silver, although a flush truncates the files it
  opens. Locally this takes passes that have read all the keys: an `OSError` on a record
  file is passed over (`LoadKeysFails`), and that record is then truncated and written again.
* `SilverInv`: the inductive invariant (section 5).
* `EventuallyInSilver`: a row that is in bronze for good gets into silver for good,
  through crashes and half-written silver files, if in the end no bronze file is torn and
  no row overflows the decimal columns.
* `MarginsAreExact`: the margin of every record of silver is the exact one to half of its last
  digit. `UnevenSales` has a loss that must be rounded away from zero and a margin
  beyond `decimal(6, 2)`.

`pipeline`:

* `ImplementsExactlyOnce`: every step of the two services is a step of `ExactlyOnce`: only
  accepted messages get into silver, each once, except after a failed scan of the
  silver keys, which excuses a second record, or the rewriting of one. Neither `ConsumerBronze` (bronze holds duplicates) nor `SilverTransformer` (it
  does not know the topic) can say this.
* `CommittedGetsThrough`: a pass that ends normally leaves in silver all messages that were
  committed when it began, although batch files are truncated and rewritten while it
  reads: no later file of the consumer can hide a committed row.
* `ServicesInv`, `SightInv`: the inductive invariants of the two properties above (section 5).
* `AllReachSilverUnlessTorn`: under fairness every valid message gets to silver for good,
  unless some batch file is cut off for ever.

`ingestion`:

* `ProducedMeansSent`, `ProducerReadsThatVersion`, `SkipIsJustified`: the item on ingestion in section 1,
  with HEAD, GET, publications and failures interleaved in every order.
* `ImplementsIngestion`: the refinement of `Ingestion`, with `delivered` the rows on the topic, `produced`
  the checksum of a state file that says "produced", `skipping` the version HEAD asked about when no
  download followed. It says more than the three: what a step may do. Rows of
  a version are never sent after rows of a later one, although archive and landed file are
  replaced in place and survive a cycle that failed; nothing is sent while a version is recorded;
  the decision to skip is taken for the version served at that moment.
* `SettledIsHandled`: what follows for the topic: no good row of a version that is marked or skipped is
  missing from it, but for rows the client gave up on.
* `CycleInv`: the inductive invariant (section 5).
* `EventuallyArrives`: under the scheduler service, the version the provider stops at is on the topic row by row in the
  end, or given up on by the client, provided the state file is not torn and no row
  halts the producer. Both provisos are real: a torn state file makes every later `load()`
  raise, and a halting row stops each producer at the same place.

What is said of skipped versions, and `EventuallyArrives`, is for a server that is `Distinguishable`: it
does not send lengths alone with two versions of the same length. There the code's
"weak signal" (`ingestion/state.py:87`) fails, and nothing else could tell the versions apart.
In the run all lengths differ, so the proviso is always met; the theorems cover every case.

`schedule`:

* `OncePerWindow`: a process never fires a minute a second time, although it may see it again
  when the clock is set back. A restarted process may: `IngestionCycle` lets a cycle start at
  any time, so what a second one does is checked there.
* `SkipsOneMinute`: of two consecutive minutes the loop looks at the clock in one. More is not
  true: the loop sleeps a full minute and takes some time besides, so two looks may lie on both
  sides of the minute cron names, and that day's cycle is not fired, although `app.py:42` calls the interval "Fine-grained
  enough not to miss the window". On an idle host a turn takes milliseconds and a
  day is lost rarely. A cron expression of two minutes in a row would be safe.
* `ClockInv`: the inductive invariant, with the types (section 5).

### Bounds

The bounds are constants in the guards (`MaxLog`, `MaxVersion`, `MaxChanges`, `MaxFaults`),
or sizes (`NumPartitions`, `Rows`, `FLUSH_EVERY`), each named where it is declared.

* Two partitions are what an interleaving needs: every hazard of the batch file names
  disappears with one. Two messages each give a full batch, a tail batch, a batch of
  both partitions and a replay with another first row. Batches of two make "full" and
  "tail" different. Two failures allow one failure while recovering from another (a flush
  cut off, then a crash in the replay).
* In `silver`, two rows are enough for a repeated row, a full flush and an empty final
  flush, and three changes for a file that appears, is truncated and
  completed, for three snapshots with a row in common, or for an append of another task
  between the load of the table and the flush.
* In `pipeline`, one message in each of two partitions is enough for a batch of both, a tail
  batch, a replay that starts with the other partition, and a file that sorts before
  another; an invalid message ends a run of the consumer. One failure is a crash of either
  service, a failed write or a rejoin; two take the run from 35 s to several minutes
  without another outcome. In `pipeline_torn` the file left cut off can only be `p1_o0`, the last
  one: a replay reads partition 0 and so writes `p0_o0` again. With batches of 3 the two rows
  of `p0_o0` are still unflushed when the pass comes to it. With batches of 2 `p1_o0`
  is cut off just the same, but the transformer has flushed after the second row, and the
  property holds; rows in files behind the cut-off one need a longer topic than the run has.
* In `ingestion`, two versions give the race between HEAD and GET and a state with the old
  ETag and the new content. Two rows give a producer that stops between rows.
  `onTopic` saturates at two, enough to tell once from twice.
* In `schedule`, three ticks to a minute are enough for looks at its start, inside and at its end, three
  minutes to a day for windows with minutes between them, and 24 ticks for three
  windows. `MaxBack` (4 of at most 6 ticks) reaches back over a whole minute; `MaxLate` is
  the largest its assumption allows. The loop never stops, so at `MaxTime` only restarts
  and corrections go on.
* `NotAfter` compares partitions and offsets as numbers, as the sort in `flush()`
  does; the reader sorts file names as strings, which agrees while both bounds are at most 10.

### Findings

The seven violation runs are disagreements between the code and a statement of the
repository. Each is described with the quoted line under `findings` in `PROJECT.json`.
In short:

1. `bronze_rejoin`: the consumer keeps the writer's buffer when its positions fall back to the
   committed offsets. Locally a batch can then be named after a row that will be read
   again, and the next batch of that name truncates a file with committed rows of another
   partition. In the cloud the effect is a duplicate only, so `bronze` allows `Rejoin` there.
2. `bronze_tail`: with `kafka_consumer_timeout_ms = -1` fewer than `FLUSH_EVERY` records stay
   in memory as long as the topic is quiet.
3. `silver_blind`: a failed scan of the silver keys makes the pass append everything again.
4. `pipeline_torn`: batch boundaries depend on how the partitions interleave, so a replay need
   not write the file a crash cut off. Its last line then raises a JSON error in every pass, which
   `run()` does not catch: what the pass has merged from the files before it and not flushed is
   dropped. In the trace both messages are in `p0_o0`, the cut-off file is `p1_o0`, and silver stays empty.
5. `ingestion_lost`: a record the client gives up on is lost although the file is marked.
6. `ingestion_twice`: a provider without ETag and Content-Length has its unchanged file
   produced every day; the silver key is made of the offset, so silver keeps both copies.
7. `ingestion_cloud`: the `s3://` paths are given to `open()`, so the producer task looks for the
   landed file on a disk where nobody has put it.

## 4. Fairness

Every model has the same, except `SchedulerClock`, which has safety properties only: weak fairness of `Progress`, the disjunction of the steps of
the program itself. `Pipeline` has one such condition per container: each runs and
restarts by itself, and neither waits for the other.

* The services of `docker-compose.yml` have `restart: unless-stopped` (lines 102, 117, 127),
  so `Start` is part of `Progress`; the scheduler's loop never ends and its cron matches every
  day, so is `StartCycle`. Single days may be missed (`SkipsOneMinute`); missing every one
  would take a drift that hits each window anew, which is assumed not to happen.
* Within a process there is one thread, which always takes its next step; weak fairness of
  the disjunction is that and no more. In `ConsumerBronze` it does not say which partition
  is read next: a partition may wait as long as others have messages, which is harmless
  because logs are bounded.
* The producer's client has a second thread. `Deliver` is in `Progress` too: a client that
  is neither told nor timed out still works on its queue; and `flush()` waits for it.
* Publishing, failures, changes by other processes and `FlushSome` (which only makes partial writes
  visible) are never obliged.

In the models of this project failures are finite in number. This is a bound
and the meaning of the liveness properties: once failures stop, the system recovers.

## 5. Proofs

All are checked by `tlapm` for arbitrary constants (any number of partitions,
log length, batch size, versions, rows, failures), from the named assumptions on the constants
that TLC evaluates in the runs.

**`ConsumerBronzeProofs`**

* `TypeCorrect`: `Spec => []TypeOK`.
* `SafetyHolds`, `CommittedMessagesAreDurable`: `Spec => []SafetyInv`, hence
  `[]CommittedIsDurable`, assuming `LocalKeepsMembership` (a consumer that writes local files
  does not lose its group membership; `bronze_rejoin` shows the assumption is needed).
* `ConsumerImplementsDelivery`: `Spec => Delivered!Spec`, under the same assumption.
* `RedeliveryInvHolds`, `OneBatchIsRedelivered`: `[]RedeliveryInv`, hence `[]RedeliveryIsBounded`, and
  `OnceInvHolds`, `NoFailureNoDuplicates`: `[]OnceInv`, hence `[]NoDuplicatesWithoutFailure`, all
  without it.

`CommittedIsDurable` is not inductive. A committed row may share its file with
others; if that file could be named again, a later `FlushOpen` would truncate it. The invariant
therefore says `CommittedIsSettled`: a committed row is in an intact file *whose name is itself
below the committed offset* (or in a snapshot). Names come from the buffer, and
`BufferIsFresh` says the buffer holds no committed message, so no later file has such a
name. `ReadIsBuffered` and `CommittingIsSettled` carry the rows from the poll
through the flush to the commit: what is read and will be committed is in the buffer until
the flush returns, and settled after it. The file of a batch is named after its first row,
which that commit passes, so settled becomes committed.

`RedeliveryIsBounded` needs `BatchIsCounted`: in the loop, the records read and not committed
are no more than `count % FLUSH_EVERY`, the position in the batch, so the record that fills a batch
makes them `FLUSH_EVERY` at most (`NextCount`, `RedeliveryStep`). A rejoin gives records back without
resetting `count`, which is why this is an inequality. `OnceInv` holds until the first failure:
the buffer is between the committed offset and the position (`BatchIsNew`), all that bronze has is
below the committed offset except the batch being written (`WrittenIsOld`), so no object gets a
row of another (`ObjectsDisjoint`).

**`SilverTransformerProofs`**, with any changes of bronze and any other task in between

* `TypeCorrect`, `SilverInvHolds`: `Spec => []TypeOK`, `Spec => []SilverInv`.
* `DonePassesAreComplete`, `KnownKeysDeduplicate`, `SilverMarginsAreExact`: the three invariants of the
  run. `RecordsAreKept`: its action property.

`DoneMeansComplete` speaks of the end of a pass only. What carries it there is `ReadIsOnItsWay`: the rows
of unchanged objects already opened are in silver, in the buffer or still to be merged. A row leaves
`todo` by being skipped, and then `SkippedIsKept` says its key is in silver or in the buffer; this is
where a buffer emptied by a failed flush would do harm, and why it matters that the
process ends then (`SilverErrorsAreRaised`, from the table of retried types). For
deduplication, `LoadedIsKnown` says that the first `known` snapshots are in `seen` and not
in the buffer. An accepted commit has `known` equal to their number, hence adds only new
records (`CommitIsNew`), and `SnapshotsDisjoint` is preserved.

**`PipelineProofs`**

* `PipelineTypesHold`, `ServicesInvHolds`: types, the transformer's invariant, and that only valid
  messages are ever buffered, written or read (`RowsAreValid`).
* `PipelineImplementsExactlyOnce`: `PipelineSpec => Promise!Spec`, from them.
* `SilverHasNoDuplicates`: `PipelineSpec => []Promise!AtMostOnce`, the guarantee of `ExactlyOnce` inherited.
* `SightHolds`, `CommittedMessagesGetThrough`: `[]SightInv`, hence `[]CommittedGetsThrough`, assuming
  `LocalKeepsMembership`.
* `PipelineImplementsDelivery`: the refinement of `Delivery` is not disturbed by the transformer.

The lemmas of `SilverTransformerProofs` are taken over by instantiation (`S`), with the
consumer's steps in the place of `BronzeChanges`: `ConsumerKeepsPass` shows that they change
bronze in a way the transformer's `BronzeStep` allows. `SameState`, `SameInv`, `SamePass`
and `SameRecords` say that the instance `S` and the instance `Silver` of `Pipeline` define the same.
The refinement maps a commit or a finished record file to `Curate` (the rows were buffered, so
valid; not in silver, unless keys were lost), a failed key scan to `LoseKeys`, reopening a
record to `Reopen`, and all other steps of a pass to a stutter (`PassCurates`).

`CommittedGetsThrough` joins the two invariants. `SafetyInv` says a committed row is in a file
named below the committed offset, which no later flush opens (`ConsumerSpares`); `DueIsInSight`
follows that file from the start of the pass through the listing into `stable`; and
`DoneMeansComplete` brings the rows of stable objects to silver.

**`DeliveryProofs`**: `AcknowledgedIsStored`, the guarantee of the abstract
specification, which any implementation inherits.

**`ExactlyOnceProofs`**: `NoDuplicates`, `Spec => []AtMostOnce` for the abstract specification; `PipelineProofs`
carries it over to the services.

**`SilverTransformProofs`**: `MarginIsExact`, for all integers. The rounded quotient of absolute values
is off by at most half the divisor (`NearestQuotient`, from what integer division means), and
the sign is put back (`RoundedIsNearest`).

**`IngestionCycleProofs`**

* `TypeCorrect` and `CycleInvHolds`, proved together (`CycleIsSafe`): that a lost row belongs to
  a version, not to an empty landing, follows from the invariant.
* `ProducedIsSent`, `ProducerReads`: consequences of the invariant.
* `SkipJustified`: `[]SkipIsJustified`.
* `CycleImplementsIngestion`: `Spec => Promise!Spec`, the refinement of `Ingestion`.
* `SettledVersionsAreHandled`: `[]SettledIsHandled`, the guarantee of `Ingestion` (`PromiseStep`) carried over by
  the refinement.

The invariant orders versions in time. The state file's ETag and length are of a version not
later than its content (`StateIsHonest`: HEAD comes before GET, the checksum is of what
GET brought), and its content is not later than what the provider serves
(`NothingFromTheFuture`). So if HEAD answers with the saved ETag, provider and content are the
same version: the race between HEAD and GET can cause a needless download, never a
wrong skip. With lengths alone the argument needs that different versions differ in length
(`Distinguishable`). A server that sends ETags too does not need it: an ETag is missing only after a failed HEAD,
and then so is the length (the last conjunct of `StateIsHonest`), so the lengths are never
compared (`HeadSkips`).
`LandingIsCurrent` and `RowsAreHandled` carry the rows from the landed file to `mark_produced`:
every good row the loop is past is pending, on the topic or lost.

The refinement needs two more parts. `OnlyGoodRowsAreSent`: what the client holds are good rows of the landed
file, so what it delivers, or a killed process leaves on its way, is wanted. `NewestIsLast`: the topic
has nothing later than what the provider serves, than the archive between GET and save, and
than the state file from then until the producer ends; GET makes the archive the latest version there
is, and nothing is sent until that version is produced. Each action maps to one of `Ingestion`:
HEAD without a download to `Skip` (`HeadSkips`), an acknowledgement or a killed producer to `Deliver`,
a lost message to `Abandon`, `Mark` to `Complete`; a saved, torn or missing state file to `Forget`;
the rest changes nothing but a decision to skip (`QuietRefines`).

**`SchedulerClockProofs`**

* `ClockInvHolds`: `[]ClockInv`. `FiredIsLast` makes one variable stand for all that was fired.
* `FiresOnce`: `OncePerWindow`, assuming the clock is set back by less than a day
  (`ClockAssumption`). The due window is more than the last one fired minus a day; windows are
  multiples of a day apart (`WindowsAreDaysApart`); so it is that one, which the code
  excludes, or a later one (`DueIsNew`).
* `StepsOverOneMinute`: `[]SkipsOneMinute`, assuming a turn of less than two minutes. `NoWideGap` says
  that the looks leave no gap of two minutes up to the present one, in a form
  that survives a clock set back.

Only model-checked: the liveness properties (`DurableUnlessGarbled`, `EventuallyInSilver`,
`AllReachSilverUnlessTorn`, `EventuallyArrives`), because fairness and `ENABLED` are outside the prover.
Every invariant, action property and refinement of the passing runs is a theorem.

## 6. Simplifications, and what is not modelled

* One consumer process, as `docker-compose.yml` runs it; a second one would appear as `Rejoin`.
  One transformer process in full; in the cloud another one appears as `PeerAppends`, with
  its keys in order: a peer that failed to read them would spoil silver as `silver_blind` shows.
  Locally `container_name` allows one.
* The external `Table.append` takes the rows or raises. That PyIceberg accepts the Arrow
  schemas of the writers (nullable fields, inferred integer widths) is assumed.
* `commit()` covers all partitions in one step; the broker could record some of them only.
* No retention or re-creation of the topic. `docker-compose.yml:40` gives the broker no volume, so
  a new container starts at offset 0 with the old keys in silver: listed in the hazards only.
* The rows of a batch are a set: a row twice in one batch (possible after `Rejoin`) counts
  once. Rows of one bronze file are read at once, rows of a pass are merged one by one.
* Strict mode of the silver writers has no caller and is left out; parsing, formatting and the
  copied fields are data the properties do not tell apart. The quotient behind the margin is
  rounded once; the code divides with 28 digits first, which no sale can show.
* The archive holds one CSV under the configured name, and the archive's checksum identifies
  its version.
* A Fargate task's disk is empty at its start. Step Functions ends with `IngestionFailed` at the
  producer; what would follow on a shared disk cannot happen and is not modelled.
* An outage during the download is one failure, however many attempts it lasts; the delays
  between attempts are left out. The retries of the Kafka connection are one step that
  connects or does not.
* `SchedulerClock` and `IngestionCycle` are not composed: in the latter a cycle may start at any time.
  A cron expression is one minute of the day; a `*` in the minute or the hour (`app.py:65-66`) is
  not modelled, and lists, steps and the day fields are not parsed by the code. croniter is in no requirements file.
* The S3 DAOs are unused by the services and stateless; the protocols in `dao/base.py` and
  `kafka/base.py` declare interfaces; the rest of the infrastructure code is declarative.

## 7. Plan

Order: the most important guarantee first. All but item 12 are done.

1. `Delivery`, `MessageIds`, `SalesTopic`, `BronzeTable`, `BronzeWriter`, `ConsumerBronze`: the
   consumer and its guarantee, with proofs.
2. `SilverTransformer`: passes over bronze.
3. `IngestionState`, `SalesProducer`, `IngestionCycle`: the daily cycle.
4. `IngestionCycleProofs`.
5. `RetryPolicy`, used by the flushes and by the download.
6. A second transformer task and the optimistic commit, in `SilverTransformer`.
7. `ExactlyOnce` and `Pipeline`.
8. Step Functions as a second platform of `IngestionCycle`; `SilverTransform`.
9. `SchedulerClock` with its proofs.
10. `SilverTransformerProofs`, `PipelineProofs`, and the rest of `ConsumerBronzeProofs`.
11. `Ingestion`, and the refinement of it by `IngestionCycle` as a theorem.
12. Re-creation of the topic with old keys in silver.
