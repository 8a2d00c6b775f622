---------------------------- MODULE SalesProducer ----------------------------
(***************************************************************************)
(* The producer service (services/producer/app.py) and the KafkaProducer it *)
(* wraps (kafka/producer.py): one pass over the landed file, asynchronous   *)
(* sends, a flush when the with block is left, normally or not.             *)
(***************************************************************************)
EXTENDS IngestionState, FiniteSets

CONSTANTS
    Rows,           \* data rows of a file
    RowKinds        \* the kinds of row a file may hold

ASSUME ProducerAssumption ==
    /\ Rows \in Nat
    /\ RowKinds \subseteq {"good", "skipped", "halting"}

VARIABLES
    content,        \* content[v][r]: kind of row r of version v
    landing,        \* version of the landed CSV, 0 if there is none or half of one
    row,            \* next row of the loop
    pending,        \* rows sent and not yet acknowledged by the broker
    failed,         \* the loop was left by an exception
    onTopic,        \* onTopic[v][r]: messages for row r of v, 2 for two or more
    lost            \* history: <<v, r>> whose delivery failed for good

RowNumbers == 1 .. Rows

producerVars == <<row, pending, failed, onTopic, lost>>

ProducerTypeOK ==
    /\ content \in [Versions -> [RowNumbers -> RowKinds]]
    /\ landing \in Versions \union {0}
    /\ row \in 1 .. Rows + 1
    /\ pending \subseteq RowNumbers
    /\ failed \in BOOLEAN
    /\ onTopic \in [Versions -> [RowNumbers -> 0 .. 2]]
    /\ lost \subseteq Versions \X RowNumbers

ProducerInit ==
    /\ content \in [Versions -> [RowNumbers -> RowKinds]]
    /\ landing = 0
    /\ row = 1
    /\ pending = {}
    /\ failed = FALSE
    /\ onTopic = [v \in Versions |-> [r \in RowNumbers |-> 0]]
    /\ lost = {}

GoodRows(v) == {r \in RowNumbers : content[v][r] = "good"}

\* onTopic after the broker has appended the rows.
Appended(rows) ==
    [onTopic EXCEPT ![landing] =
        [r \in RowNumbers |-> IF r \in rows /\ @[r] < 2 THEN @[r] + 1 ELSE @[r]]]

-----------------------------------------------------------------------------

\* Mutant of OpenLanding: the loop starts at the header line.
OpenHeader ==
    /\ row' = 0
    /\ pending' = {}
    /\ failed' = FALSE
    /\ UNCHANGED <<onTopic, lost>>

\* The producer starts on the landed file.
OpenLanding ==
    /\ row' = 1
    /\ pending' = {}
    /\ failed' = FALSE
    /\ UNCHANGED <<onTopic, lost>>

\* send() hands the record to the client, which sends it in the background.
SendRow ==
    /\ row \in GoodRows(landing)
    /\ pending' = pending \union {row}
    /\ row' = row + 1
    /\ UNCHANGED <<failed, onTopic, lost>>

\* InvalidRecordError (a date that cannot be read, a missing column): skipped.
SkipRow ==
    /\ row <= Rows
    /\ content[landing][row] = "skipped"
    /\ row' = row + 1
    /\ UNCHANGED <<pending, failed, onTopic, lost>>

\* SchemaError, or pydantic's own ValidationError: no handler of run() takes it.
HaltRow ==
    /\ row <= Rows
    /\ content[landing][row] = "halting"
    /\ failed' = TRUE
    /\ UNCHANGED <<row, pending, onTopic, lost>>

\* ProducerError: send() itself raised.
SendRaises ==
    /\ row \in GoodRows(landing)
    /\ failed' = TRUE
    /\ UNCHANGED <<row, pending, onTopic, lost>>

\* The broker appends a message and acknowledges it.
Acknowledge ==
    /\ \E r \in pending :
        /\ pending' = pending \ {r}
        /\ onTopic' = Appended({r})
    /\ UNCHANGED <<row, failed, lost>>

\* The client gives up on a message: only its future would say so.
LoseRow ==
    /\ \E r \in pending :
        /\ pending' = pending \ {r}
        /\ lost' = lost \union {<<landing, r>>}
    /\ UNCHANGED <<row, failed, onTopic>>

\* The process is killed: some of what is pending had reached the broker.
KillProducer ==
    /\ \E rows \in SUBSET pending : onTopic' = Appended(rows)
    /\ pending' = {}
    /\ failed' = FALSE
    /\ row' = 1
    /\ UNCHANGED lost

=============================================================================
