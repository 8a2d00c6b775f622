---------------------------- MODULE BronzeWriter ----------------------------
(***************************************************************************)
(* The two bronze writers of dao/iceberg_dao_read_write.py behind one       *)
(* interface, append() and flush(): LocalBronzeWriter (one NDJSON file per  *)
(* flush) and CloudBronzeWriter (one Iceberg snapshot per flush).           *)
(*                                                                          *)
(* flush() is split where another process, a failure or a crash can see it: *)
(* open (which truncates), blocks reaching the file, close.                 *)
(***************************************************************************)
EXTENDS SalesTopic, BronzeTable

VARIABLES
    buffer,     \* rows appended and not flushed (_buffer)
    target      \* name of the batch file being written: its first row

writerVars == <<mode, buffer, target, files, snapshots>>

WriterTypeOK ==
    /\ StorageTypeOK
    /\ buffer \subseteq Messages
    /\ target \in Messages \union {<<>>}

WriterInit ==
    /\ StorageInit
    /\ buffer = {}
    /\ target = <<>>

\* What a batch, written in order, leaves when only part of it is out.
IsPrefix(rows) ==
    /\ rows \subseteq buffer
    /\ \A m \in rows, n \in buffer : NotAfter(n, m) => n \in rows

-----------------------------------------------------------------------------

\* append(): the row joins the buffer.
BufferRow(m) ==
    /\ buffer' = buffer \union {m}
    /\ UNCHANGED <<target, storageVars>>

\* The finally clause of flush(): success or not, the buffer is emptied.
ClearBuffer ==
    /\ buffer' = {}
    /\ target' = <<>>

\* Mutant of OpenBatchFile: one file per partition, the offset left out of its name.
OpenPartitionFile ==
    /\ mode = "local"
    /\ \E first \in buffer :
        /\ \A m \in buffer : NotAfter(first, m)
        /\ target' = <<first[1], 0>>
        /\ files' = [files EXCEPT ![<<first[1], 0>>] = NoContent]
    /\ UNCHANGED <<mode, buffer, snapshots>>

\* sort, name the file after the first row, open(filepath, "w"): an existing
\* file of that name is truncated.
OpenBatchFile ==
    /\ mode = "local"
    /\ \E first \in buffer :
        /\ \A m \in buffer : NotAfter(first, m)
        /\ target' = first
        /\ files' = [files EXCEPT ![first] = NoContent]
    /\ UNCHANGED <<mode, buffer, snapshots>>

\* Some of what was written reaches the file; the cut falls anywhere.
WriteSomeRows ==
    /\ \E rows \in SUBSET buffer, tail \in {"whole", "torn"} :
        /\ IsPrefix(rows)
        /\ files[target].rows \subseteq rows
        /\ files' = [files EXCEPT ![target] = [rows |-> rows, tail |-> tail]]
    /\ UNCHANGED <<mode, buffer, target, snapshots>>

\* The end of the with block: the whole batch is in the file.
CloseBatchFile ==
    /\ files' = [files EXCEPT ![target] = [rows |-> buffer, tail |-> "whole"]]
    /\ ClearBuffer
    /\ UNCHANGED <<mode, snapshots>>

\* Mutant of AppendSnapshot: the buffer survives the append.
AppendSnapshotKeepsBuffer ==
    /\ mode = "cloud"
    /\ snapshots' = Append(snapshots, buffer)
    /\ UNCHANGED <<buffer, target, mode, files>>

\* Table.append(): the batch becomes one snapshot.
AppendSnapshot ==
    /\ mode = "cloud"
    /\ snapshots' = Append(snapshots, buffer)
    /\ ClearBuffer
    /\ UNCHANGED <<mode, files>>

\* Table.append() raises; its catalog commit may have taken effect before.
AppendSnapshotFails ==
    /\ mode = "cloud"
    /\ snapshots' \in {snapshots, Append(snapshots, buffer)}
    /\ ClearBuffer
    /\ UNCHANGED <<mode, files>>

\* An OSError while the file is opened or written, turned into
\* IcebergWriteError: the bytes that are out stay.
BatchFileFails ==
    /\ mode = "local"
    /\ ClearBuffer
    /\ UNCHANGED storageVars

=============================================================================
