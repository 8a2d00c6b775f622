----------------------------- MODULE BronzeTable ----------------------------
(***************************************************************************)
(* The bronze layer as its writers leave it and its readers find it         *)
(* (dao/iceberg_dao_read_write.py, dao/iceberg_dao_read_only.py): locally a *)
(* directory of NDJSON batch files, in the cloud an Iceberg table.  A row   *)
(* is the message it was built from.                                        *)
(***************************************************************************)
EXTENDS MessageIds, Sequences, FiniteSets

VARIABLES
    mode,       \* settings.is_cloud, fixed for a deployment: "local" or "cloud"
    files,      \* files[name]: content of p{name[1]}_o{name[2]}.ndjson
    snapshots   \* snapshots of the Iceberg bronze table, oldest first

storageVars == <<mode, files, snapshots>>

\* Complete lines of a file, and whether it ends in the middle of a line.  A
\* file that does not exist is the same as an empty one to every reader.
FileContent == [rows : SUBSET Messages, tail : {"whole", "torn"}]
NoContent == [rows |-> {}, tail |-> "whole"]

StorageTypeOK ==
    /\ mode \in {"local", "cloud"}
    /\ files \in [Messages -> FileContent]
    /\ snapshots \in Seq(SUBSET Messages)

StorageInit ==
    /\ mode \in {"local", "cloud"}
    /\ files = [n \in Messages |-> NoContent]
    /\ snapshots = <<>>

\* A row is in an intact object of the table a reader scans.
Intact(m) ==
    \/ \E n \in Messages : m \in files[n].rows /\ files[n].tail = "whole"
    \/ \E i \in 1 .. Len(snapshots) : m \in snapshots[i]

Stored == {m \in Messages : Intact(m)}

\* In how many batch files or snapshots a row is.
Copies(m) ==
    Cardinality({n \in Messages : m \in files[n].rows})
    + Cardinality({i \in 1 .. Len(snapshots) : m \in snapshots[i]})

=============================================================================
