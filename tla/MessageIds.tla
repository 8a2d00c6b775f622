----------------------------- MODULE MessageIds -----------------------------
(***************************************************************************)
(* Messages of the sales-events topic by partition and offset: what         *)
(* BronzeRecord.record_key identifies (models/sales.py), and the name of    *)
(* every row downstream.                                                    *)
(***************************************************************************)
EXTENDS Integers

CONSTANTS
    NumPartitions,  \* partitions of the topic
    MaxLog          \* bound: messages published per partition

ASSUME MessageAssumption ==
    /\ NumPartitions \in Nat \ {0}
    /\ MaxLog \in Nat

Partitions == 0 .. NumPartitions - 1
Offsets == 0 .. MaxLog - 1
Messages == Partitions \X Offsets

\* The order (kafka_partition, kafka_offset): that of the rows of a batch, and
\* that of the batch files' names while MaxLog and NumPartitions are at most 10.
NotAfter(m, n) == m[1] < n[1] \/ (m[1] = n[1] /\ m[2] <= n[2])

=============================================================================
