------------------------------ MODULE Delivery ------------------------------
(***************************************************************************)
(* What the bronze ingestion promises, independently of Kafka, files or     *)
(* Iceberg: at-least-once transfer of the accepted messages of a topic into *)
(* a store, with one acknowledged offset per partition (ADR-004).           *)
(*                                                                          *)
(* An implementation may forget and rewrite stored messages that are not    *)
(* yet acknowledged (a replay overwrites a batch file), never one that is.  *)
(***************************************************************************)
EXTENDS Integers

CONSTANTS
    Partitions,     \* the partitions of the topic
    Offsets         \* the offsets a partition can hold: natural numbers

VARIABLES
    accepted,       \* messages <<partition, offset>> the store must end up with
    acked,          \* acked[p]: offset below which p is never delivered again
    stored          \* messages in the store

vars == <<accepted, acked, stored>>

\* The accepted messages that an acknowledgement vector covers.
Covered(ack) == {m \in accepted : m[2] < ack[m[1]]}

Init ==
    /\ accepted = {}
    /\ acked = [p \in Partitions |-> 0]
    /\ stored = {}

\* A message that is not already acknowledged enters the topic.
Accept ==
    /\ \E m \in (Partitions \X Offsets) \ accepted :
        /\ acked[m[1]] <= m[2]
        /\ accepted' = accepted \union {m}
    /\ UNCHANGED <<acked, stored>>

\* The store changes; whatever is acknowledged stays.
Store ==
    /\ stored' \subseteq accepted
    /\ Covered(acked) \subseteq stored'
    /\ UNCHANGED <<accepted, acked>>

\* Acknowledgements advance over stored messages only.
Ack ==
    /\ acked' \in [Partitions -> Nat]
    /\ \A p \in Partitions : acked[p] <= acked'[p]
    /\ Covered(acked') \subseteq stored
    /\ UNCHANGED <<accepted, stored>>

Next == Accept \/ Store \/ Ack

Spec == Init /\ [][Next]_vars

-----------------------------------------------------------------------------

TypeOK ==
    /\ accepted \subseteq Partitions \X Offsets
    /\ acked \in [Partitions -> Nat]
    /\ stored \subseteq accepted

\* No acknowledged message is missing from the store: "the committed position
\* is never ahead of what is durably written" (kafka/consumer.py:24-27).
AckedIsStored == Covered(acked) \subseteq stored

=============================================================================
