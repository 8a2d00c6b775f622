----------------------------- MODULE SalesTopic -----------------------------
(***************************************************************************)
(* The sales-events topic (docker-compose.yml, kafka-init) and the state    *)
(* the broker keeps for the consumer group, as BronzeConsumer                *)
(* (kafka/consumer.py) uses them.  Kafka itself is external.                *)
(***************************************************************************)
EXTENDS MessageIds, Sequences

CONSTANT
    Kinds           \* the kinds of message put on the topic

ASSUME TopicAssumption == Kinds \subseteq {"valid", "invalid", "garbled"}

VARIABLES
    log,        \* log[p]: kinds of the messages of p, offset 0 first
    position,   \* position[p]: next offset the running consumer reads
    committed   \* committed[p]: offset the group committed for p

topicVars == <<log, position, committed>>

TopicTypeOK ==
    /\ log \in [Partitions -> Seq(Kinds)]
    /\ \A p \in Partitions : Len(log[p]) <= MaxLog
    /\ position \in [Partitions -> Nat]
    /\ committed \in [Partitions -> Nat]

TopicInit ==
    /\ log = [p \in Partitions |-> <<>>]
    /\ position = [p \in Partitions |-> 0]
    /\ committed = [p \in Partitions |-> 0]

\* The messages of kind k in the log.
OfKind(k) == {m \in Messages : m[2] < Len(log[m[1]]) /\ log[m[1]][m[2] + 1] = k}

\* The messages a SalesRecord can be built from: what bronze must receive.
Valid == OfKind("valid")

\* The messages a vector of offsets is past.
Below(offset) == {m \in Messages : m[2] < offset[m[1]]}

\* The next message of p, when there is one.
NextOf(p) == <<p, position[p]>>

-----------------------------------------------------------------------------

\* A producer's message is appended to a partition.
Publish ==
    /\ \E p \in Partitions, k \in Kinds :
        /\ Len(log[p]) < MaxLog
        /\ log' = [log EXCEPT ![p] = Append(@, k)]
    /\ UNCHANGED <<position, committed>>

\* Mutant of Rewind: the group resumes one before the committed offset.
RewindBeforeCommitted ==
    /\ position' = [p \in Partitions |-> committed[p] - 1]
    /\ UNCHANGED <<log, committed>>

\* A consumer joins: it resumes from the committed offsets, which start at the
\* beginning of the log (auto_offset_reset = earliest).
Rewind ==
    /\ position' = committed
    /\ UNCHANGED <<log, committed>>

\* The consumer's iterator hands out the next message of p.
Deliver(p) ==
    /\ position' = [position EXCEPT ![p] = @ + 1]
    /\ UNCHANGED <<log, committed>>

\* KafkaConsumer.commit() without arguments: the positions of all the assigned
\* partitions, in one request.
CommitPositions ==
    /\ committed' = position
    /\ UNCHANGED <<log, position>>

=============================================================================
