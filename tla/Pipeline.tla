------------------------------ MODULE Pipeline ------------------------------
(***************************************************************************)
(* consumer_bronze and transformer_silver, two containers that share the    *)
(* bronze layer and nothing else (docker-compose.yml), each killed and      *)
(* restarted on its own.  The steps are those of the two modules; here they *)
(* are interleaved, with the consumer in the place of BronzeChanges.        *)
(***************************************************************************)
EXTENDS ConsumerBronze, SilverTransform

VARIABLES
    silverFiles, silverTable,           \* the silver layer
    silverPc,                           \* where the transformer is
    unread, todo, tail,                 \* its reader
    seen, known, merged, writing,       \* its writer: merged is the buffer
    total, last,                        \* its loop
    blind, stable,                      \* its history
    due             \* history: the messages committed when the pass began

\* Sales whose figures fit the columns of silver.
Ordinary == [m \in Messages |-> [c \in AmountColumns |-> 0]]

Silver == INSTANCE SilverTransformer
    WITH pc <- silverPc, buffer <- merged, Amounts <- Ordinary,
         changes <- 0, MaxChanges <- 0

consumerVars == <<topicVars, buffer, target, serviceVars>>
passVars == <<silverFiles, silverTable, silverPc, unread, todo, tail, seen, known, merged,
              writing, total, last, blind>>
transformerVars == <<passVars, stable, due>>
pipelineVars == <<vars, transformerVars>>

PipelineTypeOK == TypeOK /\ Silver!TypeOK /\ due \subseteq Messages

PipelineInit ==
    /\ Init
    /\ Silver!Init
    /\ due = {}

\* A step of the consumer or of the producers, seen by the pass in progress.
Consuming ==
    /\ stable' = {n \in stable : mode = "local" => files'[n] = files[n]}
    /\ UNCHANGED <<passVars, due>>

\* A step of the transformer.
Transforming ==
    /\ due' = IF Silver!Start THEN Valid \intersect Below(committed) ELSE due
    /\ UNCHANGED consumerVars

PipelineNext ==
    \/ Next /\ Consuming
    \/ (Silver!Progress \/ Silver!Failure) /\ Transforming

PipelineSpec == PipelineInit /\ [][PipelineNext]_pipelineVars

\* Both containers always restart, and neither waits for the other.
PipelineFairSpec ==
    /\ PipelineSpec
    /\ WF_pipelineVars(Progress /\ Consuming)
    /\ WF_pipelineVars(Silver!Progress /\ Transforming)

-----------------------------------------------------------------------------
(* Properties. *)

\* A pass that ends normally leaves in silver every message that was committed
\* when it began, although the consumer truncates and rewrites batch files under
\* the reader: what the group has passed is never out of the transformer's sight.
CommittedGetsThrough == silverPc = "done" => due \subseteq Silver!Silver

\* The two services together keep the promise of ExactlyOnce.
Promise == INSTANCE ExactlyOnce
    WITH accepted <- Valid,
         copies <- [m \in Messages |-> Silver!RecordsOf(m)],
         excused <- blind

\* At most once: every step of the services is a step of the promise.
ImplementsExactlyOnce == Promise!Spec

\* At least once: "no record is lost in transit" (ADR-004:11), on to silver.
AllReachSilver == Promise!AllArrive

\* Every valid message gets to silver and stays there, through crashes, failed
\* writes and half-written files of either service, if in the end no batch file is
\* left cut off.
AllReachSilverUnlessTorn ==
    <>[](\A n \in Messages : files[n].tail = "whole") => AllReachSilver

-----------------------------------------------------------------------------
(* The inductive invariants behind these properties.                         *)

\* Nothing but valid messages is buffered, written or read anywhere.
RowsAreValid ==
    /\ OffsetsOrdered
    /\ BronzeIsValid
    /\ buffer \union todo \union merged \subseteq Valid

ServicesInv == RowsAreValid /\ Silver!SilverInv

\* While a pass runs, every message that was committed when it began is in an object
\* of bronze that the pass has taken note of, or will when it lists the files; the
\* consumer leaves that object alone, for a local one is named below its commits.
DueIsInSight ==
    silverPc \notin {"stopped", "failed"} =>
        \A m \in due :
            \/ /\ mode = "local"
               /\ \E n \in Below(committed) :
                    /\ m \in files[n].rows
                    /\ silverPc \in {"reading", "flushing", "done"} => n \in stable
            \/ mode = "cloud" /\ \E n \in stable : m \in snapshots[n]

SightInv ==
    /\ SafetyInv
    /\ BronzeFollowsMode
    /\ DueIsInSight

=============================================================================
