----------------------------- MODULE ExactlyOnce -----------------------------
(***************************************************************************)
(* What the lake promises about the topic, independently of offsets, batch  *)
(* files, snapshots and passes: every accepted message reaches silver, once *)
(* (ADR-004: at-least-once delivery, then deduplication on the message).    *)
(* The one excuse is a writer that could not read the keys of silver.       *)
(***************************************************************************)
EXTENDS Integers

CONSTANT Messages

VARIABLES
    accepted,       \* messages on the topic that a SalesRecord can be built from
    copies,         \* copies[m]: records of silver made from m
    excused         \* some writer started without the keys of silver

vars == <<accepted, copies, excused>>

Init ==
    /\ accepted = {}
    /\ copies = [m \in Messages |-> 0]
    /\ excused = FALSE

Accept ==
    /\ \E m \in Messages \ accepted : accepted' = accepted \union {m}
    /\ UNCHANGED <<copies, excused>>

\* Some accepted messages join silver: new ones only, unless excused.
Curate ==
    /\ \E rows \in SUBSET accepted :
        /\ excused \/ \A m \in rows : copies[m] = 0
        /\ copies' = [m \in Messages |-> IF m \in rows THEN copies[m] + 1 ELSE copies[m]]
    /\ UNCHANGED <<accepted, excused>>

LoseKeys ==
    /\ excused' = TRUE
    /\ UNCHANGED <<accepted, copies>>

\* Without the keys, a record may be opened to be written once more.
Reopen ==
    /\ excused
    /\ \E m \in accepted :
        /\ copies[m] > 0
        /\ copies' = [copies EXCEPT ![m] = @ - 1]
    /\ UNCHANGED <<accepted, excused>>

Next == Accept \/ Curate \/ LoseKeys \/ Reopen

Spec == Init /\ [][Next]_vars

-----------------------------------------------------------------------------

TypeOK ==
    /\ accepted \subseteq Messages
    /\ copies \in [Messages -> Nat]
    /\ excused \in BOOLEAN

\* Silver holds accepted messages only, and each at most once: "no duplicate
\* records appear in silver even if the consumer replays messages" (ADR-004:30).
AtMostOnce ==
    \A m \in Messages :
        /\ copies[m] > 0 => m \in accepted
        /\ ~excused => copies[m] <= 1

\* "No record is lost in transit" (ADR-004:11): each is in silver in the end, and
\* then stays there.
AllArrive == \A m \in Messages : (m \in accepted) ~> [](copies[m] > 0)

=============================================================================
