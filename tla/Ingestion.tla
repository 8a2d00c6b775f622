------------------------------ MODULE Ingestion ------------------------------
(***************************************************************************)
(* What the daily cycle promises, independently of headers, archives, state *)
(* files, retries and crashes: the rows of the versions a provider          *)
(* publishes reach the topic at least once, a version is recorded as        *)
(* produced after all of its rows, and only the version that is recorded is *)
(* skipped (ingestion/state.py:1-13).  What was recorded may be forgotten.  *)
(***************************************************************************)
EXTENDS Integers

CONSTANTS
    Versions,       \* 1, 2, ...: the versions a provider may publish
    RowNumbers      \* the rows of a file

VARIABLES
    published,      \* the version the provider serves
    wanted,         \* messages <<version, row>>: the good rows of every version
    delivered,      \* messages that have been on the topic
    abandoned,      \* messages whose delivery the client gave up on
    produced,       \* the version recorded as produced, 0 if there is none
    skipping        \* the version the running cycle decided to skip, or 0

vars == <<published, wanted, delivered, abandoned, produced, skipping>>

RowsOf(v) == {m \in wanted : m[1] = v}

Init ==
    /\ published = 1
    /\ wanted \in SUBSET (Versions \X RowNumbers)
    /\ delivered = {}
    /\ abandoned = {}
    /\ produced = 0
    /\ skipping = 0

Publish ==
    /\ published' = published + 1
    /\ UNCHANGED <<wanted, delivered, abandoned, produced, skipping>>

\* Rows of one version reach the topic, some of them perhaps again, but none after
\* those of a later version, and none once a version is recorded as produced.
Deliver ==
    /\ produced = 0
    /\ \E v \in Versions : \E rows \in SUBSET RowsOf(v) :
        /\ v <= published
        /\ \A m \in delivered : m[1] <= v
        /\ delivered' = delivered \union rows
    /\ UNCHANGED <<published, wanted, abandoned, produced, skipping>>

Abandon ==
    /\ produced = 0
    /\ \E m \in wanted :
        /\ m[1] <= published
        /\ abandoned' = abandoned \union {m}
    /\ UNCHANGED <<published, wanted, delivered, produced, skipping>>

\* A version is recorded when each of its rows was delivered or given up on.
Complete ==
    /\ produced = 0
    /\ produced' \in Versions
    /\ produced' <= published
    /\ RowsOf(produced') \subseteq delivered \union abandoned
    /\ UNCHANGED <<published, wanted, delivered, abandoned, skipping>>

\* A cycle is skipped when the version served is the one that is recorded.
Skip ==
    /\ produced = published
    /\ skipping' = published
    /\ UNCHANGED <<published, wanted, delivered, abandoned, produced>>

EndSkip ==
    /\ skipping' = 0
    /\ UNCHANGED <<published, wanted, delivered, abandoned, produced>>

\* Another version is being worked on, the record is torn, or the disk is a new one.
Forget ==
    /\ produced' = 0
    /\ skipping' = 0
    /\ UNCHANGED <<published, wanted, delivered, abandoned>>

Next == Publish \/ Deliver \/ Abandon \/ Complete \/ Skip \/ EndSkip \/ Forget

Spec == Init /\ [][Next]_vars

-----------------------------------------------------------------------------

\* A version that is recorded, or skipped, was published and none of its rows is
\* missing from the topic, but for those the client gave up on; and nothing else
\* ever got there.
Handled(v) == v <= published /\ RowsOf(v) \subseteq delivered \union abandoned

SettledIsHandled ==
    /\ produced # 0 => Handled(produced)
    /\ skipping # 0 => Handled(skipping)
    /\ delivered \union abandoned \subseteq {m \in wanted : m[1] <= published}

=============================================================================
