-------------------------- MODULE MCIngestionCycle --------------------------
(* Model values for IngestionCycle. *)
EXTENDS IngestionCycle

AllRows == {"good", "skipped", "halting"}
GoodOnly == {"good"}
DistinctLengths == [v \in Versions |-> v]

=============================================================================
