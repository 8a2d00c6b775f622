-------------------------- MODULE MCConsumerBronze --------------------------
(* Model values for ConsumerBronze. *)
EXTENDS ConsumerBronze

AllKinds == {"valid", "invalid", "garbled"}
ReadableKinds == {"valid", "invalid"}
ValidOnly == {"valid"}

NoMode == {}
CloudOnly == {"cloud"}
LocalOnly == {"local"}

=============================================================================
