----------------------------- MODULE MCPipeline -----------------------------
(* Model values for Pipeline. *)
EXTENDS Pipeline

ReadableKinds == {"valid", "invalid"}
ValidOnly == {"valid"}

NoMode == {}
CloudOnly == {"cloud"}

=============================================================================
