--------------------------- MODULE MCMappingEngine ---------------------------
(* MappingEngine on small forests, for TLC. *)
EXTENDS MappingEngine
=============================================================================
