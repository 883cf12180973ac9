---------------------------- MODULE MCSchemaCache ----------------------------
(* SchemaCache for TLC: objects and readers are interchangeable. *)
EXTENDS SchemaCache, TLC

Symmetry == Permutations(Name) \cup Permutations(Reader)
=============================================================================
