------------------------- MODULE MCCheckpointStore -------------------------
(* CheckpointStore with invocations that were all given the same directory. *)
EXTENDS CheckpointStore

CONSTANTS a, b, c
=============================================================================
