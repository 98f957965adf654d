---------------------------- MODULE MCEventQueue ----------------------------
(* EventQueue with two items, and cyclic times of three bits, past their end. *)
EXTENDS EventQueue
=============================================================================
