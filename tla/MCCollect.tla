------------------------------ MODULE MCCollect ------------------------------
(* Collect with two tasks, over two calls.                                   *)
EXTENDS Collect
=============================================================================
