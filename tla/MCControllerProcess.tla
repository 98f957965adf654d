------------------------ MODULE MCControllerProcess ------------------------
(* ControllerProcess with two callers of two calls each, one more than there *)
(* are request ids.                                                          *)
EXTENDS ControllerProcess
=============================================================================
