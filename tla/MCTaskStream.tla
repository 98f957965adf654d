---------------------------- MODULE MCTaskStream ----------------------------
(* TaskStream with a counter for the RNG: a draw takes two words of entropy, *)
(* an interrupted one takes one or two.                                      *)
EXTENDS TaskStream

CONSTANT Words   \* the RNG states are 0..Words

MCRngStates   == 0..Words
MCDrawn       == [s \in MCRngStates |-> IF s + 2 \in MCRngStates THEN s + 2 ELSE s]
MCInterrupted == [s \in MCRngStates |-> {s + 1, s + 2} \cap MCRngStates]
=============================================================================
