---------------------------- MODULE MCStreamCli ----------------------------
(* StreamCli with a counter for the RNG: a draw takes two words of entropy, *)
(* a draw that does not complete may take one.                              *)
EXTENDS StreamCli

CONSTANT Words   \* the RNG states are 0..Words

MCRngStates   == 0..Words
MCDrawn       == [s \in MCRngStates |-> IF s + 2 \in MCRngStates THEN s + 2 ELSE s]
MCInterrupted == [s \in MCRngStates |-> {s + 1} \cap MCRngStates]

MCUsers     == {"hasty", "patient"}
MCStopAfter == [u \in MCUsers |-> IF u = "hasty" THEN {0, 1, 9} ELSE {1, 9}]
MCEvery     == [u \in MCUsers |-> IF u = "hasty" THEN {1, 2} ELSE {1}]
MCUndiagnosable == [u \in MCUsers |-> IF u = "hasty" THEN {2} ELSE {}]
MCUnexportable  == [u \in MCUsers |-> IF u = "hasty" THEN {1} ELSE {}]
MCMaxRuns   == [u \in MCUsers |-> IF u = "hasty" THEN 3 ELSE 5]
=============================================================================
