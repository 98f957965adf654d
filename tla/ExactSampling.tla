--------------------------- MODULE ExactSampling ---------------------------
(***************************************************************************)
(* What a sampling stream promises, whoever holds it and however often it  *)
(* is interrupted: there is one sequence of draws, the uninterrupted run   *)
(* from the seed.  A live position in it moves forward one draw at a time  *)
(* or fails for good; saved positions are positions that were live, and    *)
(* resuming one continues the same sequence.  (rmagna/README.md, sections  *)
(* on streams; the modules TaskStream and StreamCli implement this one.)   *)
(***************************************************************************)
EXTENDS Integers, Sequences

CONSTANTS
  Shots,        \* draws of the whole run
  Seed,         \* RNG state it begins in
  RngStates,    \* states of the RNG
  Drawn,        \* RNG state one complete draw leaves, by the state it began in
  Interrupted   \* RNG states a draw that does not complete may leave

VARIABLES
  current,      \* the live position, or Lost
  saved         \* the positions that can be resumed

vars == <<current, saved>>

Positions == [rows : Seq(RngStates), random : RngStates, failed : BOOLEAN]
Lost      == [live |-> FALSE]
Fresh     == [rows |-> <<>>, random |-> Seed, failed |-> FALSE]

\* The live position can make another draw.
Live == current # Lost /\ ~ current.failed /\ Len(current.rows) < Shots

Init == current = Lost /\ saved = {}

Begin == current = Lost /\ current' = Fresh /\ UNCHANGED saved

Resume == current = Lost /\ current' \in saved /\ UNCHANGED saved

Draw ==
  /\ Live
  /\ current' = [rows   |-> Append(current.rows, current.random),
                 random |-> Drawn[current.random],
                 failed |-> FALSE]
  /\ UNCHANGED saved

\* The draw in progress fails: its rows stay, its entropy is spent.
Fail ==
  /\ Live
  /\ \E r \in Interrupted[current.random] \cup {current.random, Drawn[current.random]} :
       current' = [rows |-> current.rows, random |-> r, failed |-> TRUE]
  /\ UNCHANGED saved

\* The live position is saved; earlier ones may be given up by their owner.
Save ==
  /\ current # Lost
  /\ saved' \in SUBSET (saved \cup {current})
  /\ UNCHANGED current

\* Whoever holds the position is gone, perhaps while saving it.
Lose == current' = Lost /\ saved' \in SUBSET (saved \cup ({current} \ {Lost}))

Next == Begin \/ Resume \/ Draw \/ Fail \/ Save \/ Lose

Spec == Init /\ [][Next]_vars
=============================================================================
