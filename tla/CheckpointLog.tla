--------------------------- MODULE CheckpointLog ---------------------------
(***************************************************************************)
(* What a checkpoint directory promises its user: a numbered log whose     *)
(* entries appear whole, are never replaced, and once acknowledged are     *)
(* never lost.  Only the one entry that was not acknowledged yet may be    *)
(* there or not, and may disappear.  (rmagna/README.md, "Durable CLI       *)
(* sampling streams"; the module CheckpointStore implements this one.)     *)
(***************************************************************************)
EXTENDS Integers

CONSTANTS
  Writers,   \* who may write the log
  LastIndex  \* bound: the last entry's number

VARIABLES
  entry,     \* the writer of each visible entry, or NoEntry
  acked      \* the entries 0..acked-1 have been acknowledged

vars == <<entry, acked>>

NoEntry == "absent"
Indices == 0..LastIndex

Init == entry = [k \in Indices |-> NoEntry] /\ acked = 0

\* The next entry appears, all at once.
Appear ==
  /\ acked \in Indices
  /\ entry[acked] = NoEntry
  /\ \E w \in Writers : entry' = [entry EXCEPT ![acked] = w]
  /\ UNCHANGED acked

\* Its writer learns that it will stay.
Acknowledge ==
  /\ acked \in Indices
  /\ entry[acked] # NoEntry
  /\ acked' = acked + 1
  /\ UNCHANGED entry

\* An entry nobody was promised disappears.
Disappear ==
  /\ acked \in Indices
  /\ entry' = [entry EXCEPT ![acked] = NoEntry]
  /\ UNCHANGED acked

Next == Appear \/ Acknowledge \/ Disappear

Spec == Init /\ [][Next]_vars
=============================================================================
