----------------------------- MODULE StreamCli -----------------------------
(***************************************************************************)
(* rmagna's `stream` command over any number of invocations (cli/stream.rs: *)
(* execute, run, advance, checkpoint, report, finish).  An invocation      *)
(* starts a stream or restores one from a checkpoint file, saves it before *)
(* the first draw and after each bounded advance, and reports; it may be   *)
(* killed anywhere, and its user may resume from any file there is.        *)
(*                                                                         *)
(* The stream is the position of the module TaskStream between two draws;  *)
(* the files of one directory are the log of the module CheckpointStore:   *)
(* a publication leaves its file, acknowledged or not, or no file.         *)
(***************************************************************************)
EXTENDS Integers, Sequences, FiniteSets

CONSTANTS
  Shots,           \* --shots
  Seed,            \* --seed, as an RNG state
  RngStates,       \* states of the RNG
  Drawn,           \* RNG state one complete draw leaves, by the state it began in
  Interrupted,     \* RNG states a draw that does not complete may leave
  StopAfter,       \* the values of --stop-after a user gives, by user
  Every,           \* the values of --checkpoint-every a user gives, by user
  Undiagnosable,   \* numbers of rows whose statistics or efficiency cannot be derived, by user
  Unexportable,    \* numbers of rows whose metrics cannot be exported, by user
  MaxRuns,         \* bound: invocations, by user
  MaxFaults        \* bound: kills, failed publications and failed draws

ASSUME RowsAssumption == Shots \in Nat
ASSUME RngAssumption  == /\ Seed \in RngStates
                         /\ Drawn \in [RngStates -> RngStates]
                         /\ Interrupted \in [RngStates -> SUBSET RngStates]
ASSUME OptionsAssumption ==
  \A u \in DOMAIN MaxRuns : StopAfter[u] \subseteq Nat /\ Every[u] \subseteq Nat \ {0}

VARIABLES
  pc,        \* what the running invocation does next; "shell" when none runs
  user,      \* who invokes the command; a patient one resumes from a longest file only
  runs,      \* invocations so far
  faults,    \* faults so far
  resumed,   \* context.saved and context.previous: the file resumed from, or NoFile
  stream,    \* the position of the stream in memory
  stop,      \* --stop-after of this invocation
  every,     \* --checkpoint-every of this invocation
  remaining, \* draws this invocation may still make
  chunk,     \* draws the running advance call has still to make
  index,     \* context.index
  latest,    \* context.latest, the last file acknowledged to this invocation, or NoFile
  terminal,  \* context.terminal_failure is Some
  ok,        \* persistence_ok
  failures,  \* the phases in value["failures"]
  files,     \* the checkpoint files there are
  report     \* the status and file the last invocation ended with

vars == <<pc, user, runs, faults, resumed, stream, stop, every, remaining, chunk, index,
          latest, terminal, ok, failures, files, report>>

invocation == <<user, resumed, stop, every>>

\* A position: the rows committed, the state of the RNG, whether the stream failed.
Fresh     == [rows |-> <<>>, random |-> Seed, failed |-> FALSE]
NoFile    == [run |-> 0]
NoReport  == [status |-> "none"]

Committed == Len(stream.rows)
Running   == ~ stream.failed /\ Committed < Shots
Diagnosed == Committed \notin Undiagnosable[user]

Least(S) == CHOOSE x \in S : \A y \in S : x <= y

\* The file the stream would be saved in now (checkpoint: Saved).
File(acked) == [run |-> runs, index |-> index, position |-> stream,
                terminal |-> terminal, acked |-> acked]

\* Files that may still disappear: their publication was not acknowledged.
Unacknowledged == {f \in files : ~ f.acked}

-----------------------------------------------------------------------------
(* preflight and run, up to the stream.                                    *)

\* Mutant: a saved terminal failure is forgotten.
OpenForgetting(from) ==
  /\ pc = "shell"
  /\ runs < MaxRuns[user]
  /\ runs' = runs + 1
  /\ resumed' = from
  /\ stream' = IF from = NoFile THEN Fresh ELSE from.position
  /\ terminal' = FALSE
  /\ stop' \in StopAfter[user]
  /\ every' \in Every[user]
  /\ remaining' = stop'
  /\ chunk' = 0 /\ index' = 0
  /\ latest' = NoFile
  /\ failures' = {}
  /\ ok' = TRUE
  /\ report' = NoReport
  /\ pc' = "save"
  /\ UNCHANGED <<user, faults, files>>

\* Mutant: the saved position is not restored.
OpenAfresh(from) ==
  /\ pc = "shell"
  /\ runs < MaxRuns[user]
  /\ runs' = runs + 1
  /\ resumed' = from
  /\ stream' = Fresh
  /\ terminal' = FALSE
  /\ stop' \in StopAfter[user]
  /\ every' \in Every[user]
  /\ remaining' = stop'
  /\ chunk' = 0 /\ index' = 0
  /\ latest' = NoFile
  /\ failures' = {}
  /\ ok' = TRUE
  /\ report' = NoReport
  /\ pc' = "save"
  /\ UNCHANGED <<user, faults, files>>

\* A stream from the seed, or restored from a file; a saved terminal failure
\* is terminal for this invocation too.
Open(from) ==
  /\ pc = "shell"
  /\ runs < MaxRuns[user]
  /\ runs' = runs + 1
  /\ resumed' = from
  /\ IF from = NoFile
     THEN stream' = Fresh /\ terminal' = FALSE
     ELSE stream' = from.position /\ terminal' = from.terminal
  /\ stop' \in StopAfter[user]
  /\ every' \in Every[user]
  /\ remaining' = stop'
  /\ chunk' = 0 /\ index' = 0
  /\ latest' = NoFile
  /\ failures' = {}
  /\ ok' = TRUE
  /\ report' = NoReport
  /\ pc' = "save"
  /\ UNCHANGED <<user, faults, files>>

\* A user resumes from any file, a patient one from one with most rows.
Resumable == {f \in files : user = "patient" =>
                \A g \in files : Len(g.position.rows) <= Len(f.position.rows)}

Start == (user = "patient" => files = {}) /\ Open(NoFile)

Resume == \E f \in Resumable : Open(f)

-----------------------------------------------------------------------------
(* checkpoint: saves the stream as it is.                                  *)

Saved ==
  /\ files' = files \cup {File(TRUE)}
  /\ latest' = File(TRUE)
  /\ index' = index + 1
  /\ ok' = TRUE
  /\ UNCHANGED <<faults, failures>>

\* Encoding or publication fails; the file may be there nevertheless.
NotSaved ==
  /\ faults < MaxFaults
  /\ faults' = faults + 1
  /\ files' \in {files, files \cup {File(FALSE)}}
  /\ failures' = failures \cup {"persistence"}
  /\ ok' = FALSE
  /\ UNCHANGED <<latest, index>>

Save ==
  /\ pc = "save"
  /\ Saved \/ NotSaved
  /\ pc' = "loop"
  /\ UNCHANGED <<runs, invocation, stream, remaining, chunk, terminal, report>>

-----------------------------------------------------------------------------
(* advance: the loop of bounded advances.                                  *)

\* Mutant: the loop goes on although the last publication failed.
MayAdvanceUnsaved == ~ terminal /\ Diagnosed /\ remaining > 0 /\ Running

MayAdvance == ok /\ ~ terminal /\ Diagnosed /\ remaining > 0 /\ Running

Advance ==
  /\ pc = "loop"
  /\ MayAdvance
  /\ chunk' = Least({remaining, every, Shots - Committed})
  /\ remaining' = remaining - chunk'
  /\ pc' = "draw"
  /\ UNCHANGED <<runs, faults, invocation, stream, index, latest, terminal, ok, failures,
                 files, report>>

\* stream.advance commits a draw ...
Draw ==
  /\ pc = "draw"
  /\ stream' = [rows   |-> Append(stream.rows, stream.random),
                random |-> Drawn[stream.random],
                failed |-> FALSE]
  /\ chunk' = chunk - 1
  /\ pc' = IF chunk > 1 THEN "draw" ELSE "save"
  /\ UNCHANGED <<runs, faults, invocation, remaining, index, latest, terminal, ok, failures,
                 files, report>>

\* Mutant: the stream a draw unwound from may advance again.
DrawFailsUnnoticed ==
  /\ pc = "draw"
  /\ faults < MaxFaults
  /\ faults' = faults + 1
  /\ \E r \in Interrupted[stream.random] \cup {stream.random, Drawn[stream.random]} :
       stream' = [stream EXCEPT !.random = r]
  /\ chunk' = 0
  /\ pc' = "save"
  /\ UNCHANGED <<runs, invocation, remaining, index, latest, terminal, ok, failures,
                 files, report>>

\* ... or it fails or unwinds, which ends the call and the stream.
DrawFails ==
  /\ pc = "draw"
  /\ faults < MaxFaults
  /\ faults' = faults + 1
  /\ \E r \in Interrupted[stream.random] \cup {stream.random, Drawn[stream.random]} :
       stream' = [rows |-> stream.rows, random |-> r, failed |-> TRUE]
  /\ chunk' = 0
  /\ pc' = "save"
  /\ UNCHANGED <<runs, invocation, remaining, index, latest, terminal, ok, failures,
                 files, report>>

-----------------------------------------------------------------------------
(* report and finish.                                                      *)

Failures == failures \cup (IF stream.failed THEN {"draw"} ELSE {})
                     \cup (IF Diagnosed THEN {} ELSE {"diagnostic"})
                     \cup (IF Committed \in Unexportable[user] THEN {"export"} ELSE {})
                     \cup (IF terminal THEN {"terminal"} ELSE {})

\* Mutant: only failed draws leave a terminal receipt.
ReportDrawsOnly ==
  /\ pc = "loop"
  /\ ~ MayAdvance
  /\ failures' = Failures
  /\ IF "draw" \in Failures /\ ok
     THEN terminal' = TRUE /\ pc' = "receipt"
     ELSE UNCHANGED terminal /\ pc' = "exit"
  /\ UNCHANGED <<runs, faults, invocation, stream, remaining, chunk, index, latest, ok,
                 files, report>>

\* What the run came to; a failure that can still be saved is saved as terminal.
Report ==
  /\ pc = "loop"
  /\ ~ MayAdvance
  /\ failures' = Failures
  /\ IF Failures # {} /\ ok
     THEN terminal' = TRUE /\ pc' = "receipt"
     ELSE UNCHANGED terminal /\ pc' = "exit"
  /\ UNCHANGED <<runs, faults, invocation, stream, remaining, chunk, index, latest, ok,
                 files, report>>

Receipt ==
  /\ pc = "receipt"
  /\ Saved \/ NotSaved
  /\ pc' = "exit"
  /\ UNCHANGED <<runs, invocation, stream, remaining, chunk, terminal, report>>

Exit ==
  /\ pc = "exit"
  /\ report' = [status |-> IF failures # {} \/ ~ ok THEN "failed"
                           ELSE IF Committed = Shots THEN "complete" ELSE "paused",
                file   |-> IF latest # NoFile THEN latest ELSE resumed]
  /\ pc' = "shell"
  /\ UNCHANGED <<runs, faults, invocation, stream, remaining, chunk, index, latest, terminal,
                 ok, failures, files>>

-----------------------------------------------------------------------------
(* Kills and losses of power.                                              *)

\* The file being published may be there.
Kill ==
  /\ pc # "shell"
  /\ faults < MaxFaults
  /\ faults' = faults + 1
  /\ pc' = "shell"
  /\ files' \in {files} \cup
               (IF pc \in {"save", "receipt"} THEN {files \cup {File(FALSE)}} ELSE {})
  /\ UNCHANGED <<runs, invocation, stream, remaining, chunk, index, latest, terminal, ok,
                 failures, report>>

\* Files whose publication was not acknowledged may be lost.
LosePower ==
  /\ faults < MaxFaults
  /\ faults' = faults + 1
  /\ pc' = "shell"
  /\ \E lost \in SUBSET Unacknowledged : lost # {} /\ files' = files \ lost
  /\ UNCHANGED <<runs, invocation, stream, remaining, chunk, index, latest, terminal, ok,
                 failures, report>>

Init ==
  /\ pc = "shell" /\ runs = 0 /\ faults = 0
  /\ user \in DOMAIN MaxRuns
  /\ resumed = NoFile /\ stop = 0 /\ every = 1
  /\ stream = Fresh
  /\ remaining = 0 /\ chunk = 0 /\ index = 0
  /\ latest = NoFile /\ terminal = FALSE /\ ok = TRUE /\ failures = {}
  /\ files = {}
  /\ report = NoReport

\* The program's own steps, and its environment's.
Program == Save \/ Advance \/ Draw \/ Report \/ Receipt \/ Exit
Next    == Start \/ Resume \/ Program \/ DrawFails \/ Kill \/ LosePower

Spec == Init /\ [][Next]_vars

\* A running invocation goes on, and a user whose stream is not at its end
\* invokes the command again.
FairSpec == Spec /\ WF_vars(Program) /\ WF_vars(Start \/ Resume)

-----------------------------------------------------------------------------
(* Properties.                                                             *)

\* Draws never run ahead of the disk: while one is made, a file of this very
\* invocation is there to stay, and what a kill would lose, counting the
\* whole advance under way, is at most --checkpoint-every draws.
WriteAhead ==
  /\ latest # NoFile => latest \in files /\ latest.run = runs
  /\ pc = "draw" => /\ latest # NoFile
                    /\ Committed + chunk <= Len(latest.position.rows) + every

\* Nothing is ever drawn from a file that was saved after a failure: neither a
\* failed draw nor a receipt of a diagnostic or export failure is drawn on,
\* by this invocation or by those that resume from its files.
TerminalNeverDrawn ==
  resumed # NoFile /\ (resumed.terminal \/ resumed.position.failed) =>
    /\ stream = resumed.position
    /\ \A f \in files : f.run = runs => f.position = resumed.position

\* What a report says of the stream, the file it names says too: complete and
\* paused streams are saved as reported, and a failure that is not one of
\* saving has left a file that is terminal.
HonestReport ==
  report # NoReport =>
    /\ report.status = "complete" =>
         /\ report.file \in files /\ ~ report.file.terminal
         /\ report.file.position = stream /\ ~ stream.failed
         /\ Committed = Shots /\ Diagnosed /\ Committed \notin Unexportable[user]
    /\ report.status = "paused" =>
         /\ report.file \in files /\ ~ report.file.terminal
         /\ report.file.position = stream /\ ~ stream.failed
         /\ Diagnosed /\ Committed \notin Unexportable[user]
    /\ report.status = "failed" /\ "persistence" \notin failures =>
         report.file \in files /\ report.file.terminal /\ report.file.position = stream

Sampling == INSTANCE ExactSampling WITH
  current <- IF pc = "shell" THEN [live |-> FALSE] ELSE stream,
  saved   <- {f.position : f \in files}

\* However often the command is stopped, killed and resumed, and from whichever
\* files, all of it is one exact sampling run from the seed.
Implements == Sampling!Spec

\* A patient user, who resumes a longest file and a positive number of draws at a time,
\* is told of a complete stream or of a failure: no schedule of kills and lost
\* files, bounded as they are, starves the stream.
Completes == user = "patient" => <>(report.status \in {"complete", "failed"})
=============================================================================
