------------------------------ MODULE BenchRun ------------------------------
(***************************************************************************)
(* `rsinter bench run` over one output directory (rsinter/src/bench/       *)
(* run.rs, with merge.rs), invoked any number of times, with and without   *)
(* --resume, and killed at any file operation.                             *)
(*                                                                         *)
(* A row of results.jsonl is its identity (here: the point it is of), its  *)
(* status, the number of samplings its additive metrics sum up and the     *)
(* invocation that last wrote to it.  A sampling is seeded by the point,   *)
(* so two of them are the same shots.                                      *)
(***************************************************************************)
EXTENDS Integers, Sequences, FiniteSets

CONSTANTS
  Runners,     \* the number of runners of the language; they are run in order
  Points,      \* the points of each runner
  Specs,       \* the sequences of points the specification may expand to
  Unplanned,   \* points whose plan_point_identity is an error
  MaxRuns,     \* bound: invocations
  MaxErrors,   \* bound: points that fail and plans that are refused
  MaxKills     \* bound: kills

\* With no runner of the language nothing is written at all: left out.
ASSUME RunnersAssumption == Runners \in Nat \ {0}

\* A specification that lists a value twice is left out: the rows of its two
\* points of one identity are both kept, and added up once it is resumed.
ASSUME SpecsAssumption ==
  /\ Specs \subseteq Seq(Points) /\ Unplanned \subseteq Points
  /\ \A s \in Specs : \A i, j \in 1..Len(s) : s[i] = s[j] => i = j

VARIABLES
  pc,        \* where the invocation is; "shell" when none runs
  resume,    \* options.resume
  spec,      \* the points of this invocation
  runner,    \* the runner at work
  loaded,    \* resume_rows
  next,      \* the point at work
  fresh,     \* fresh_rows
  artifact,  \* test-run of each runner
  staging,   \* test-run.tmp of each runner exists
  outcome,   \* of the last invocation that was not killed
  runs, errors, kills

vars == <<pc, resume, spec, runner, loaded, next, fresh, artifact, staging, outcome,
          runs, errors, kills>>

\* A row: the status of its point, "none" before it has one, the samplings it sums up and the
\* invocation that made it.
NoRow   == [status |-> "none", samples |-> 0, run |-> 0]
Nothing == [p \in Points |-> NoRow]

\* A directory with its two files; a row file that is not there reads as no rows.
Empty == [manifest |-> FALSE, results |-> FALSE, rows |-> Nothing]

\* What remove_dir_all may have left of directory d when it is interrupted.
Remnants(d) == {d, [d EXCEPT !.manifest = FALSE],
                [Empty EXCEPT !.manifest = d.manifest], Empty}

Ok(row)   == row.status = "ok"
Asked     == {spec[i] : i \in 1..Len(spec)}

-----------------------------------------------------------------------------
Invoke ==
  /\ pc = "shell"
  /\ runs < MaxRuns
  /\ runs' = runs + 1
  /\ resume' \in BOOLEAN
  /\ spec' \in Specs
  /\ runner' = 1
  /\ loaded' = [r \in 1..Runners |-> Nothing]
  /\ next' = 1
  /\ fresh' = Nothing
  /\ outcome' = "none"
  /\ pc' = IF resume' THEN "plan" ELSE "clear"
  /\ UNCHANGED <<artifact, staging, errors, kills>>

\* clear_rust_run_artifacts, one runner at a time.
Clear ==
  /\ pc = "clear"
  /\ artifact' = [artifact EXCEPT ![runner] = Empty]
  /\ staging' = [staging EXCEPT ![runner] = FALSE]
  /\ IF runner = Runners THEN runner' = 1 /\ pc' = "plan"
                         ELSE runner' = runner + 1 /\ pc' = "clear"
  /\ UNCHANGED <<resume, spec, loaded, next, fresh, outcome, runs, errors, kills>>

\* An error: `?` leaves run_rust_benchmark_with_options.
Fail ==
  /\ errors < MaxErrors
  /\ errors' = errors + 1
  /\ outcome' = "error"
  /\ pc' = "shell"

\* plan_rust_runs finds an unknown runner, or a point its preflight refuses.
PlanFails ==
  /\ pc = "plan"
  /\ Fail
  /\ UNCHANGED <<resume, spec, runner, loaded, next, fresh, artifact, staging, runs, kills>>

\* load_resume_rows reads every runner's rows before the first one is run.
Plan ==
  /\ pc = "plan"
  /\ loaded' = [r \in 1..Runners |-> IF resume THEN artifact[r].rows ELSE Nothing]
  /\ pc' = "begin"
  /\ UNCHANGED <<resume, spec, runner, next, fresh, artifact, staging, outcome, runs, errors,
                 kills>>

\* The staging directory of an interrupted invocation is removed.
Begin ==
  /\ pc = "begin"
  /\ staging' = [staging EXCEPT ![runner] = FALSE]
  /\ next' = 1
  /\ fresh' = Nothing
  /\ pc' = "points"
  /\ UNCHANGED <<resume, spec, runner, loaded, artifact, outcome, runs, errors, kills>>

\* Mutant: a row of any status counts as completed.
CompletedAny(p) == p \notin Unplanned /\ loaded[runner][p] # NoRow

\* Mutant: completed rows are not skipped.
CompletedNever(p) == FALSE

\* completed.contains(plan_point_identity(p)).
Completed(p) == p \notin Unplanned /\ Ok(loaded[runner][p])

\* A completed point is not run again.
Skip ==
  /\ pc = "points"
  /\ next <= Len(spec)
  /\ Completed(spec[next])
  /\ next' = next + 1
  /\ UNCHANGED <<pc, resume, spec, runner, loaded, fresh, artifact, staging, outcome, runs,
                 errors, kills>>

\* run_point returns a row, perhaps of a failure.
Run ==
  /\ pc = "points"
  /\ next <= Len(spec)
  /\ ~ Completed(spec[next])
  /\ \/ /\ fresh' = [fresh EXCEPT ![spec[next]] = [status |-> "ok", samples |-> 1, run |-> runs]]
        /\ UNCHANGED errors
     \/ /\ errors < MaxErrors
        /\ errors' = errors + 1
        /\ fresh' = [fresh EXCEPT ![spec[next]] = [status |-> "error", samples |-> 0, run |-> runs]]
  /\ next' = next + 1
  /\ UNCHANGED <<pc, resume, spec, runner, loaded, artifact, staging, outcome, runs, kills>>

\* Mutant: the error path removes the artifacts of the runner at work.
RunFailsRemoving ==
  /\ pc = "points"
  /\ next <= Len(spec)
  /\ ~ Completed(spec[next])
  /\ Fail
  /\ artifact' = [artifact EXCEPT ![runner] = Empty]
  /\ UNCHANGED <<resume, spec, runner, loaded, next, fresh, staging, runs, kills>>

\* run_point returns an error: the fresh rows of this runner are gone with it.
RunFails ==
  /\ pc = "points"
  /\ next <= Len(spec)
  /\ ~ Completed(spec[next])
  /\ Fail
  /\ UNCHANGED <<resume, spec, runner, loaded, next, fresh, artifact, staging, runs, kills>>

\* drop_replaced_incomplete_rows: a row that is not ok gives way to a fresh one.
Retained == [p \in Points |-> IF fresh[p] # NoRow /\ ~ Ok(loaded[runner][p])
                              THEN NoRow ELSE loaded[runner][p]]

\* merge_result_rows refuses two rows of one identity that differ in status ...
Conflict == \E p \in Points : Retained[p] # NoRow /\ fresh[p] # NoRow
                              /\ Retained[p].status # fresh[p].status

\* ... and adds up the additive metrics of two that agree.
Merged == [p \in Points |->
             IF fresh[p] = NoRow THEN Retained[p]
             ELSE [status  |-> fresh[p].status,
                   samples |-> Retained[p].samples + fresh[p].samples,
                   run     |-> fresh[p].run]]

MergeFails ==
  /\ pc = "points"
  /\ next > Len(spec)
  /\ Conflict
  /\ outcome' = "error"
  /\ pc' = "shell"
  /\ UNCHANGED <<resume, spec, runner, loaded, next, fresh, artifact, staging, runs, errors,
                 kills>>

\* The rows are written to the staging directory.
Stage ==
  /\ pc = "points"
  /\ next > Len(spec)
  /\ ~ Conflict
  /\ staging' = [staging EXCEPT ![runner] = TRUE]
  /\ pc' = "remove"
  /\ UNCHANGED <<resume, spec, runner, loaded, next, fresh, artifact, outcome, runs, errors,
                 kills>>

\* remove_dir_all(&artifact_dir).
Remove ==
  /\ pc = "remove"
  /\ artifact' = [artifact EXCEPT ![runner] = Empty]
  /\ pc' = "rename"
  /\ UNCHANGED <<resume, spec, runner, loaded, next, fresh, staging, outcome, runs, errors,
                 kills>>

\* rename(&staging_dir, &artifact_dir), and on to the next runner.
Rename ==
  /\ pc = "rename"
  /\ artifact' = [artifact EXCEPT ![runner] =
                    [manifest |-> TRUE, results |-> TRUE, rows |-> Merged]]
  /\ staging' = [staging EXCEPT ![runner] = FALSE]
  /\ IF runner = Runners THEN pc' = "shell" /\ outcome' = "ok" /\ UNCHANGED runner
                         ELSE pc' = "begin" /\ runner' = runner + 1 /\ UNCHANGED outcome
  /\ UNCHANGED <<resume, spec, loaded, next, fresh, runs, errors, kills>>

\* The process is killed, or one of its file operations fails; a directory being
\* removed is left in part, a staging directory being written too.
Kill ==
  /\ pc # "shell"
  /\ kills < MaxKills
  /\ kills' = kills + 1
  /\ pc' = "shell"
  /\ IF pc \in {"clear", "remove"}
     THEN \E left \in Remnants(artifact[runner]) : artifact' = [artifact EXCEPT ![runner] = left]
     ELSE UNCHANGED artifact
  /\ IF pc = "points" /\ next > Len(spec)
     THEN \E there \in BOOLEAN : staging' = [staging EXCEPT ![runner] = there]
     ELSE UNCHANGED staging
  /\ outcome' = "none"
  /\ UNCHANGED <<resume, spec, runner, loaded, next, fresh, runs, errors>>

Init ==
  /\ pc = "shell" /\ resume = FALSE /\ spec = <<>> /\ runner = 1
  /\ loaded = [r \in 1..Runners |-> Nothing]
  /\ next = 1 /\ fresh = Nothing
  /\ artifact = [r \in 1..Runners |-> Empty]
  /\ staging = [r \in 1..Runners |-> FALSE]
  /\ outcome = "none"
  /\ runs = 0 /\ errors = 0 /\ kills = 0

Next ==
  \/ Invoke \/ Clear \/ PlanFails \/ Plan \/ Begin
  \/ Skip \/ Run \/ RunFails \/ MergeFails \/ Stage \/ Remove \/ Rename
  \/ Kill

Spec == Init /\ [][Next]_vars

-----------------------------------------------------------------------------
(* Properties.                                                             *)

\* No sampling is counted twice: however often a campaign is resumed, the
\* metrics of a row sum up one seeded sampling of its point.
SampledOnce ==
  \A r \in 1..Runners : \A p \in Points \ Unplanned : artifact[r].rows[p].samples <= 1

\* An invocation that reports success leaves every runner a whole directory
\* with a row for each point asked for: one that was completed before, the same
\* as it was, or one that this invocation made, and never an older failure.
SuccessIsComplete ==
  outcome = "ok" =>
    \A r \in 1..Runners :
      /\ artifact[r].manifest /\ artifact[r].results
      /\ \A p \in Asked :
           IF Ok(loaded[r][p]) /\ p \notin Unplanned
           THEN artifact[r].rows[p] = loaded[r][p]
           ELSE artifact[r].rows[p].run = runs

\* A completed row is lost only by an invocation without --resume, or between
\* the removal of the old directory and the renaming of the new one.
LostOnlyInTheSwap ==
  [][\A r \in 1..Runners : \A p \in Points :
       Ok(artifact[r].rows[p]) /\ ~ Ok(artifact'[r].rows[p]) =>
         pc \in {"clear", "remove"} /\ r = runner]_vars

\* benchmarks/surface_decoder_compare/README.md:104-107: an interrupted
\* artifact directory is resumed, its completed rows preserved and skipped.
\* So a resuming invocation, however it ends, leaves the rows that were
\* completed when it began.
InterruptionPreserves ==
  [][resume /\ pc # "shell" /\ pc' = "shell" =>
       \A r \in 1..Runners : \A p \in Points :
         Ok(loaded[r][p]) => Ok(artifact'[r].rows[p])]_vars
=============================================================================
