------------------------------- MODULE Collect -------------------------------
(***************************************************************************)
(* rsinter's collect (rsinter/src/collect.rs): tasks sampled in parallel   *)
(* batches up to a number of shots, of errors or of seconds, their totals  *)
(* saved in one CSV file (csv_io.rs) that a later call resumes from.       *)
(*                                                                         *)
(* A task is its strong_id.  The tasks of a call are distinct.  What was   *)
(* sampled is a number; seconds are whole.                                 *)
(***************************************************************************)
EXTENDS Integers, FiniteSets

CONSTANTS
  Tasks,       \* strong ids
  ShotLimits,  \* the values of max_shots calls are given
  MaxErrors,   \* max_errors
  MaxSeconds,  \* max_wall_seconds
  StartBatch,  \* start_batch_size, of which zero would end every task at once
  MaxBatch,    \* max_batch_size, likewise
  MaxCalls,    \* bound: calls
  MaxFaults    \* bound: failed batches and compilations, refused calls, kills

ASSUME LimitsAssumption == /\ ShotLimits \subseteq Nat
                           /\ MaxErrors \in Nat /\ MaxSeconds \in Nat \ {0}
ASSUME BatchAssumption  == StartBatch \in Nat \ {0} /\ MaxBatch \in Nat \ {0}

VARIABLES
  pc,        \* "shell", "collecting", or "writing"
  list,      \* the tasks of this call
  maxShots,  \* max_shots of this call
  existing,  \* the totals it resumes from
  total,     \* total_shots, total_errors, total_seconds of each task at work
  batch,     \* batch_size of each
  result,    \* failure_kind of each task that is done, or "none"
  file,      \* the CSV file
  sampled,   \* shots ever sampled for each task
  calls, faults

vars == <<pc, list, maxShots, existing, total, batch, result, file, sampled, calls, faults>>

Zero == [shots |-> 0, errors |-> 0, seconds |-> 0]
NoTasks == [t \in Tasks |-> Zero]

\* A file that read_csv can read, with the tasks it has rows of; a torn one is not readable.
NoFile == [readable |-> TRUE, tasks |-> {}, row |-> NoTasks]

Least(x, y) == IF x < y THEN x ELSE y

\* The first batch is not cut to max_batch_size.
LargestBatch == IF StartBatch > MaxBatch THEN StartBatch ELSE MaxBatch

Fault == faults < MaxFaults /\ faults' = faults + 1

-----------------------------------------------------------------------------
\* The call loads what was saved; tasks it has no row of begin at zero.
Call ==
  /\ pc = "shell"
  /\ calls < MaxCalls
  /\ file.readable
  /\ calls' = calls + 1
  /\ list' \in SUBSET Tasks \ {{}}
  /\ maxShots' \in ShotLimits
  /\ existing' = file.row
  /\ total' = [t \in Tasks |-> IF t \in list' THEN file.row[t] ELSE Zero]
  /\ batch' = [t \in Tasks |-> StartBatch]
  /\ result' = [t \in Tasks |-> "none"]
  /\ pc' = "collecting"
  /\ UNCHANGED <<file, sampled, faults>>

AtWork(t) == pc = "collecting" /\ t \in list /\ result[t] = "none"

\* should_continue_collecting.
Under(t) == /\ total[t].shots < maxShots
            /\ total[t].errors < MaxErrors
            /\ total[t].seconds < MaxSeconds

\* Mutant: the last batch is not cut to what remains.
WholeBatch(t) == batch[t]

Size(t) == Least(batch[t], maxShots - total[t].shots)

Grown(b) == Least(2 * b, MaxBatch)

Took(t, seconds) == [total[t] EXCEPT !.seconds = @ + seconds]

\* A batch is sampled and decoded.
Batch(t) ==
  /\ AtWork(t)
  /\ Under(t) /\ Size(t) > 0
  /\ \E errors \in 0..Size(t) : \E seconds \in 0..1 :
       total' = [total EXCEPT ![t] = [Took(t, seconds) EXCEPT !.shots = @ + Size(t),
                                                             !.errors = @ + errors]]
  /\ sampled' = [sampled EXCEPT ![t] = @ + Size(t)]
  /\ batch' = [batch EXCEPT ![t] = Grown(@)]
  /\ UNCHANGED <<pc, list, maxShots, existing, result, file, calls, faults>>

\* Mutant: the shots of a batch that could not be decoded are counted.
BatchFailsCounted(t) ==
  /\ AtWork(t)
  /\ Under(t) /\ Size(t) > 0
  /\ Fault
  /\ \E seconds \in 0..1 :
       total' = [total EXCEPT ![t] = [Took(t, seconds) EXCEPT !.shots = @ + Size(t)]]
  /\ result' = [result EXCEPT ![t] = "failure"]
  /\ UNCHANGED <<pc, list, maxShots, existing, batch, file, sampled, calls>>

\* A batch cannot be sampled or decoded: the task ends with the totals it had.
BatchFails(t) ==
  /\ AtWork(t)
  /\ Under(t) /\ Size(t) > 0
  /\ Fault
  /\ \E seconds \in 0..1 : total' = [total EXCEPT ![t] = Took(t, seconds)]
  /\ result' = [result EXCEPT ![t] = "failure"]
  /\ UNCHANGED <<pc, list, maxShots, existing, batch, file, sampled, calls>>

\* The decoder cannot be compiled for the task.
CompileFails(t) ==
  /\ AtWork(t)
  /\ total[t] = existing[t]
  /\ Fault
  /\ result' = [result EXCEPT ![t] = "failure"]
  /\ UNCHANGED <<pc, list, maxShots, existing, total, batch, file, sampled, calls>>

TimedOut(t) == /\ total[t].seconds >= MaxSeconds
               /\ total[t].shots < maxShots
               /\ total[t].errors < MaxErrors

\* The loop is left: classify_completed.
Done(t) ==
  /\ AtWork(t)
  /\ ~ Under(t) \/ Size(t) = 0
  /\ result' = [result EXCEPT ![t] = IF TimedOut(t) THEN "timeout"
                                     ELSE IF total[t].errors > 0 THEN "logical_failure"
                                     ELSE "ok"]
  /\ UNCHANGED <<pc, list, maxShots, existing, total, batch, file, sampled, calls, faults>>

\* A decoder is not found: the call is an error, what the other tasks sampled is gone.
Refuse ==
  /\ pc = "collecting"
  /\ Fault
  /\ pc' = "shell"
  /\ UNCHANGED <<list, maxShots, existing, total, batch, result, file, sampled, calls>>

\* Mutant: the call waits for every task to complete.
TruncateCompleted ==
  /\ pc = "collecting"
  /\ \A t \in list : result[t] \in {"ok", "logical_failure", "timeout"}
  /\ pc' = "writing"
  /\ file' = NoFile
  /\ UNCHANGED <<list, maxShots, existing, total, batch, result, sampled, calls, faults>>

\* All tasks are done: File::create truncates the file ...
Truncate ==
  /\ pc = "collecting"
  /\ \A t \in list : result[t] # "none"
  /\ pc' = "writing"
  /\ file' = NoFile
  /\ UNCHANGED <<list, maxShots, existing, total, batch, result, sampled, calls, faults>>

Rows(tasks) == [readable |-> TRUE, tasks |-> tasks,
                row |-> [t \in Tasks |-> IF t \in tasks THEN total[t] ELSE Zero]]

\* ... and write_csv writes a row for each task of this call.
Write ==
  /\ pc = "writing"
  /\ file' = Rows(list)
  /\ pc' = "shell"
  /\ UNCHANGED <<list, maxShots, existing, total, batch, result, sampled, calls, faults>>

\* The process is killed; while it writes, some rows are there, the last perhaps in part.
Kill ==
  /\ pc # "shell"
  /\ Fault
  /\ pc' = "shell"
  /\ IF pc = "writing"
     THEN \E written \in SUBSET list : \E readable \in BOOLEAN :
            file' = [Rows(written) EXCEPT !.readable = readable]
     ELSE UNCHANGED file
  /\ UNCHANGED <<list, maxShots, existing, total, batch, result, sampled, calls>>

Init ==
  /\ pc = "shell" /\ list = {} /\ maxShots = 0
  /\ existing = NoTasks /\ total = NoTasks
  /\ batch = [t \in Tasks |-> StartBatch]
  /\ result = [t \in Tasks |-> "none"]
  /\ file = NoFile
  /\ sampled = [t \in Tasks |-> 0]
  /\ calls = 0 /\ faults = 0

Collecting == \E t \in Tasks : Batch(t) \/ Done(t)

Next ==
  \/ Call \/ Collecting \/ Truncate \/ Write
  \/ \E t \in Tasks : BatchFails(t) \/ CompileFails(t)
  \/ Refuse \/ Kill

Spec == Init /\ [][Next]_vars

\* The threads of the pool and the call itself go on.
FairSpec == Spec /\ WF_vars(Collecting \/ Truncate \/ Write)

-----------------------------------------------------------------------------
(* Properties.                                                             *)

\* Every shot a file counts was sampled, once: over any sequence of calls,
\* failures and kills, saved totals never run ahead of the sampler.
CountedWereSampled ==
  \A t \in Tasks : /\ file.row[t].shots <= sampled[t]
                   /\ file.row[t].errors <= file.row[t].shots

\* A call never samples past max_shots, and does not touch a task that is past
\* it already; past max_errors it goes by less than a batch.
LimitsRespected ==
  pc # "shell" => \A t \in list :
    /\ total[t].shots <= maxShots \/ total[t].shots = existing[t].shots
    /\ total[t].errors < MaxErrors + LargestBatch \/ total[t].errors = existing[t].errors

\* Every call comes to its end: shots, errors or seconds run out.
CallsEnd == pc # "shell" ~> pc = "shell"
=============================================================================
