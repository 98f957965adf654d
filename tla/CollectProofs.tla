--------------------------- MODULE CollectProofs ---------------------------
(* Proofs about Collect, for any tasks, limits and batch sizes. *)
EXTENDS Collect, TLAPS

USE LimitsAssumption, BatchAssumption

-----------------------------------------------------------------------------
(* The inductive invariant. *)

Totals  == [shots : Nat, errors : Nat, seconds : Nat]
Results == {"none", "failure", "timeout", "logical_failure", "ok"}

\* Values the variables may have; a batch is never empty nor larger than allowed.
TypeOK ==
  /\ pc \in {"shell", "collecting", "writing"}
  /\ list \in SUBSET Tasks
  /\ maxShots \in Nat
  /\ existing \in [Tasks -> Totals]
  /\ total \in [Tasks -> Totals]
  /\ batch \in [Tasks -> 1..LargestBatch]
  /\ result \in [Tasks -> Results]
  /\ file \in [readable : BOOLEAN, tasks : SUBSET Tasks, row : [Tasks -> Totals]]
  /\ sampled \in [Tasks -> Nat]

\* The totals at work are of shots that were sampled, and so are the file's.
WorkWasSampled ==
  \A t \in Tasks : /\ total[t].shots <= sampled[t]
                   /\ total[t].errors <= total[t].shots

CollectInv == TypeOK /\ WorkWasSampled /\ CountedWereSampled /\ LimitsRespected

-----------------------------------------------------------------------------
(* Batch sizes and totals. *)

\* The two batch sizes a task begins with and grows to are in range.
LEMMA BatchRange ==
  /\ LargestBatch \in Nat
  /\ StartBatch \in 1..LargestBatch
  /\ \A b \in 1..LargestBatch : Grown(b) \in 1..LargestBatch
  BY DEF LargestBatch, Grown, Least

\* A batch of a task that is under its limits is neither empty nor more than remains.
LEMMA SizeRange ==
  ASSUME TypeOK, NEW t \in Tasks, Under(t)
  PROVE  /\ Size(t) \in Nat /\ Size(t) > 0
         /\ Size(t) <= LargestBatch
         /\ total[t].shots + Size(t) <= maxShots
  <1>1. /\ batch[t] \in 1..LargestBatch /\ LargestBatch \in Nat
        /\ total[t].shots \in Nat /\ maxShots \in Nat
    BY BatchRange DEF TypeOK, Totals
  <1>2. total[t].shots < maxShots
    BY DEF Under
  <1> QED
    BY <1>1, <1>2 DEF Size, Least

\* A batch adds its shots and errors to a task's totals.
LEMMA Counted ==
  ASSUME NEW r \in Totals, NEW n \in Nat, NEW errors \in Nat
  PROVE  [r EXCEPT !.shots = @ + n, !.errors = @ + errors] =
           [shots |-> r.shots + n, errors |-> r.errors + errors, seconds |-> r.seconds]
  <1> DEFINE s == [r EXCEPT !.shots = @ + n]
  <1>1. s = [shots |-> r.shots + n, errors |-> r.errors, seconds |-> r.seconds]
    BY DEF Totals
  <1>2. s \in Totals
    BY <1>1 DEF Totals
  <1>3. [r EXCEPT !.shots = @ + n, !.errors = @ + errors] = [s EXCEPT !.errors = s.errors + errors]
    BY <1>1
  <1> HIDE DEF s
  <1>4. [s EXCEPT !.errors = s.errors + errors]
          = [shots |-> s.shots, errors |-> s.errors + errors, seconds |-> s.seconds]
    BY <1>2 DEF Totals
  <1> QED
    BY <1>1, <1>3, <1>4

\* The elapsed seconds of a batch change no count.
LEMMA TookOnlySeconds ==
  ASSUME TypeOK, NEW t \in Tasks, NEW seconds \in 0..1
  PROVE  /\ Took(t, seconds) \in Totals
         /\ Took(t, seconds).shots = total[t].shots
         /\ Took(t, seconds).errors = total[t].errors
  <1>1. total[t] \in Totals
    BY DEF TypeOK
  <1>2. Took(t, seconds) = [shots |-> total[t].shots, errors |-> total[t].errors,
                            seconds |-> total[t].seconds + seconds]
    BY <1>1 DEF Took, Totals
  <1> QED
    BY <1>1, <1>2 DEF Totals

\* No shots, no errors, no seconds.
LEMMA ZeroIsTotal ==
  /\ Zero \in Totals /\ NoTasks \in [Tasks -> Totals]
  /\ Zero.shots = 0 /\ Zero.errors = 0
  /\ NoFile \in [readable : BOOLEAN, tasks : SUBSET Tasks, row : [Tasks -> Totals]]
  /\ NoFile.row = NoTasks
  BY DEF Zero, Totals, NoTasks, NoFile

-----------------------------------------------------------------------------
(* The steps. *)

\* Before the first call nothing is counted.
LEMMA InitInv == Init => CollectInv
  <1> SUFFICES ASSUME Init PROVE CollectInv
    OBVIOUS
  <1>1. TypeOK
    BY BatchRange, ZeroIsTotal DEF Init, TypeOK, Results
  <1>2. WorkWasSampled /\ CountedWereSampled /\ LimitsRespected
    BY ZeroIsTotal DEF Init, WorkWasSampled, CountedWereSampled, LimitsRespected, NoTasks
  <1> QED
    BY <1>1, <1>2 DEF CollectInv

\* A call begins with the counts the file has, and with nothing beyond them.
LEMMA CallInv == CollectInv /\ Call => CollectInv'
  <1> SUFFICES ASSUME CollectInv, Call PROVE CollectInv'
    OBVIOUS
  <1> USE DEF CollectInv
  <1>1. /\ list' \in SUBSET Tasks
        /\ maxShots' \in Nat
        /\ existing' = file.row
        /\ total' = [t \in Tasks |-> IF t \in list' THEN file.row[t] ELSE Zero]
        /\ batch' = [t \in Tasks |-> StartBatch]
        /\ result' = [t \in Tasks |-> "none"]
        /\ pc' = "collecting"
        /\ UNCHANGED <<file, sampled>>
    BY DEF Call
  <1>2. file.row \in [Tasks -> Totals] /\ sampled \in [Tasks -> Nat]
    BY DEF TypeOK
  <1>3. TypeOK'
    BY <1>1, <1>2, BatchRange, ZeroIsTotal DEF TypeOK, Results
  <1>4. WorkWasSampled'
    BY <1>1, <1>2, ZeroIsTotal DEF WorkWasSampled, CountedWereSampled
  <1>5. CountedWereSampled'
    BY <1>1 DEF CountedWereSampled
  <1>6. LimitsRespected'
    BY <1>1 DEF LimitsRespected
  <1> QED
    BY <1>3, <1>4, <1>5, <1>6

\* A batch counts the shots it sampled, cut to what remains of max_shots, and at
\* most as many errors.
LEMMA BatchInv ==
  ASSUME CollectInv, NEW t \in Tasks, Batch(t)
  PROVE  CollectInv'
  <1> USE DEF CollectInv
  <1>1. PICK errors \in 0..Size(t), seconds \in 0..1 :
          total' = [total EXCEPT ![t] = [Took(t, seconds) EXCEPT !.shots = @ + Size(t),
                                                                !.errors = @ + errors]]
    BY DEF Batch
  <1>2. /\ Under(t)
        /\ sampled' = [sampled EXCEPT ![t] = @ + Size(t)]
        /\ batch' = [batch EXCEPT ![t] = Grown(@)]
        /\ UNCHANGED <<pc, list, maxShots, existing, result, file>>
    BY DEF Batch
  <1> DEFINE n   == Size(t)
             old == total[t]
             new == [shots |-> old.shots + n, errors |-> old.errors + errors,
                     seconds |-> Took(t, seconds).seconds]
  <1>3. /\ n \in Nat /\ n > 0 /\ n <= LargestBatch /\ LargestBatch \in Nat
        /\ old.shots + n <= maxShots
        /\ errors \in 0..n
    BY <1>2, SizeRange, BatchRange
  <1>4. Took(t, seconds) \in Totals
    BY TookOnlySeconds
  <1>5. [Took(t, seconds) EXCEPT !.shots = @ + n, !.errors = @ + errors] = new
    <2> DEFINE took == Took(t, seconds)
    <2>1. took \in Totals /\ took.shots = old.shots /\ took.errors = old.errors
      BY <1>4, TookOnlySeconds
    <2>2. errors \in Nat
      BY <1>3
    <2> HIDE DEF took
    <2>3. [took EXCEPT !.shots = @ + n, !.errors = @ + errors]
            = [shots |-> took.shots + n, errors |-> took.errors + errors, seconds |-> took.seconds]
      BY <1>3, <2>1, <2>2, Counted
    <2> QED
      BY <2>1, <2>3 DEF took
  <1>6. /\ old \in Totals /\ sampled[t] \in Nat /\ maxShots \in Nat
        /\ old.shots <= sampled[t] /\ old.errors <= old.shots
        /\ old.errors < MaxErrors
    BY <1>2 DEF TypeOK, WorkWasSampled, Under
  <1> HIDE DEF n
  <1>7. new \in Totals
    BY <1>3, <1>4, <1>6 DEF Totals
  <1>8. /\ total' \in [Tasks -> Totals]
        /\ \A u \in Tasks : total'[u] = IF u = t THEN new ELSE total[u]
    BY <1>1, <1>5, <1>7 DEF TypeOK, n
  <1>9. /\ sampled' \in [Tasks -> Nat]
        /\ \A u \in Tasks : sampled'[u] = IF u = t THEN sampled[t] + n ELSE sampled[u]
    BY <1>2, <1>3 DEF TypeOK, n
  <1>10. batch' \in [Tasks -> 1..LargestBatch]
    BY <1>2, BatchRange DEF TypeOK
  <1>11. TypeOK'
    BY <1>2, <1>8, <1>9, <1>10 DEF TypeOK
  <1>12. /\ new.shots <= sampled[t] + n
         /\ new.errors <= new.shots
         /\ new.shots <= maxShots
         /\ new.errors < MaxErrors + LargestBatch
    <2>1. old.shots \in Nat /\ old.errors \in Nat
      BY <1>6 DEF Totals
    <2>2. new.shots = old.shots + n /\ new.errors = old.errors + errors
      OBVIOUS
    <2> HIDE DEF old, new
    <2> QED
      BY <1>3, <1>6, <2>1, <2>2
  <1>13. WorkWasSampled'
    BY <1>8, <1>9, <1>12 DEF WorkWasSampled
  <1>14. CountedWereSampled'
    <2> SUFFICES ASSUME NEW u \in Tasks
                 PROVE  file.row[u].shots <= sampled'[u] /\ file.row[u].errors <= file.row[u].shots
      BY <1>2 DEF CountedWereSampled
    <2>1. /\ file.row[u].shots \in Nat /\ sampled[u] \in Nat
          /\ file.row[u].shots <= sampled[u] /\ file.row[u].errors <= file.row[u].shots
      BY DEF TypeOK, Totals, CountedWereSampled
    <2> QED
      BY <1>3, <1>9, <2>1
  <1>15. LimitsRespected'
    <2> SUFFICES ASSUME pc # "shell", NEW u \in list
                 PROVE  /\ \/ total'[u].shots <= maxShots
                           \/ total'[u].shots = existing[u].shots
                        /\ \/ total'[u].errors < MaxErrors + LargestBatch
                           \/ total'[u].errors = existing[u].errors
      BY <1>2 DEF LimitsRespected, LargestBatch
    <2>1. u \in Tasks
      BY DEF TypeOK
    <2> HIDE DEF new
    <2> QED
      BY <1>8, <1>12, <2>1 DEF LimitsRespected
  <1> QED
    BY <1>11, <1>13, <1>14, <1>15

\* A batch that could not be decoded counts nothing but time.
LEMMA BatchFailsInv ==
  ASSUME CollectInv, NEW t \in Tasks, BatchFails(t)
  PROVE  CollectInv'
  <1> USE DEF CollectInv
  <1>1. PICK seconds \in 0..1 : total' = [total EXCEPT ![t] = Took(t, seconds)]
    BY DEF BatchFails
  <1>2. /\ result' = [result EXCEPT ![t] = "failure"]
        /\ UNCHANGED <<pc, list, maxShots, existing, batch, file, sampled>>
    BY DEF BatchFails
  <1>3. /\ total' \in [Tasks -> Totals]
        /\ \A u \in Tasks : /\ total'[u].shots = total[u].shots
                            /\ total'[u].errors = total[u].errors
    BY <1>1, TookOnlySeconds DEF TypeOK
  <1>4. TypeOK'
    BY <1>2, <1>3 DEF TypeOK, Results, LargestBatch
  <1>5. WorkWasSampled' /\ CountedWereSampled'
    BY <1>2, <1>3 DEF WorkWasSampled, CountedWereSampled
  <1>6. LimitsRespected'
    <2>1. \A u \in list : u \in Tasks
      BY DEF TypeOK
    <2> QED
      BY <1>2, <1>3, <2>1 DEF LimitsRespected, LargestBatch
  <1> QED
    BY <1>4, <1>5, <1>6

\* A task ends, or a call is refused, with the totals they had.
LEMMA EndInv ==
  ASSUME CollectInv,
         \/ \E t \in Tasks : CompileFails(t) \/ Done(t)
         \/ Refuse
  PROVE  CollectInv'
  <1> USE DEF CollectInv
  <1>1. UNCHANGED <<list, maxShots, existing, total, batch, file, sampled>>
    BY DEF CompileFails, Done, Refuse
  <1>2. pc' \in {"shell", "collecting", "writing"} /\ (pc' # "shell" => pc # "shell")
    BY DEF CompileFails, Done, Refuse, TypeOK
  <1>3. result' \in [Tasks -> Results]
    BY DEF CompileFails, Done, Refuse, TypeOK, Results
  <1>4. TypeOK'
    BY <1>1, <1>2, <1>3 DEF TypeOK, LargestBatch
  <1>5. WorkWasSampled' /\ CountedWereSampled'
    BY <1>1 DEF WorkWasSampled, CountedWereSampled
  <1>6. LimitsRespected'
    BY <1>1, <1>2 DEF LimitsRespected, LargestBatch
  <1> QED
    BY <1>4, <1>5, <1>6

\* The rows of some tasks of the call are a file of shots that were sampled.
LEMMA RowsCount ==
  ASSUME CollectInv, NEW tasks \in SUBSET Tasks
  PROVE  /\ Rows(tasks) \in [readable : BOOLEAN, tasks : SUBSET Tasks, row : [Tasks -> Totals]]
         /\ \A t \in Tasks : /\ Rows(tasks).row[t].shots <= sampled[t]
                             /\ Rows(tasks).row[t].errors <= Rows(tasks).row[t].shots
  <1>1. /\ Rows(tasks).row \in [Tasks -> Totals]
        /\ Rows(tasks) = [readable |-> TRUE, tasks |-> tasks, row |-> Rows(tasks).row]
    BY ZeroIsTotal DEF Rows, CollectInv, TypeOK
  <1>2. ASSUME NEW t \in Tasks
        PROVE  /\ Rows(tasks).row[t].shots <= sampled[t]
               /\ Rows(tasks).row[t].errors <= Rows(tasks).row[t].shots
    <2>1. Rows(tasks).row[t] = IF t \in tasks THEN total[t] ELSE Zero
      BY DEF Rows
    <2>2. sampled[t] \in Nat
      BY DEF CollectInv, TypeOK
    <2>3. CASE t \in tasks
      BY <2>1, <2>3 DEF CollectInv, WorkWasSampled
    <2>4. CASE t \notin tasks
      BY <2>1, <2>2, <2>4, ZeroIsTotal
    <2> QED
      BY <2>3, <2>4
  <1>3. Rows(tasks) \in [readable : BOOLEAN, tasks : SUBSET Tasks, row : [Tasks -> Totals]]
    <2> DEFINE rows == Rows(tasks).row
    <2>1. rows \in [Tasks -> Totals] /\ Rows(tasks) = [readable |-> TRUE, tasks |-> tasks, row |-> rows]
      BY <1>1
    <2> HIDE DEF rows
    <2> QED
      BY <2>1
  <1> QED
    BY <1>2, <1>3

\* Truncating, writing and being killed while writing leave a file of such rows.
LEMMA FileInv ==
  ASSUME CollectInv, Truncate \/ Write \/ Kill
  PROVE  CollectInv'
  <1> USE DEF CollectInv
  <1>1. /\ UNCHANGED <<list, maxShots, existing, total, batch, result, sampled>>
        /\ pc' \in {"shell", "writing"}
        /\ pc' # "shell" => pc # "shell"
    BY DEF Truncate, Write, Kill
  <1>2. list \in SUBSET Tasks
    BY DEF TypeOK
  <1>3. /\ file' \in [readable : BOOLEAN, tasks : SUBSET Tasks, row : [Tasks -> Totals]]
        /\ \A t \in Tasks : /\ file'.row[t].shots <= sampled[t]
                            /\ file'.row[t].errors <= file'.row[t].shots
    <2>1. CASE Truncate
      <3>1. file' = NoFile
        BY <2>1 DEF Truncate
      <3>2. \A t \in Tasks : file'.row[t].shots = 0 /\ file'.row[t].errors = 0
        BY <3>1, ZeroIsTotal DEF NoTasks
      <3>3. \A t \in Tasks : sampled[t] \in Nat
        BY DEF TypeOK
      <3> QED
        BY <3>1, <3>2, <3>3, ZeroIsTotal
    <2>2. CASE Write
      BY <1>2, <2>2, RowsCount DEF Write
    <2>3. CASE Kill /\ pc = "writing"
      <3>1. PICK written \in SUBSET list, readable \in BOOLEAN :
              file' = [Rows(written) EXCEPT !.readable = readable]
        BY <2>3 DEF Kill
      <3>2. written \in SUBSET Tasks
        BY <1>2
      <3>3. file' = [readable |-> readable, tasks |-> Rows(written).tasks,
                     row |-> Rows(written).row]
        BY <3>1, <3>2, RowsCount
      <3> QED
        BY <3>2, <3>3, RowsCount
    <2>4. CASE Kill /\ pc # "writing"
      BY <2>4 DEF Kill, TypeOK, CountedWereSampled
    <2> QED
      BY <2>1, <2>2, <2>3, <2>4
  <1>4. TypeOK'
    BY <1>1, <1>3 DEF TypeOK, LargestBatch
  <1>5. WorkWasSampled' /\ CountedWereSampled'
    BY <1>1, <1>3 DEF WorkWasSampled, CountedWereSampled
  <1>6. LimitsRespected'
    BY <1>1 DEF LimitsRespected, LargestBatch
  <1> QED
    BY <1>4, <1>5, <1>6

-----------------------------------------------------------------------------
(* The theorems. *)

\* Every step preserves the invariant.
LEMMA StepInv == CollectInv /\ [Next]_vars => CollectInv'
  <1> SUFFICES ASSUME CollectInv, [Next]_vars PROVE CollectInv'
    OBVIOUS
  <1>1. CASE Next
    BY <1>1, CallInv, BatchInv, BatchFailsInv, EndInv, FileInv DEF Next, Collecting
  <1>2. CASE UNCHANGED vars
    BY <1>2 DEF vars, CollectInv, TypeOK, WorkWasSampled, CountedWereSampled,
       LimitsRespected, LargestBatch
  <1> QED
    BY <1>1, <1>2

\* The invariant holds in every state of every sequence of calls.
LEMMA Invariance == Spec => []CollectInv
  BY InitInv, StepInv, PTL DEF Spec

\* collect keeps the types of its totals; batch_size stays between one and the
\* larger of start_batch_size and max_batch_size.
THEOREM TypeCorrect == Spec => []TypeOK
  <1>1. CollectInv => TypeOK
    BY DEF CollectInv
  <1> QED
    BY <1>1, Invariance, PTL

\* Over any sequence of calls, failing batches, refused calls and kills, the shots
\* and errors a file counts were sampled.
THEOREM SavedCountsWereSampled == Spec => []CountedWereSampled
  <1>1. CollectInv => CountedWereSampled
    BY DEF CollectInv
  <1> QED
    BY <1>1, Invariance, PTL

\* No call samples a task past max_shots, nor past max_errors by a whole batch.
THEOREM LimitsHold == Spec => []LimitsRespected
  <1>1. CollectInv => LimitsRespected
    BY DEF CollectInv
  <1> QED
    BY <1>1, Invariance, PTL
=============================================================================
