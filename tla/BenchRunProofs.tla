--------------------------- MODULE BenchRunProofs ---------------------------
(* Proofs about BenchRun, for any runners, points and specifications. *)
EXTENDS BenchRun, TLAPS

USE RunnersAssumption

-----------------------------------------------------------------------------
(* The inductive invariant. *)

AnyRows     == [Points -> [status : {"none", "ok", "error"}, samples : Nat, run : Nat]]
Directories == [manifest : BOOLEAN, results : BOOLEAN, rows : AnyRows]
Writing     == {"points", "remove", "rename"}

\* Values the variables may have.
TypeOK ==
  /\ pc \in {"shell", "clear", "plan", "begin"} \cup Writing
  /\ resume \in BOOLEAN
  /\ spec \in Seq(Points)
  /\ runner \in 1..Runners
  /\ loaded \in [1..Runners -> AnyRows]
  /\ next \in 1..Len(spec) + 1
  /\ fresh \in AnyRows
  /\ artifact \in [1..Runners -> Directories]
  /\ staging \in [1..Runners -> BOOLEAN]
  /\ outcome \in {"none", "ok", "error"}
  /\ runs \in Nat

\* A point whose identity can be planned is sampled once in what was loaded.
LoadedOnce == \A r \in 1..Runners : \A p \in Points \ Unplanned : loaded[r][p].samples <= 1

\* The fresh rows of the runner at work are of points that were not completed,
\* one sampling each, and every point passed so far has one or was completed.
FreshRows ==
  pc \in Writing =>
    /\ \A p \in Points : fresh[p] # NoRow => ~Completed(p) /\ fresh[p].samples <= 1
    /\ \A i \in 1..next - 1 :
         ~Completed(spec[i]) => fresh[spec[i]] # NoRow /\ fresh[spec[i]].run = runs

\* The directory of runner r has all that success promises.
Complete(r) ==
  /\ artifact[r].manifest /\ artifact[r].results
  /\ \A p \in Asked : IF Ok(loaded[r][p]) /\ p \notin Unplanned
                      THEN artifact[r].rows[p] = loaded[r][p]
                      ELSE artifact[r].rows[p].run = runs

\* The runners are completed in order; the old directory is gone when the new
\* one takes its name, which is only when all points were passed.
Progress ==
  /\ pc = "plan" => runner = 1
  /\ pc \in {"begin"} \cup Writing => \A r \in 1..runner - 1 : Complete(r)
  /\ pc \in {"remove", "rename"} => next = Len(spec) + 1
  /\ pc = "rename" => artifact[runner] = Empty
  /\ outcome = "ok" => pc = "shell" /\ \A r \in 1..Runners : Complete(r)

BenchInv == TypeOK /\ LoadedOnce /\ SampledOnce /\ FreshRows /\ Progress

-----------------------------------------------------------------------------
(* Rows and directories. *)

\* A directory that is not there has no rows; no row is no completed row.
LEMMA NothingThere ==
  /\ NoRow \in [status : {"none", "ok", "error"}, samples : Nat, run : Nat]
  /\ NoRow.samples = 0 /\ ~Ok(NoRow)
  /\ Nothing \in AnyRows /\ \A p \in Points : Nothing[p] = NoRow
  /\ Empty \in Directories
  /\ \A p \in Points : Empty.rows[p] = NoRow
  BY DEF NoRow, Ok, Nothing, AnyRows, Empty, Directories

\* What an interrupted removal leaves has the rows it had, or none.
LEMMA RemnantRows ==
  ASSUME NEW d \in Directories, NEW left \in Remnants(d)
  PROVE  /\ left \in Directories
         /\ left.rows = d.rows \/ left.rows = Nothing
  <1>1. /\ [d EXCEPT !.manifest = FALSE] \in Directories
        /\ [d EXCEPT !.manifest = FALSE].rows = d.rows
    BY DEF Directories
  <1>2. d.manifest \in BOOLEAN
    BY DEF Directories
  <1>3. /\ [Empty EXCEPT !.manifest = d.manifest] \in Directories
        /\ [Empty EXCEPT !.manifest = d.manifest].rows = Nothing
    BY <1>2, NothingThere DEF Empty, Directories
  <1>4. Empty \in Directories /\ Empty.rows = Nothing
    BY NothingThere DEF Empty
  <1> QED
    BY <1>1, <1>3, <1>4 DEF Remnants

\* The point at work is a point.
LEMMA AtWork ==
  ASSUME TypeOK, next <= Len(spec)
  PROVE  /\ next \in 1..Len(spec) /\ next + 1 \in 1..Len(spec) + 1
         /\ spec[next] \in Points
  BY DEF TypeOK

\* What was asked for is points.
LEMMA AskedArePoints == TypeOK => Asked \subseteq Points
  BY DEF TypeOK, Asked

\* The rows that take the place of the old directory: typed, one sampling of each
\* point whose identity can be planned.
LEMMA MergedOnce ==
  ASSUME BenchInv, pc \in Writing
  PROVE  /\ Merged \in AnyRows
         /\ \A p \in Points \ Unplanned : Merged[p].samples <= 1
  <1>1. /\ loaded[runner] \in AnyRows /\ fresh \in AnyRows
        /\ runner \in 1..Runners
    BY DEF BenchInv, TypeOK
  <1>2. Retained \in AnyRows
    BY <1>1, NothingThere DEF Retained, AnyRows
  <1>3. \A p \in Points :
          Merged[p] = IF fresh[p] = NoRow THEN Retained[p]
                      ELSE [status  |-> fresh[p].status,
                            samples |-> Retained[p].samples + fresh[p].samples,
                            run     |-> fresh[p].run]
    BY DEF Merged
  <1>4. Merged \in AnyRows
    <2> SUFFICES ASSUME NEW p \in Points
                 PROVE  Merged[p] \in [status : {"none", "ok", "error"}, samples : Nat, run : Nat]
      BY DEF Merged, AnyRows
    <2>1. /\ Retained[p] \in [status : {"none", "ok", "error"}, samples : Nat, run : Nat]
          /\ fresh[p] \in [status : {"none", "ok", "error"}, samples : Nat, run : Nat]
      BY <1>1, <1>2 DEF AnyRows
    <2>2. Retained[p].samples + fresh[p].samples \in Nat
      BY <2>1
    <2>3. [status  |-> fresh[p].status,
           samples |-> Retained[p].samples + fresh[p].samples,
           run     |-> fresh[p].run] \in [status : {"none", "ok", "error"}, samples : Nat, run : Nat]
      BY <2>1, <2>2
    <2> QED
      BY <1>3, <2>1, <2>3
  <1>5. ASSUME NEW p \in Points \ Unplanned
        PROVE  Merged[p].samples <= 1
    <2>1. Retained[p] = IF fresh[p] # NoRow /\ ~Ok(loaded[runner][p]) THEN NoRow
                        ELSE loaded[runner][p]
      BY DEF Retained
    <2>2. CASE fresh[p] = NoRow
      BY <1>1, <1>3, <2>1, <2>2 DEF BenchInv, LoadedOnce
    <2>3. CASE fresh[p] # NoRow
      <3>1. ~Ok(loaded[runner][p]) /\ fresh[p].samples <= 1 /\ fresh[p].samples \in Nat
        BY <1>1, <2>3 DEF BenchInv, FreshRows, Completed, AnyRows
      <3>2. Retained[p].samples = 0
        BY <2>1, <2>3, <3>1, NothingThere
      <3>3. Merged[p] = [status  |-> fresh[p].status,
                         samples |-> Retained[p].samples + fresh[p].samples,
                         run     |-> fresh[p].run]
        BY <1>3, <2>3
      <3> QED
        BY <3>1, <3>2, <3>3
    <2> QED
      BY <2>2, <2>3
  <1> QED
    BY <1>4, <1>5

\* ... and all that was asked for, once every point was passed.
LEMMA MergedComplete ==
  ASSUME BenchInv, pc \in Writing, next = Len(spec) + 1, NEW p \in Asked
  PROVE  IF Ok(loaded[runner][p]) /\ p \notin Unplanned
         THEN Merged[p] = loaded[runner][p]
         ELSE Merged[p].run = runs
  <1>1. p \in Points
    BY AskedArePoints DEF BenchInv
  <1>2. PICK i \in 1..Len(spec) : p = spec[i]
    BY DEF Asked
  <1>3. i \in 1..next - 1
    BY <1>2 DEF BenchInv, TypeOK
  <1>4. CASE Completed(p)
    <2>1. fresh[p] = NoRow
      BY <1>1, <1>4 DEF BenchInv, FreshRows
    <2> QED
      BY <1>1, <1>4, <2>1 DEF Merged, Retained, Completed
  <1>5. CASE ~Completed(p)
    <2>1. fresh[p] # NoRow /\ fresh[p].run = runs
      BY <1>2, <1>3, <1>5 DEF BenchInv, FreshRows
    <2> QED
      BY <1>1, <1>5, <2>1 DEF Merged, Completed
  <1> QED
    BY <1>4, <1>5

-----------------------------------------------------------------------------
(* The steps. *)

\* Before the first invocation.
LEMMA InitInv == Init => BenchInv
  <1> SUFFICES ASSUME Init PROVE BenchInv
    OBVIOUS
  <1>1. TypeOK
    <2>1. /\ pc = "shell" /\ resume = FALSE /\ spec = <<>> /\ runner = 1 /\ next = 1
          /\ loaded = [r \in 1..Runners |-> Nothing] /\ fresh = Nothing
          /\ artifact = [r \in 1..Runners |-> Empty]
          /\ staging = [r \in 1..Runners |-> FALSE]
          /\ outcome = "none" /\ runs = 0
      BY DEF Init
    <2>2. spec \in Seq(Points) /\ next \in 1..Len(spec) + 1 /\ runner \in 1..Runners
      BY <2>1
    <2> QED
      BY <2>1, <2>2, NothingThere DEF TypeOK
  <1>2. LoadedOnce /\ SampledOnce
    BY NothingThere DEF Init, LoadedOnce, SampledOnce
  <1>3. FreshRows /\ Progress
    BY DEF Init, FreshRows, Progress, Writing
  <1> QED
    BY <1>1, <1>2, <1>3 DEF BenchInv

\* An invocation begins with nothing loaded and nothing run.
LEMMA InvokeInv == BenchInv /\ Invoke => BenchInv'
  <1> SUFFICES ASSUME BenchInv, Invoke PROVE BenchInv'
    OBVIOUS
  <1> USE DEF BenchInv
  <1>1. /\ resume' \in BOOLEAN /\ spec' \in Seq(Points)
        /\ runner' = 1 /\ next' = 1 /\ fresh' = Nothing /\ outcome' = "none"
        /\ loaded' = [r \in 1..Runners |-> Nothing]
        /\ runs' = runs + 1
        /\ pc' \in {"plan", "clear"}
        /\ UNCHANGED <<artifact, staging>>
    BY SpecsAssumption DEF Invoke
  <1>2. TypeOK'
    BY <1>1, NothingThere DEF TypeOK
  <1>3. LoadedOnce' /\ SampledOnce'
    BY <1>1, NothingThere DEF LoadedOnce, SampledOnce
  <1>4. FreshRows' /\ Progress'
    BY <1>1 DEF FreshRows, Progress, Writing
  <1> QED
    BY <1>2, <1>3, <1>4

\* Removing every runner's directories leaves no row.
LEMMA ClearInv == BenchInv /\ Clear => BenchInv'
  <1> SUFFICES ASSUME BenchInv, Clear PROVE BenchInv'
    OBVIOUS
  <1> USE DEF BenchInv
  <1>1. /\ pc = "clear" /\ pc' \in {"plan", "clear"} /\ runner' \in 1..Runners
        /\ pc' = "plan" => runner' = 1
        /\ artifact' = [artifact EXCEPT ![runner] = Empty]
        /\ staging' = [staging EXCEPT ![runner] = FALSE]
        /\ UNCHANGED <<resume, spec, loaded, next, fresh, outcome, runs>>
    BY DEF Clear, TypeOK
  <1>2. /\ artifact' \in [1..Runners -> Directories]
        /\ \A r \in 1..Runners : artifact'[r] = IF r = runner THEN Empty ELSE artifact[r]
    BY <1>1, NothingThere DEF TypeOK
  <1>3. TypeOK'
    BY <1>1, <1>2 DEF TypeOK
  <1>4. LoadedOnce' /\ SampledOnce'
    BY <1>1, <1>2, NothingThere DEF LoadedOnce, SampledOnce
  <1>5. FreshRows' /\ Progress'
    BY <1>1 DEF FreshRows, Progress, Writing
  <1> QED
    BY <1>3, <1>4, <1>5

\* An invocation that ends with an error reports nothing and leaves the rows.
LEMMA ErrorInv == BenchInv /\ (PlanFails \/ RunFails \/ MergeFails) => BenchInv'
  <1> SUFFICES ASSUME BenchInv, PlanFails \/ RunFails \/ MergeFails PROVE BenchInv'
    OBVIOUS
  <1> USE DEF BenchInv
  <1>1. /\ pc' = "shell" /\ outcome' = "error"
        /\ UNCHANGED <<resume, spec, runner, loaded, next, fresh, artifact, staging, runs>>
    BY DEF PlanFails, RunFails, MergeFails, Fail
  <1>2. TypeOK'
    BY <1>1 DEF TypeOK
  <1>3. LoadedOnce' /\ SampledOnce'
    BY <1>1 DEF LoadedOnce, SampledOnce
  <1>4. FreshRows' /\ Progress'
    BY <1>1 DEF FreshRows, Progress, Writing
  <1> QED
    BY <1>2, <1>3, <1>4

\* load_resume_rows: the rows of the files, or none.
LEMMA PlanInv == BenchInv /\ Plan => BenchInv'
  <1> SUFFICES ASSUME BenchInv, Plan PROVE BenchInv'
    OBVIOUS
  <1> USE DEF BenchInv
  <1>1. /\ pc = "plan" /\ pc' = "begin"
        /\ loaded' = [r \in 1..Runners |-> IF resume THEN artifact[r].rows ELSE Nothing]
        /\ UNCHANGED <<resume, spec, runner, next, fresh, artifact, staging, outcome, runs>>
    BY DEF Plan
  <1>2. \A r \in 1..Runners : artifact[r].rows \in AnyRows
    BY DEF TypeOK, Directories
  <1>3. TypeOK'
    BY <1>1, <1>2, NothingThere DEF TypeOK
  <1>4. LoadedOnce' /\ SampledOnce'
    BY <1>1, NothingThere DEF LoadedOnce, SampledOnce
  <1>5. FreshRows'
    BY <1>1 DEF FreshRows, Writing
  <1> QED
    BY <1>1, <1>3, <1>4, <1>5 DEF Progress, Writing

\* The runner at work begins with no fresh rows.
LEMMA BeginInv == BenchInv /\ Begin => BenchInv'
  <1> SUFFICES ASSUME BenchInv, Begin PROVE BenchInv'
    OBVIOUS
  <1> USE DEF BenchInv
  <1>1. /\ pc = "begin" /\ pc' = "points" /\ next' = 1 /\ fresh' = Nothing
        /\ staging' = [staging EXCEPT ![runner] = FALSE]
        /\ UNCHANGED <<resume, spec, runner, loaded, artifact, outcome, runs>>
    BY DEF Begin
  <1>2. Len(spec) \in Nat
    BY DEF TypeOK
  <1>3. TypeOK'
    BY <1>1, <1>2, NothingThere DEF TypeOK, Writing
  <1>4. LoadedOnce' /\ SampledOnce'
    BY <1>1 DEF LoadedOnce, SampledOnce
  <1>5. FreshRows'
    BY <1>1, NothingThere DEF FreshRows
  <1>6. Progress'
    BY <1>1 DEF Progress, Writing, Complete, Asked
  <1> QED
    BY <1>3, <1>4, <1>5, <1>6

\* A completed point is passed, without a fresh row.
LEMMA SkipInv == BenchInv /\ Skip => BenchInv'
  <1> SUFFICES ASSUME BenchInv, Skip PROVE BenchInv'
    OBVIOUS
  <1> USE DEF BenchInv
  <1>1. /\ pc = "points" /\ next <= Len(spec) /\ Completed(spec[next])
        /\ next' = next + 1
        /\ UNCHANGED <<pc, resume, spec, runner, loaded, fresh, artifact, staging, outcome, runs>>
    BY DEF Skip
  <1>2. next \in 1..Len(spec) /\ next + 1 \in 1..Len(spec) + 1
    BY <1>1, AtWork
  <1>3. TypeOK'
    BY <1>1, <1>2 DEF TypeOK
  <1>4. LoadedOnce' /\ SampledOnce'
    BY <1>1 DEF LoadedOnce, SampledOnce
  <1>5. FreshRows'
    <2>1. \A i \in 1..next : i = next \/ i \in 1..next - 1
      BY <1>2
    <2> QED
      BY <1>1, <1>2, <2>1 DEF FreshRows, Completed, Writing
  <1>6. Progress'
    BY <1>1 DEF Progress, Writing, Complete, Asked
  <1> QED
    BY <1>3, <1>4, <1>5, <1>6

\* A point that was not completed gets a fresh row of this invocation.
LEMMA RunInv == BenchInv /\ Run => BenchInv'
  <1> SUFFICES ASSUME BenchInv, Run PROVE BenchInv'
    OBVIOUS
  <1> USE DEF BenchInv
  <1> DEFINE at == spec[next]
  <1>1. /\ pc = "points" /\ next <= Len(spec) /\ ~Completed(at)
        /\ next' = next + 1
        /\ UNCHANGED <<pc, resume, spec, runner, loaded, artifact, staging, outcome, runs>>
    BY DEF Run
  <1>2. PICK row \in {[status |-> "ok", samples |-> 1, run |-> runs],
                      [status |-> "error", samples |-> 0, run |-> runs]} :
          fresh' = [fresh EXCEPT ![at] = row]
    BY DEF Run
  <1>3. /\ row \in [status : {"none", "ok", "error"}, samples : Nat, run : Nat]
        /\ row # NoRow /\ row.samples <= 1 /\ row.run = runs
    BY <1>2 DEF TypeOK, NoRow
  <1>4. /\ next \in 1..Len(spec) /\ next + 1 \in 1..Len(spec) + 1 /\ at \in Points
    BY <1>1, AtWork
  <1>5. /\ fresh' \in AnyRows
        /\ \A p \in Points : fresh'[p] = IF p = at THEN row ELSE fresh[p]
    BY <1>2, <1>3, <1>4 DEF TypeOK, AnyRows
  <1>6. TypeOK'
    BY <1>1, <1>4, <1>5 DEF TypeOK
  <1>7. LoadedOnce' /\ SampledOnce'
    BY <1>1 DEF LoadedOnce, SampledOnce
  <1>8. FreshRows'
    <2> HIDE DEF at
    <2>1. \A p \in Points : Completed(p)' <=> Completed(p)
      BY <1>1 DEF Completed
    <2>2. \A p \in Points : fresh'[p] # NoRow => ~Completed(p)' /\ fresh'[p].samples <= 1
      BY <1>1, <1>3, <1>5, <2>1 DEF FreshRows, Writing
    <2>3. ASSUME NEW i \in 1..next, ~Completed(spec[i])
          PROVE  fresh'[spec[i]] # NoRow /\ fresh'[spec[i]].run = runs
      <3>1. spec[i] \in Points
        BY <1>4 DEF TypeOK
      <3>2. CASE spec[i] = at
        BY <1>3, <1>4, <1>5, <3>2
      <3>3. CASE spec[i] # at
        <4>1. i \in 1..next - 1
          BY <1>4, <3>3 DEF at
        <4> QED
          BY <1>1, <1>5, <2>3, <3>1, <3>3, <4>1 DEF FreshRows, Writing
      <3> QED
        BY <3>2, <3>3
    <2>4. next' - 1 = next
      BY <1>1, <1>4
    <2>5. \A i \in 1..next : spec[i] \in Points
      BY <1>4 DEF TypeOK
    <2> QED
      BY <1>1, <2>1, <2>2, <2>3, <2>4, <2>5 DEF FreshRows
  <1>9. Progress'
    BY <1>1 DEF Progress, Writing, Complete, Asked
  <1> QED
    BY <1>6, <1>7, <1>8, <1>9

\* The rows are written beside the old directory.
LEMMA StageInv == BenchInv /\ Stage => BenchInv'
  <1> SUFFICES ASSUME BenchInv, Stage PROVE BenchInv'
    OBVIOUS
  <1> USE DEF BenchInv
  <1>1. /\ pc = "points" /\ next > Len(spec) /\ pc' = "remove"
        /\ staging' = [staging EXCEPT ![runner] = TRUE]
        /\ UNCHANGED <<resume, spec, runner, loaded, next, fresh, artifact, outcome, runs>>
    BY DEF Stage
  <1>2. next = Len(spec) + 1
    BY <1>1 DEF TypeOK
  <1>3. TypeOK'
    BY <1>1 DEF TypeOK, Writing
  <1>4. LoadedOnce' /\ SampledOnce'
    BY <1>1 DEF LoadedOnce, SampledOnce
  <1>5. FreshRows'
    BY <1>1 DEF FreshRows, Completed, Writing
  <1>6. Progress'
    BY <1>1, <1>2 DEF Progress, Writing, Complete, Asked
  <1> QED
    BY <1>3, <1>4, <1>5, <1>6

\* remove_dir_all takes the old directory of the runner at work, and no other.
LEMMA RemoveInv == BenchInv /\ Remove => BenchInv'
  <1> SUFFICES ASSUME BenchInv, Remove PROVE BenchInv'
    OBVIOUS
  <1> USE DEF BenchInv
  <1>1. /\ pc = "remove" /\ pc' = "rename"
        /\ artifact' = [artifact EXCEPT ![runner] = Empty]
        /\ UNCHANGED <<resume, spec, runner, loaded, next, fresh, staging, outcome, runs>>
    BY DEF Remove
  <1>2. /\ artifact' \in [1..Runners -> Directories]
        /\ \A r \in 1..Runners : artifact'[r] = IF r = runner THEN Empty ELSE artifact[r]
    BY <1>1, NothingThere DEF TypeOK
  <1>3. TypeOK'
    BY <1>1, <1>2 DEF TypeOK, Writing
  <1>4. LoadedOnce' /\ SampledOnce'
    BY <1>1, <1>2, NothingThere DEF LoadedOnce, SampledOnce
  <1>5. FreshRows'
    BY <1>1 DEF FreshRows, Completed, Writing
  <1>6. Progress'
    <2>1. /\ runner \in 1..Runners
          /\ \A r \in 1..runner - 1 : r \in 1..Runners /\ r # runner
      BY DEF TypeOK
    <2> QED
      BY <1>1, <1>2, <2>1 DEF Progress, Writing, Complete, Asked
  <1> QED
    BY <1>3, <1>4, <1>5, <1>6

\* rename gives the runner a whole directory of the merged rows.
LEMMA RenameInv == BenchInv /\ Rename => BenchInv'
  <1> SUFFICES ASSUME BenchInv, Rename PROVE BenchInv'
    OBVIOUS
  <1> USE DEF BenchInv
  <1> DEFINE new == [manifest |-> TRUE, results |-> TRUE, rows |-> Merged]
  <1>1. /\ pc = "rename"
        /\ artifact' = [artifact EXCEPT ![runner] = new]
        /\ staging' = [staging EXCEPT ![runner] = FALSE]
        /\ \/ /\ runner = Runners /\ runner' = runner
              /\ pc' = "shell" /\ outcome' = "ok"
           \/ /\ runner # Runners /\ runner' = runner + 1
              /\ pc' = "begin" /\ outcome' = outcome
        /\ UNCHANGED <<resume, spec, loaded, next, fresh, runs>>
    BY DEF Rename
  <1>2. /\ Merged \in AnyRows
        /\ \A p \in Points \ Unplanned : Merged[p].samples <= 1
        /\ \A p \in Asked : IF Ok(loaded[runner][p]) /\ p \notin Unplanned
                            THEN Merged[p] = loaded[runner][p]
                            ELSE Merged[p].run = runs
    BY <1>1, MergedOnce, MergedComplete DEF Writing, Progress
  <1>3. /\ new \in Directories /\ new.manifest /\ new.results /\ new.rows = Merged
    BY <1>2 DEF Directories
  <1> HIDE DEF new
  <1>4. /\ artifact' \in [1..Runners -> Directories]
        /\ \A r \in 1..Runners : artifact'[r] = IF r = runner THEN new ELSE artifact[r]
    BY <1>1, <1>3 DEF TypeOK
  <1>5. runner \in 1..Runners /\ (runner # Runners => runner + 1 \in 1..Runners)
    BY DEF TypeOK
  <1>6. staging' \in [1..Runners -> BOOLEAN]
    BY <1>1 DEF TypeOK
  <1>7. TypeOK'
    BY <1>1, <1>4, <1>5, <1>6 DEF TypeOK
  <1>8. LoadedOnce' /\ SampledOnce'
    BY <1>1, <1>2, <1>3, <1>4 DEF LoadedOnce, SampledOnce
  <1>9. FreshRows'
    BY <1>1 DEF FreshRows, Writing
  <1>10. Progress'
    <2>1. Asked' = Asked
      BY <1>1 DEF Asked
    <2>2. ASSUME NEW r \in 1..Runners, r = runner PROVE Complete(r)'
      <3>1. artifact'[r] = new /\ loaded' = loaded /\ runs' = runs
        BY <1>1, <1>4, <2>2
      <3> QED
        BY <1>2, <1>3, <2>1, <2>2, <3>1 DEF Complete
    <2>3. ASSUME NEW r \in 1..runner PROVE Complete(r)'
      <3>1. CASE r = runner
        BY <1>5, <2>2, <3>1
      <3>2. CASE r # runner
        <4>1. r \in 1..runner - 1 /\ r \in 1..Runners
          BY <1>5, <3>2
        <4>2. Complete(r) /\ artifact'[r] = artifact[r]
          BY <1>1, <1>4, <3>2, <4>1 DEF Progress, Writing
        <4> QED
          BY <1>1, <2>1, <4>2 DEF Complete
      <3> QED
        BY <3>1, <3>2
    <2>4. outcome # "ok"
      BY <1>1 DEF Progress
    <2>5. CASE runner = Runners
      BY <1>1, <2>3, <2>5 DEF Progress, Writing
    <2>6. CASE runner # Runners
      <3>1. runner' - 1 = runner
        BY <1>1, <1>5, <2>6
      <3>2. \A r \in 1..runner' - 1 : Complete(r)'
        BY <2>3, <3>1
      <3> QED
        BY <1>1, <2>4, <2>6, <3>2 DEF Progress, Writing
    <2> QED
      BY <2>5, <2>6
  <1> QED
    BY <1>7, <1>8, <1>9, <1>10

\* A kill leaves a directory that was being removed with its rows or with none.
LEMMA KillInv == BenchInv /\ Kill => BenchInv'
  <1> SUFFICES ASSUME BenchInv, Kill PROVE BenchInv'
    OBVIOUS
  <1> USE DEF BenchInv
  <1>1. /\ pc' = "shell" /\ outcome' = "none"
        /\ UNCHANGED <<resume, spec, runner, loaded, next, fresh, runs>>
    BY DEF Kill
  <1>2. /\ artifact' \in [1..Runners -> Directories]
        /\ \A r \in 1..Runners : \/ artifact'[r].rows = artifact[r].rows
                                 \/ artifact'[r].rows = Nothing
    <2>1. CASE pc \in {"clear", "remove"}
      <3>1. PICK left \in Remnants(artifact[runner]) :
              artifact' = [artifact EXCEPT ![runner] = left]
        BY <2>1 DEF Kill
      <3>2. artifact[runner] \in Directories
        BY DEF TypeOK
      <3> QED
        BY <3>1, <3>2, RemnantRows DEF TypeOK
    <2>2. CASE pc \notin {"clear", "remove"}
      BY <2>2 DEF Kill, TypeOK
    <2> QED
      BY <2>1, <2>2
  <1>3. staging' \in [1..Runners -> BOOLEAN]
    BY DEF Kill, TypeOK
  <1>4. TypeOK'
    BY <1>1, <1>2, <1>3 DEF TypeOK
  <1>5. LoadedOnce' /\ SampledOnce'
    BY <1>1, <1>2, NothingThere DEF LoadedOnce, SampledOnce
  <1>6. FreshRows' /\ Progress'
    BY <1>1 DEF FreshRows, Progress, Writing
  <1> QED
    BY <1>4, <1>5, <1>6

-----------------------------------------------------------------------------
(* The theorems. *)

\* Every step preserves the invariant.
LEMMA StepInv == BenchInv /\ [Next]_vars => BenchInv'
  <1> SUFFICES ASSUME BenchInv, [Next]_vars PROVE BenchInv'
    OBVIOUS
  <1>1. CASE Next
    BY <1>1, InvokeInv, ClearInv, ErrorInv, PlanInv, BeginInv, SkipInv, RunInv, StageInv,
       RemoveInv, RenameInv, KillInv DEF Next
  <1>2. CASE UNCHANGED vars
    BY <1>2 DEF vars, BenchInv, TypeOK, LoadedOnce, SampledOnce, FreshRows, Progress,
       Completed, Complete, Asked
  <1> QED
    BY <1>1, <1>2

\* The invariant holds in every state of every campaign.
LEMMA Invariance == Spec => []BenchInv
  BY InitInv, StepInv, PTL DEF Spec

\* The driver keeps the types of its rows and directories.
THEOREM TypeCorrect == Spec => []TypeOK
  <1>1. BenchInv => TypeOK
    BY DEF BenchInv
  <1> QED
    BY <1>1, Invariance, PTL

\* However often a campaign is resumed, killed or fails, a row whose identity can
\* be planned sums up one sampling of its point.
THEOREM NeverSampledTwice == Spec => []SampledOnce
  <1>1. BenchInv => SampledOnce
    BY DEF BenchInv
  <1> QED
    BY <1>1, Invariance, PTL

\* Success is reported only when every runner's directory is whole and has, for
\* each point asked for, its completed row or one of this invocation.
THEOREM SuccessComplete == Spec => []SuccessIsComplete
  <1>1. BenchInv => SuccessIsComplete
    BY DEF BenchInv, Progress, SuccessIsComplete, Complete
  <1> QED
    BY <1>1, Invariance, PTL

\* A completed row is lost only where the code removes the directory that has it.
THEOREM RowsLostOnlyInTheSwap == Spec => LostOnlyInTheSwap
  <1> DEFINE Kept == \A r \in 1..Runners : \A p \in Points :
                       Ok(artifact[r].rows[p]) /\ ~ Ok(artifact'[r].rows[p]) =>
                         pc \in {"clear", "remove"} /\ r = runner
  <1>1. BenchInv /\ [Next]_vars => Kept
    <2> SUFFICES ASSUME BenchInv, [Next]_vars, NEW r \in 1..Runners, NEW p \in Points,
                        Ok(artifact[r].rows[p]), ~ Ok(artifact'[r].rows[p])
                 PROVE  pc \in {"clear", "remove"} /\ r = runner
      OBVIOUS
    <2>1. artifact' # artifact
      OBVIOUS
    <2>2. artifact \in [1..Runners -> Directories]
      BY DEF BenchInv, TypeOK
    <2>3. CASE Clear \/ Remove
      BY <2>2, <2>3 DEF Clear, Remove
    <2>4. CASE Kill
      BY <2>1, <2>2, <2>4 DEF Kill
    <2>5. CASE Rename
      <3>1. artifact[runner] = Empty
        BY <2>5 DEF Rename, BenchInv, Progress
      <3>2. r # runner
        BY <3>1, NothingThere
      <3> QED
        BY <2>2, <2>5, <3>2 DEF Rename
    <2>6. CASE ~(Clear \/ Remove \/ Kill \/ Rename)
      BY <2>1, <2>6 DEF Next, vars, Invoke, PlanFails, Plan, Begin, Skip, Run, RunFails,
         MergeFails, Stage
    <2> QED
      BY <2>3, <2>4, <2>5, <2>6
  <1>2. BenchInv /\ [Next]_vars => [Kept]_vars
    BY <1>1
  <1> QED
    BY <1>2, Invariance, PTL DEF Spec, LostOnlyInTheSwap

=============================================================================
