-------------------------- MODULE StreamCliProofs --------------------------
(* Proofs about StreamCli, for any stream, RNG, users, options and bounds. *)
EXTENDS StreamCli, TLAPS

USE RowsAssumption, RngAssumption

-----------------------------------------------------------------------------
(* The inductive invariant. *)

Positions == [rows : Seq(RngStates), random : RngStates, failed : BOOLEAN]
Records   == [run : Nat \ {0}, index : Nat, position : Positions,
              terminal : BOOLEAN, acked : BOOLEAN]
Phases    == {"persistence", "draw", "diagnostic", "export", "terminal"}

\* Values the variables may have.
TypeOK ==
  /\ pc \in {"shell", "save", "loop", "draw", "receipt", "exit"}
  /\ user \in DOMAIN MaxRuns
  /\ runs \in Nat
  /\ resumed \in Records \cup {NoFile}
  /\ stream \in Positions
  /\ stop \in Nat /\ every \in Nat \ {0} /\ remaining \in Nat /\ chunk \in Nat /\ index \in Nat
  /\ latest \in Records \cup {NoFile}
  /\ terminal \in BOOLEAN /\ ok \in BOOLEAN
  /\ failures \in SUBSET Phases
  /\ files \in SUBSET Records

\* No file is of a later invocation; the one acknowledged last is there to stay.
Filed ==
  /\ \A f \in files : f.run <= runs
  /\ pc # "shell" => runs # 0
  /\ latest # NoFile => latest \in files /\ latest.run = runs /\ latest.acked

\* Between two publications persistence_ok says that the stream is saved as it
\* is; a failed publication is on record.
SavedAsIs ==
  /\ pc \in {"loop", "receipt", "exit"} /\ ok => latest # NoFile /\ latest.position = stream
  /\ pc = "loop" /\ ok => latest.terminal = terminal
  /\ ~ok => "persistence" \in failures

\* A draw is made only within the limits, from a file and of a sound stream.
Drawing ==
  pc = "draw" =>
    /\ latest # NoFile /\ ~terminal /\ ~stream.failed
    /\ chunk > 0 /\ Committed + chunk <= Shots
    /\ Committed + chunk <= Len(latest.position.rows) + every

\* Nothing to report was found.
Sound == ~stream.failed /\ Diagnosed /\ Committed \notin Unexportable[user]

\* What was found is saved as terminal before it is reported.
Receipts ==
  /\ pc # "shell" /\ resumed # NoFile /\ resumed.terminal => terminal
  /\ pc = "receipt" => terminal /\ failures # {} /\ ok
  /\ pc = "exit" /\ ok /\ failures # {} => latest.terminal
  /\ pc = "exit" /\ ok /\ failures = {} => ~latest.terminal /\ Sound

\* A report stands while nothing runs, and names the file acknowledged last
\* unless saving failed.
Reported ==
  report # NoReport =>
    /\ pc = "shell"
    /\ \/ report.file = latest /\ latest # NoFile
       \/ report.status = "failed" /\ "persistence" \in failures

CliInv ==
  /\ TypeOK /\ Filed /\ SavedAsIs /\ Drawing /\ Receipts /\ Reported
  /\ TerminalNeverDrawn /\ HonestReport

-----------------------------------------------------------------------------
(* Positions and files. *)

\* A fresh stream is a position.
LEMMA FreshPosition == Fresh \in Positions /\ ~Fresh.failed
  BY DEF Fresh, Positions

\* What is known of a position.
LEMMA PositionParts ==
  ASSUME NEW s \in Positions
  PROVE  /\ s.rows \in Seq(RngStates) /\ Len(s.rows) \in Nat
         /\ s.random \in RngStates /\ s.failed \in BOOLEAN
  BY DEF Positions

\* The file the stream would be saved in now.
LEMMA FileParts ==
  ASSUME TypeOK, runs # 0, NEW acked \in BOOLEAN
  PROVE  /\ File(acked) \in Records
         /\ File(acked).run = runs /\ File(acked).position = stream
         /\ File(acked).terminal = terminal /\ File(acked).acked = acked
  BY DEF TypeOK, File, Records

\* A file is a file.
LEMMA RecordParts ==
  ASSUME NEW f \in Records
  PROVE  /\ f # NoFile /\ f.position \in Positions
         /\ f.terminal \in BOOLEAN /\ f.run \in Nat
  BY DEF Records, NoFile

\* While an invocation runs, nothing has been reported.
LEMMA Unreported == CliInv /\ pc # "shell" => report = NoReport
  BY DEF CliInv, Reported

-----------------------------------------------------------------------------
(* The steps. *)

\* Before the first invocation.
LEMMA InitInv == Init => CliInv
  <1> SUFFICES ASSUME Init PROVE CliInv
    OBVIOUS
  <1>1. TypeOK
    <2>1. /\ pc = "shell" /\ user \in DOMAIN MaxRuns /\ runs = 0 /\ resumed = NoFile
          /\ stop = 0 /\ every = 1 /\ remaining = 0 /\ chunk = 0 /\ index = 0
          /\ latest = NoFile /\ failures = {} /\ files = {}
      BY DEF Init
    <2>2. stream \in Positions /\ terminal \in BOOLEAN /\ ok \in BOOLEAN
      BY FreshPosition DEF Init
    <2>3. resumed \in Records \cup {NoFile} /\ latest \in Records \cup {NoFile}
      BY <2>1, Zenon
    <2>4. failures \in SUBSET Phases /\ files \in SUBSET Records
      BY <2>1, Zenon
    <2>5. 1 \in Nat \ {0} /\ 0 \in Nat
      OBVIOUS
    <2> QED
      BY <2>1, <2>2, <2>3, <2>4, <2>5, Zenon DEF TypeOK
  <1>2. Filed /\ SavedAsIs /\ Drawing /\ Receipts /\ Reported
    BY DEF Init, Filed, SavedAsIs, Drawing, Receipts, Reported
  <1>3. TerminalNeverDrawn /\ HonestReport
    BY DEF Init, TerminalNeverDrawn, HonestReport
  <1> QED
    BY <1>1, <1>2, <1>3 DEF CliInv

\* An invocation starts a stream, or restores one as its file says: a terminal
\* file is terminal for it too.
LEMMA OpenInv ==
  ASSUME CliInv, NEW from \in files \cup {NoFile}, Open(from)
  PROVE  CliInv'
  <1> USE DEF CliInv
  <1>1. /\ pc' = "save" /\ runs' = runs + 1 /\ resumed' = from
        /\ stop' \in Nat /\ every' \in Nat \ {0} /\ remaining' = stop'
        /\ chunk' = 0 /\ index' = 0 /\ latest' = NoFile /\ failures' = {}
        /\ ok' = TRUE /\ report' = NoReport
        /\ UNCHANGED <<user, faults, files>>
    BY OptionsAssumption DEF Open, TypeOK
  <1>2. /\ from = NoFile => stream' = Fresh /\ terminal' = FALSE
        /\ from # NoFile => stream' = from.position /\ terminal' = from.terminal
    BY DEF Open
  <1>3. /\ stream' \in Positions /\ terminal' \in BOOLEAN
        /\ from \in Records \cup {NoFile}
    BY <1>2, FreshPosition, RecordParts DEF TypeOK
  <1>4. /\ runs' \in Nat /\ runs' # 0
        /\ \A f \in files : f.run < runs'
    <2>1. runs \in Nat /\ \A f \in files : f.run \in Nat /\ f.run <= runs
      BY RecordParts DEF TypeOK, Filed
    <2> QED
      BY <1>1, <2>1
  <1>5. TypeOK'
    BY <1>1, <1>3, <1>4 DEF TypeOK
  <1>6. Filed'
    <2>1. \A f \in files : f.run \in Nat
      BY RecordParts DEF TypeOK
    <2> QED
      BY <1>1, <1>4, <2>1 DEF Filed
  <1>7. SavedAsIs' /\ Drawing' /\ Reported' /\ HonestReport'
    BY <1>1 DEF SavedAsIs, Drawing, Reported, HonestReport
  <1>8. Receipts'
    BY <1>1, <1>2 DEF Receipts
  <1>9. TerminalNeverDrawn'
    <2>1. \A f \in files : f.run # runs'
      BY <1>4, RecordParts DEF TypeOK
    <2> QED
      BY <1>1, <1>2, <2>1 DEF TerminalNeverDrawn
  <1> QED
    BY <1>5, <1>6, <1>7, <1>8, <1>9

\* Before the first draw, after each bounded advance and for a receipt, the
\* stream is published as it is, or the failure is on record.
LEMMA PublishInv ==
  ASSUME CliInv, Save \/ Receipt
  PROVE  CliInv'
  <1> USE DEF CliInv
  <1>1. /\ pc \in {"save", "receipt"}
        /\ pc' = IF pc = "save" THEN "loop" ELSE "exit"
        /\ UNCHANGED <<runs, user, resumed, stop, every, stream, remaining, chunk, terminal, report>>
    BY DEF Save, Receipt, invocation
  <1>2. runs # 0 /\ report = NoReport
    BY <1>1, Unreported DEF Filed
  <1>3. CASE Saved
    <2> DEFINE new == File(TRUE)
    <2>1. /\ files' = files \cup {new} /\ latest' = new /\ index' = index + 1
          /\ ok' = TRUE /\ UNCHANGED failures
      BY <1>3 DEF Saved
    <2>2. /\ new \in Records /\ new # NoFile
          /\ new.run = runs /\ new.position = stream /\ new.terminal = terminal /\ new.acked
      BY <1>2, FileParts, RecordParts
    <2> HIDE DEF new
    <2>3. TypeOK'
      BY <1>1, <2>1, <2>2 DEF TypeOK
    <2>4. Filed'
      BY <1>1, <1>2, <2>1, <2>2 DEF Filed, TypeOK
    <2>5. SavedAsIs' /\ Drawing'
      BY <1>1, <2>1, <2>2 DEF SavedAsIs, Drawing
    <2>6. Receipts'
      BY <1>1, <2>1, <2>2 DEF Receipts
    <2>7. Reported' /\ HonestReport'
      BY <1>1, <1>2 DEF Reported, HonestReport
    <2>8. TerminalNeverDrawn'
      BY <1>1, <2>1, <2>2 DEF TerminalNeverDrawn
    <2> QED
      BY <2>3, <2>4, <2>5, <2>6, <2>7, <2>8
  <1>4. CASE NotSaved
    <2> DEFINE new == File(FALSE)
    <2>1. /\ files' \in {files, files \cup {new}}
          /\ failures' = failures \cup {"persistence"} /\ ok' = FALSE
          /\ UNCHANGED <<latest, index>>
      BY <1>4 DEF NotSaved
    <2>2. new \in Records /\ new.run = runs /\ new.position = stream
      BY <1>2, FileParts
    <2> HIDE DEF new
    <2>3. TypeOK'
      BY <1>1, <2>1, <2>2 DEF TypeOK, Phases
    <2>4. Filed'
      BY <1>1, <1>2, <2>1, <2>2 DEF Filed, TypeOK
    <2>5. SavedAsIs' /\ Drawing'
      BY <1>1, <2>1 DEF SavedAsIs, Drawing
    <2>6. Receipts'
      BY <1>1, <2>1 DEF Receipts
    <2>7. Reported' /\ HonestReport'
      BY <1>1, <1>2 DEF Reported, HonestReport
    <2>8. TerminalNeverDrawn'
      BY <1>1, <2>1, <2>2 DEF TerminalNeverDrawn
    <2> QED
      BY <2>3, <2>4, <2>5, <2>6, <2>7, <2>8
  <1> QED
    BY <1>3, <1>4 DEF Save, Receipt

\* The least of three numbers is one of them.
LEMMA LeastOfThree ==
  ASSUME NEW a \in Int, NEW b \in Int, NEW c \in Int
  PROVE  /\ Least({a, b, c}) \in {a, b, c}
         /\ Least({a, b, c}) <= a /\ Least({a, b, c}) <= b /\ Least({a, b, c}) <= c
  <1>1. \E x \in {a, b, c} : \A y \in {a, b, c} : x <= y
    BY SMT
  <1>2. /\ Least({a, b, c}) \in {a, b, c}
        /\ \A y \in {a, b, c} : Least({a, b, c}) <= y
    BY <1>1, Zenon DEF Least
  <1> QED
    BY <1>2, Zenon

\* An advance is no longer than the rows, the invocation and --checkpoint-every
\* allow, and only of a stream that is saved as it is.
LEMMA AdvanceInv == CliInv /\ Advance => CliInv'
  <1> SUFFICES ASSUME CliInv, Advance PROVE CliInv'
    OBVIOUS
  <1> USE DEF CliInv
  <1>1. /\ pc = "loop" /\ pc' = "draw"
        /\ ok /\ ~terminal /\ remaining > 0 /\ ~stream.failed /\ Committed < Shots
        /\ chunk' = Least({remaining, every, Shots - Committed})
        /\ remaining' = remaining - chunk'
        /\ UNCHANGED <<runs, faults, user, resumed, stop, every, stream, index, latest, terminal,
                       ok, failures, files, report>>
    BY DEF Advance, MayAdvance, Running, invocation
  <1>2. Committed \in Nat /\ every \in Nat \ {0} /\ remaining \in Nat
    BY PositionParts DEF TypeOK, Committed
  <1>3. /\ chunk' \in Nat /\ chunk' > 0 /\ chunk' <= remaining /\ chunk' <= every
        /\ Committed + chunk' <= Shots
    <2>1. /\ chunk' \in {remaining, every, Shots - Committed}
          /\ chunk' <= remaining /\ chunk' <= every /\ chunk' <= Shots - Committed
      <3>1. remaining \in Int /\ every \in Int /\ Shots - Committed \in Int
        BY <1>2
      <3> QED
        BY <1>1, <3>1, LeastOfThree
    <2> QED
      BY <1>1, <1>2, <2>1
  <1>4. TypeOK'
    BY <1>1, <1>2, <1>3 DEF TypeOK
  <1>5. Filed' /\ SavedAsIs'
    BY <1>1 DEF Filed, SavedAsIs
  <1>6. Drawing'
    <2>1. latest # NoFile /\ latest.position = stream
      BY <1>1 DEF SavedAsIs
    <2>2. Committed' = Committed /\ Len(latest.position.rows) = Committed
      BY <1>1, <2>1 DEF Committed
    <2> DEFINE c == chunk'
    <2>3. c \in Nat /\ c <= every
      BY <1>3
    <2> HIDE DEF c
    <2>4. Committed + c <= Committed + every
      BY <1>2, <2>3
    <2> QED
      BY <1>1, <1>3, <2>1, <2>2, <2>4 DEF Drawing, c
  <1>7. Receipts'
    BY <1>1 DEF Receipts
  <1>8. Reported' /\ HonestReport'
    BY <1>1, Unreported DEF Reported, HonestReport
  <1>9. TerminalNeverDrawn'
    BY <1>1 DEF TerminalNeverDrawn
  <1> QED
    BY <1>4, <1>5, <1>6, <1>7, <1>8, <1>9

\* No draw is made of a stream resumed from a terminal file or a failed position.
LEMMA NotDrawn ==
  ASSUME CliInv, pc = "draw"
  PROVE  /\ ~(resumed # NoFile /\ (resumed.terminal \/ resumed.position.failed))
         /\ latest # NoFile /\ chunk > 0 /\ ~terminal /\ report = NoReport
  BY Unreported DEF CliInv, Receipts, Drawing, TerminalNeverDrawn

\* One more row, still within the limits.
LEMMA DrawInv == CliInv /\ Draw => CliInv'
  <1> SUFFICES ASSUME CliInv, Draw PROVE CliInv'
    OBVIOUS
  <1> USE DEF CliInv
  <1>1. /\ pc = "draw" /\ pc' = (IF chunk > 1 THEN "draw" ELSE "save")
        /\ stream' = [rows   |-> Append(stream.rows, stream.random),
                      random |-> Drawn[stream.random],
                      failed |-> FALSE]
        /\ chunk' = chunk - 1
        /\ UNCHANGED <<runs, faults, user, resumed, stop, every, remaining, index, latest,
                       terminal, ok, failures, files, report>>
    BY DEF Draw, invocation
  <1>2. /\ stream' \in Positions /\ ~stream'.failed
        /\ Committed \in Nat /\ Committed' = Committed + 1
    <2>1. stream.rows \in Seq(RngStates) /\ stream.random \in RngStates
      BY PositionParts DEF TypeOK
    <2> QED
      BY <1>1, <2>1 DEF Positions, Committed
  <1>3. chunk \in Nat /\ chunk > 0
    BY <1>1, NotDrawn DEF TypeOK
  <1>4. TypeOK'
    BY <1>1, <1>2, <1>3 DEF TypeOK
  <1>5. Filed' /\ SavedAsIs'
    BY <1>1, <1>3 DEF Filed, SavedAsIs
  <1>6. Drawing'
    <2>1. Committed' + chunk' = Committed + chunk
      BY <1>1, <1>2, <1>3
    <2> QED
      BY <1>1, <1>2, <1>3, <2>1 DEF Drawing
  <1>7. Receipts'
    BY <1>1 DEF Receipts
  <1>8. Reported' /\ HonestReport' /\ TerminalNeverDrawn'
    BY <1>1, NotDrawn DEF Reported, HonestReport, TerminalNeverDrawn
  <1> QED
    BY <1>4, <1>5, <1>6, <1>7, <1>8

\* A failing draw ends the stream where it is.
LEMMA DrawFailsInv == CliInv /\ DrawFails => CliInv'
  <1> SUFFICES ASSUME CliInv, DrawFails PROVE CliInv'
    OBVIOUS
  <1> USE DEF CliInv
  <1>1. /\ pc = "draw" /\ pc' = "save" /\ chunk' = 0
        /\ UNCHANGED <<runs, user, resumed, stop, every, remaining, index, latest,
                       terminal, ok, failures, files, report>>
    BY DEF DrawFails, invocation
  <1>2. stream' \in Positions
    <2>1. stream.rows \in Seq(RngStates) /\ stream.random \in RngStates
      BY PositionParts DEF TypeOK
    <2>2. PICK r \in Interrupted[stream.random] \cup {stream.random, Drawn[stream.random]} :
            stream' = [rows |-> stream.rows, random |-> r, failed |-> TRUE]
      BY DEF DrawFails
    <2>3. r \in RngStates
      BY <2>1, <2>2
    <2> QED
      BY <2>1, <2>2, <2>3 DEF Positions
  <1>3. TypeOK'
    BY <1>1, <1>2 DEF TypeOK
  <1>4. Filed' /\ SavedAsIs' /\ Drawing' /\ Receipts'
    BY <1>1 DEF Filed, SavedAsIs, Drawing, Receipts
  <1>5. Reported' /\ HonestReport' /\ TerminalNeverDrawn'
    BY <1>1, NotDrawn DEF Reported, HonestReport, TerminalNeverDrawn
  <1> QED
    BY <1>3, <1>4, <1>5

\* Anything found and not on record yet goes into a receipt.
LEMMA ReportInv == CliInv /\ Report => CliInv'
  <1> SUFFICES ASSUME CliInv, Report PROVE CliInv'
    OBVIOUS
  <1> USE DEF CliInv
  <1>1. /\ pc = "loop" /\ failures' = Failures
        /\ IF Failures # {} /\ ok THEN terminal' = TRUE /\ pc' = "receipt"
                                  ELSE terminal' = terminal /\ pc' = "exit"
        /\ UNCHANGED <<runs, faults, user, resumed, stop, every, stream, remaining, chunk, index,
                       latest, ok, files, report>>
    BY DEF Report, invocation
  <1>2. /\ Failures \in SUBSET Phases
        /\ failures \subseteq Failures
        /\ Failures = {} => Sound /\ ~terminal
    <2>1. failures \in SUBSET Phases
      BY DEF TypeOK
    <2>2. Failures \in SUBSET Phases
      BY <2>1 DEF Failures, Phases
    <2>3. failures \subseteq Failures
      BY DEF Failures
    <2>4. /\ stream.failed => "draw" \in Failures
          /\ ~Diagnosed => "diagnostic" \in Failures
          /\ Committed \in Unexportable[user] => "export" \in Failures
          /\ terminal => "terminal" \in Failures
      BY DEF Failures
    <2> QED
      BY <2>2, <2>3, <2>4 DEF Sound
  <1>3. TypeOK'
    BY <1>1, <1>2 DEF TypeOK
  <1>4. Filed'
    BY <1>1 DEF Filed
  <1>5. SavedAsIs'
    BY <1>1, <1>2 DEF SavedAsIs
  <1>6. Drawing'
    BY <1>1 DEF Drawing
  <1>7. Sound' <=> Sound
    BY <1>1 DEF Sound, Diagnosed, Committed
  <1>8. Receipts'
    BY <1>1, <1>2, <1>7 DEF Receipts, SavedAsIs
  <1>9. Reported' /\ HonestReport'
    BY <1>1, Unreported DEF Reported, HonestReport
  <1>10. TerminalNeverDrawn'
    BY <1>1 DEF TerminalNeverDrawn
  <1> QED
    BY <1>3, <1>4, <1>5, <1>6, <1>8, <1>9, <1>10

\* The report says what the file it names says.
LEMMA ExitInv == CliInv /\ Exit => CliInv'
  <1> SUFFICES ASSUME CliInv, Exit PROVE CliInv'
    OBVIOUS
  <1> USE DEF CliInv
  <1>1. /\ pc = "exit" /\ pc' = "shell"
        /\ report' = [status |-> IF failures # {} \/ ~ ok THEN "failed"
                                 ELSE IF Committed = Shots THEN "complete" ELSE "paused",
                      file   |-> IF latest # NoFile THEN latest ELSE resumed]
        /\ UNCHANGED <<runs, faults, user, resumed, stop, every, stream, remaining, chunk, index,
                       latest, terminal, ok, failures, files>>
    BY DEF Exit, invocation
  <1>2. /\ report'.status = IF failures # {} \/ ~ ok THEN "failed"
                            ELSE IF Committed = Shots THEN "complete" ELSE "paused"
        /\ report'.file = IF latest # NoFile THEN latest ELSE resumed
    BY <1>1
  <1>3. TypeOK'
    BY <1>1 DEF TypeOK
  <1>4. Filed' /\ SavedAsIs' /\ Drawing' /\ Receipts' /\ TerminalNeverDrawn'
    BY <1>1 DEF Filed, SavedAsIs, Drawing, Receipts, TerminalNeverDrawn
  <1>5. ok => latest # NoFile /\ latest.position = stream /\ latest \in files
    BY <1>1 DEF SavedAsIs, Filed
  <1>6. ~ok => report'.status = "failed" /\ "persistence" \in failures'
    BY <1>1, <1>2 DEF SavedAsIs
  <1>7. Reported'
    BY <1>1, <1>2, <1>5, <1>6 DEF Reported
  <1>8. HonestReport'
    <2>1. Committed' = Committed /\ Diagnosed' = Diagnosed
      BY <1>1 DEF Committed, Diagnosed
    <2>2. ok /\ failures = {} => ~latest.terminal /\ ~stream.failed /\ Diagnosed
                                 /\ Committed \notin Unexportable[user]
      BY <1>1 DEF Receipts, Sound
    <2>3. ok /\ failures # {} => latest.terminal
      BY <1>1 DEF Receipts
    <2> QED
      BY <1>1, <1>2, <1>5, <1>6, <2>1, <2>2, <2>3 DEF HonestReport
  <1> QED
    BY <1>3, <1>4, <1>7, <1>8

\* A kill may leave the file that was being published.
LEMMA KillInv == CliInv /\ Kill => CliInv'
  <1> SUFFICES ASSUME CliInv, Kill PROVE CliInv'
    OBVIOUS
  <1> USE DEF CliInv
  <1> DEFINE new == File(FALSE)
  <1>1. /\ pc # "shell" /\ pc' = "shell"
        /\ files' \in {files, files \cup {new}}
        /\ UNCHANGED <<runs, user, resumed, stop, every, stream, remaining, chunk, index,
                       latest, terminal, ok, failures, report>>
    BY DEF Kill, invocation
  <1>2. runs # 0 /\ report = NoReport
    BY <1>1, Unreported DEF Filed
  <1>3. new \in Records /\ new.run = runs /\ new.position = stream
    BY <1>2, FileParts
  <1> HIDE DEF new
  <1>4. TypeOK'
    BY <1>1, <1>3 DEF TypeOK
  <1>5. Filed'
    BY <1>1, <1>3 DEF Filed, TypeOK
  <1>6. SavedAsIs' /\ Drawing' /\ Receipts' /\ Reported' /\ HonestReport'
    BY <1>1, <1>2 DEF SavedAsIs, Drawing, Receipts, Reported, HonestReport
  <1>7. TerminalNeverDrawn'
    BY <1>1, <1>3 DEF TerminalNeverDrawn
  <1> QED
    BY <1>4, <1>5, <1>6, <1>7

\* Losing power loses no file that was acknowledged.
LEMMA LosePowerInv == CliInv /\ LosePower => CliInv'
  <1> SUFFICES ASSUME CliInv, LosePower PROVE CliInv'
    OBVIOUS
  <1> USE DEF CliInv
  <1>1. /\ pc' = "shell" /\ files' \subseteq files
        /\ \A f \in files : f.acked => f \in files'
        /\ UNCHANGED <<runs, user, resumed, stop, every, stream, remaining, chunk, index,
                       latest, terminal, ok, failures, report>>
    BY DEF LosePower, invocation, Unacknowledged
  <1>2. TypeOK'
    BY <1>1 DEF TypeOK
  <1>3. Filed'
    BY <1>1 DEF Filed
  <1>4. SavedAsIs' /\ Drawing' /\ Receipts' /\ Reported' /\ TerminalNeverDrawn'
    BY <1>1 DEF SavedAsIs, Drawing, Receipts, Reported, TerminalNeverDrawn
  <1>5. HonestReport'
    <2>1. latest # NoFile => latest \in files'
      BY <1>1 DEF Filed
    <2>2. Committed' = Committed /\ Diagnosed' = Diagnosed
      BY <1>1 DEF Committed, Diagnosed
    <2> QED
      BY <1>1, <2>1, <2>2 DEF HonestReport, Reported
  <1> QED
    BY <1>2, <1>3, <1>4, <1>5

\* The invariant survives every step.
LEMMA StepInv == CliInv /\ [Next]_vars => CliInv'
  <1> SUFFICES ASSUME CliInv, [Next]_vars PROVE CliInv'
    OBVIOUS
  <1>1. CASE Start \/ Resume
    <2>1. \E from \in files \cup {NoFile} : Open(from)
      BY <1>1 DEF Start, Resume, Resumable
    <2> QED
      BY <2>1, OpenInv
  <1>2. CASE Program
    BY <1>2, PublishInv, AdvanceInv, DrawInv, ReportInv, ExitInv DEF Program
  <1>3. CASE DrawFails \/ Kill \/ LosePower
    BY <1>3, DrawFailsInv, KillInv, LosePowerInv
  <1>4. CASE UNCHANGED vars
    BY <1>4 DEF vars, CliInv, TypeOK, Filed, SavedAsIs, Drawing, Receipts, Sound, Reported,
       TerminalNeverDrawn, HonestReport, Committed, Diagnosed
  <1> QED
    BY <1>1, <1>2, <1>3, <1>4 DEF Next

\* The inductive invariant holds.
THEOREM Invariance == Spec => []CliInv
  BY InitInv, StepInv, PTL DEF Spec

-----------------------------------------------------------------------------
(* What it entails. *)

\* Every variable of the command has its type.
THEOREM TypeCorrect == Spec => []TypeOK
  BY Invariance, PTL DEF CliInv

\* Draws never run ahead of the disk by more than --checkpoint-every
\* (stream.rs: checkpoint before the first draw, advance in bounded steps).
THEOREM DrawsAreWrittenAhead == Spec => []WriteAhead
  <1>1. CliInv => WriteAhead
    BY DEF CliInv, Filed, Drawing, WriteAhead
  <1> QED
    BY <1>1, Invariance, PTL

\* Nothing is ever drawn from a file saved after a failure (stream.rs: restore
\* and terminal_failure).
THEOREM TerminalStaysTerminal == Spec => []TerminalNeverDrawn
  BY Invariance, PTL DEF CliInv

\* A report says of the stream what the file it names says (stream.rs: report
\* and finish).
THEOREM ReportsAreHonest == Spec => []HonestReport
  BY Invariance, PTL DEF CliInv

-----------------------------------------------------------------------------
(* The refinement of ExactSampling: a running invocation holds the live     *)
(* position, and its files are the positions that can be resumed.           *)

Stored == {f.position : f \in files}

\* A position is a live one.
LEMMA PositionNotLost ==
  ASSUME NEW s \in Positions
  PROVE  s # Sampling!Lost
  <1>1. s = [rows |-> s.rows, random |-> s.random, failed |-> s.failed]
    BY DEF Positions
  <1>2. "rows" \in DOMAIN s
    BY <1>1
  <1>3. "rows" \notin DOMAIN Sampling!Lost
    BY DEF Sampling!Lost
  <1> QED
    BY <1>2, <1>3

\* A publication stores the position, and nothing else that is new.
LEMMA PublishRefines == CliInv /\ (Save \/ Receipt) => Sampling!Save
  <1> SUFFICES ASSUME CliInv, Save \/ Receipt PROVE Sampling!Save
    OBVIOUS
  <1>1. pc # "shell" /\ pc' # "shell" /\ stream' = stream
    BY DEF Save, Receipt
  <1>2. stream # Sampling!Lost
    BY PositionNotLost DEF CliInv, TypeOK
  <1>3. \A f \in files' : f \in files \/ f = File(TRUE) \/ f = File(FALSE)
    BY DEF Save, Receipt, Saved, NotSaved
  <1>4. File(TRUE).position = stream /\ File(FALSE).position = stream
    BY DEF File
  <1>5. Stored' \in SUBSET (Stored \cup {stream})
    BY <1>3, <1>4 DEF Stored
  <1> QED
    BY <1>1, <1>2, <1>5 DEF Sampling!Save, Sampling!Lost, Stored

\* A step of the command is a step of the sampling run or a stutter.
LEMMA StepRefines == CliInv /\ [Next]_vars => [Sampling!Next]_Sampling!vars
  <1> SUFFICES ASSUME CliInv, [Next]_vars PROVE [Sampling!Next]_Sampling!vars
    OBVIOUS
  <1>1. CASE Start \/ Resume
    <2>1. PICK from \in files \cup {NoFile} : Open(from)
      BY <1>1 DEF Start, Resume, Resumable
    <2>2. pc = "shell" /\ pc' = "save" /\ files' = files
      BY <2>1 DEF Open
    <2>3. CASE from = NoFile
      <3>1. stream' = Sampling!Fresh
        BY <2>1, <2>3 DEF Open, Fresh, Sampling!Fresh
      <3> QED
        BY <2>2, <3>1 DEF Sampling!Next, Sampling!Begin, Sampling!Lost
    <2>4. CASE from \in files /\ from # NoFile
      <3>1. stream' = from.position /\ from.position \in Stored
        BY <2>1, <2>4 DEF Open, Stored
      <3> QED
        BY <2>2, <3>1 DEF Sampling!Next, Sampling!Resume, Sampling!Lost, Stored
    <2> QED
      BY <2>3, <2>4
  <1>2. CASE Save \/ Receipt
    BY <1>2, PublishRefines DEF Sampling!Next
  <1>3. CASE Advance \/ Report
    <2>1. pc # "shell" /\ pc' # "shell" /\ stream' = stream /\ files' = files
      BY <1>3 DEF Advance, Report
    <2> QED
      BY <2>1 DEF Sampling!vars
  <1>4. CASE Draw \/ DrawFails
    <2>1. pc = "draw" /\ pc' # "shell" /\ files' = files
      BY <1>4 DEF Draw, DrawFails
    <2>2. /\ stream # Sampling!Lost /\ ~stream.failed
          /\ Len(stream.rows) < Shots
      <3>1. chunk \in Nat /\ chunk > 0 /\ Committed + chunk <= Shots /\ ~stream.failed
        BY <2>1 DEF CliInv, TypeOK, Drawing
      <3>2. stream \in Positions
        BY DEF CliInv, TypeOK
      <3>3. Committed \in Nat
        BY <3>2, PositionParts DEF Committed
      <3>4. Committed < Shots
        BY <3>1, <3>3
      <3> QED
        BY <3>1, <3>2, <3>4, PositionNotLost DEF Committed
    <2>3. CASE Draw
      <3>1. stream' = [rows   |-> Append(stream.rows, stream.random),
                       random |-> Drawn[stream.random],
                       failed |-> FALSE]
        BY <2>3 DEF Draw
      <3> QED
        BY <2>1, <2>2, <3>1 DEF Sampling!Next, Sampling!Draw, Sampling!Live, Sampling!Lost
    <2>4. CASE DrawFails
      <3>1. \E r \in Interrupted[stream.random] \cup {stream.random, Drawn[stream.random]} :
              stream' = [rows |-> stream.rows, random |-> r, failed |-> TRUE]
        BY <2>4 DEF DrawFails
      <3> QED
        BY <2>1, <2>2, <3>1 DEF Sampling!Next, Sampling!Fail, Sampling!Live, Sampling!Lost
    <2> QED
      BY <1>4, <2>3, <2>4
  <1>5. CASE Exit \/ Kill \/ LosePower
    <2>1. pc' = "shell"
      BY <1>5 DEF Exit, Kill, LosePower
    <2>2. \A f \in files' : f \in files \/ (pc # "shell" /\ f = File(FALSE))
      BY <1>5 DEF Exit, Kill, LosePower
    <2>3. stream # Sampling!Lost
      BY PositionNotLost DEF CliInv, TypeOK
    <2>4. File(FALSE).position = stream
      BY DEF File
    <2>5. \A p \in Stored' : p \in Stored \/ (pc # "shell" /\ p = stream)
      BY <2>2, <2>4 DEF Stored
    <2> QED
      BY <2>1, <2>3, <2>5 DEF Sampling!Next, Sampling!Lose, Sampling!Lost, Stored
  <1>6. CASE UNCHANGED vars
    BY <1>6 DEF vars, Sampling!vars
  <1> QED
    BY <1>1, <1>2, <1>3, <1>4, <1>5, <1>6 DEF Next, Program

\* However often the command is stopped, killed and resumed, and from whichever
\* of its files, it is one exact sampling run from the seed.
THEOREM ImplementsExactSampling == Spec => Implements
  <1>1. Init => Sampling!Init
    BY DEF Init, Sampling!Init, Sampling!Lost
  <1> QED
    BY <1>1, StepRefines, Invariance, PTL DEF Spec, Implements, Sampling!Spec
=============================================================================
