--------------------------- MODULE ReferenceTree ---------------------------
(***************************************************************************)
(* The packed reference sample of src/rstim/src/data_path.rs, which does   *)
(* not unroll a long REPEAT: as soon as the stabilizer state at the end of *)
(* an iteration is one that was seen before, whole periods are skipped and *)
(* their bits kept once, in a tree with repetitions                        *)
(* (reference_sample_tree.rs). The packed inverse tableau is taken for the *)
(* tableau of which canonical_snapshot gives the rows.                     *)
(***************************************************************************)
EXTENDS Executor

CONSTANT RepeatFoldThreshold     \* shorter loops are executed as they are

ASSUME RepeatFoldThresholdIsNat == RepeatFoldThreshold \in Nat

\* What the packed tableau can do; any other instruction makes the reference fall back to the
\* executor's.
PackedOps ==
  {"I", "H", "S", "S_DAG", "X", "Y", "Z", "CX"} \cup Measurements \cup MeasureResets \cup Resets
    \cup OneQubitNoise \cup TwoQubitNoise \cup CorrelatedNoise \cup Annotations
RECURSIVE Packed(_)
Packed(instrs) ==
  \A i \in DOMAIN instrs :
    LET op == instrs[i]
    IN IF op.name = "REPEAT" THEN Packed(op.on) ELSE op.name \in PackedOps /\ ~HasFeedback(op)

(***************************************************************************)
(* Trees: bits, then children, all of it times over.                       *)
(***************************************************************************)

Leaf(bits) == [bits |-> bits, children |-> <<>>, times |-> 1]
NoTree == [Leaf(<<>>) EXCEPT !.times = 0]
IsPayload(t) == t.times = 1 /\ t.children = <<>>

RECURSIVE IsEmpty(_)
IsEmpty(t) ==
  t.times = 0 \/ (t.bits = <<>> /\ \A i \in DOMAIN t.children : IsEmpty(t.children[i]))

RECURSIVE Decompressed(_)
Decompressed(t) ==
  FlattenSeq([k \in 1 .. t.times |->
                t.bits \o FlattenSeq([i \in DOMAIN t.children |-> Decompressed(t.children[i])])])

AppendBits(t, bits) ==
  CASE bits = <<>> -> t
    [] bits # <<>> /\ t.children = <<>> -> [t EXCEPT !.bits = @ \o bits]
    [] bits # <<>> /\ t.children # <<>> -> [t EXCEPT !.children = Append(@, Leaf(bits))]
AppendChild(t, child) == IF IsEmpty(child) THEN t ELSE [t EXCEPT !.children = Append(@, child)]

\* Equal neighbours are counted, neighbours that occur once are joined.
Fuse(fused, t) ==
  IF fused = <<>> THEN <<t>>
  ELSE LET last == Last(fused)
       IN CASE last.bits = t.bits /\ last.children = t.children ->
                 Append(Front(fused), [last EXCEPT !.times = @ + t.times])
            [] OTHER ->
                 IF IsPayload(last) /\ t.times = 1
                 THEN Append(Front(fused), [t EXCEPT !.bits = last.bits \o @])
                 ELSE Append(fused, t)

\* Several trees in a row as one, which begins with the bits of the first if that is a payload.
Joined(trees, times) ==
  IF IsPayload(trees[1])
  THEN [bits |-> trees[1].bits, children |-> Tail(trees), times |-> times]
  ELSE [bits |-> <<>>, children |-> trees, times |-> times]

\* A row of trees many times over.
Repeated(row, times) ==
  CASE times = 1 \/ row = <<>> -> row
    [] times > 1 /\ Len(row) = 1 -> <<[row[1] EXCEPT !.times = @ * times]>>
    [] times > 1 /\ Len(row) > 1 -> <<Joined(row, times)>>

RECURSIVE Flat(_)
Flat(t) ==
  IF t.times = 0 THEN <<>>
  ELSE LET own == IF t.bits = <<>> THEN <<>> ELSE <<Leaf(t.bits)>>
       IN Repeated(FoldLeft(Fuse, <<>>,
                            own \o FlattenSeq([i \in DOMAIN t.children |-> Flat(t.children[i])])),
                   t.times)

AsTree(row) ==
  CASE Len(row) = 0 -> NoTree
    [] Len(row) = 1 -> row[1]
    [] Len(row) > 1 -> Joined(row, 1)
Simplified(t) == AsTree(Flat(t))

(***************************************************************************)
(* The state at the end of an iteration: the stabilizers brought to        *)
(* reduced echelon form, a basis row (or none, the identity) for each bit, *)
(* the x of each qubit first and then the z.                               *)
(***************************************************************************)

RowBits == 0 .. 2 * NumQubits - 1
HasBit(r, b) == IF b < NumQubits THEN b \in r.x ELSE b - NumQubits \in r.z

\* Mutant: states that differ in a sign are taken for the same.
ReducedUnsigned(r, basis) ==
  FoldLeft(LAMBDA row, b : IF HasBit(row, b) THEN RowMult(row, basis[b]) ELSE row,
           [r EXCEPT !.phase = 0], [i \in 1 .. 2 * NumQubits |-> i - 1])

ReducedRow(r, basis) ==
  FoldLeft(LAMBDA row, b : IF HasBit(row, b) THEN RowMult(row, basis[b]) ELSE row,
           r, [i \in 1 .. 2 * NumQubits |-> i - 1])

\* The basis with a reduced row in it, at the row's first bit.
Extended(basis, row) ==
  LET bits == {b \in RowBits : HasBit(row, b)}
  IN IF bits = {} THEN basis
     ELSE [b \in RowBits |->
             CASE b = Min(bits) -> row
               [] b # Min(bits) /\ HasBit(basis[b], Min(bits)) -> RowMult(basis[b], row)
               [] OTHER -> basis[b]]

BoundaryState(tab) ==
  FoldLeft(LAMBDA basis, i : Extended(basis, ReducedRow(tab[i], basis)),
           [b \in RowBits |-> Row0], [k \in 1 .. NumQubits |-> NumQubits + k - 1])

(***************************************************************************)
(* Execution.                                                              *)
(***************************************************************************)

\* All the iterations of all the loops in these instructions.
RECURSIVE LogicalIterations(_)
LogicalIterations(instrs) ==
  FoldLeft(LAMBDA n, op : IF op.name = "REPEAT" THEN n + op.arg * (1 + LogicalIterations(op.on))
                          ELSE n,
           0, instrs)

NoIterations == [expanded |-> 0, executed |-> 0, skipped |-> 0]

\* Once the state is an earlier one's, the iterations since then are a period, which is repeated
\* as long as it fits.
Folded(run, since, count, body) ==
  LET period  == run.iteration - since.iteration
      whole   == (count - run.iteration) \div period
      skipped == whole * period
      nested  == skipped * LogicalIterations(body)
      cycle   == [bits |-> <<>>, times |-> whole + 1,
                  children |-> SubSeq(run.tree.children, since.children + 1,
                                      Len(run.tree.children))]
      kept    == [run.tree EXCEPT !.children = SubSeq(@, 1, since.children)]
  IN [run EXCEPT !.folding = FALSE,
                 !.iteration = @ + skipped,
                 !.tree = IF whole = 0 THEN @ ELSE AppendChild(kept, Simplified(cycle)),
                 !.counters.expanded = @ + nested,
                 !.counters.skipped = @ + skipped + nested]

RunOn(run, shot) == [run EXCEPT !.tab = shot.tab, !.tree = AppendBits(@, shot.record)]

\* The state that was reached, if not seen before, and where in the tree.
Looked(run, state, count, body) ==
  LET back == SelectInSeq(run.seen, LAMBDA s : s.state = state)
  IN IF back > 0 THEN Folded(run, run.seen[back], count, body)
     ELSE [run EXCEPT !.seen = Append(@, [state |-> state, iteration |-> run.iteration,
                                          children |-> Len(run.tree.children)])]
Iterated(run, body) ==
  [run EXCEPT !.tab = body.tab, !.counters = body.counters,
              !.tree = AppendChild(@, body.tree), !.iteration = @ + 1]

RECURSIVE ReferenceInstrs(_, _, _), ReferenceRepeat(_, _, _, _)

\* packed_reference_instrs: the tableau, the counters and the tree after some instructions.
ReferenceInstrs(tab, counters, instrs) ==
  LET Step(run, op) ==
        IF op.name = "REPEAT"
        THEN [ReferenceRepeat(run.tab, [run.counters EXCEPT !.expanded = @ + op.arg], op.arg, op.on)
                EXCEPT !.tree = AppendChild(run.tree, @)]
        ELSE RunOn(run, RefSampleOp([NewShot EXCEPT !.tab = run.tab], op))
  IN [FoldLeft(Step, [tab |-> tab, counters |-> counters, tree |-> Leaf(<<>>)], instrs)
        EXCEPT !.tree = Simplified(@)]

\* packed_reference_repeat.
ReferenceRepeat(tab, counters, count, body) ==
  LET Look(run) == IF run.folding THEN Looked(run, BoundaryState(run.tab), count, body) ELSE run
      start == [tab |-> tab, counters |-> counters, tree |-> Leaf(<<>>), iteration |-> 0,
                folding |-> count >= RepeatFoldThreshold, seen |-> <<>>]
      Step(run, k) ==
        IF run.iteration = count THEN run
        ELSE Look(Iterated(run, ReferenceInstrs(run.tab, [run.counters EXCEPT !.executed = @ + 1],
                                                body)))
      Ended(run) == [tab |-> run.tab, counters |-> run.counters, tree |-> Simplified(run.tree)]
  IN Ended(FoldLeft(Step, Look(start), [k \in 1 .. count |-> k]))

=============================================================================
