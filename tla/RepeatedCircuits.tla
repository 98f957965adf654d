-------------------------- MODULE RepeatedCircuits -------------------------
(***************************************************************************)
(* Circuits with loops: how they are unrolled (src/rstim/src/              *)
(* transforms.rs), and their reference sample without unrolling them.      *)
(***************************************************************************)
EXTENDS StabilizerCircuits, ReferenceTree

RECURSIVE Flattened(_)
Flattened(instrs) ==
  FoldLeft(LAMBDA flat, op :
             IF op.name = "REPEAT"
             THEN flat \o FlattenSeq([k \in 1 .. op.arg |-> Flattened(op.on)])
             ELSE Append(flat, op),
           <<>>, instrs)

\* A reference sample in which long loops are skipped is the one in which they are executed: the same
\* bits, the same stabilizer state after them, and every iteration counted (data_path.rs).
FoldedExact ==
  stage = "shots" /\ pc = 0 /\ Packed(program) =>
    LET all == LogicalIterations(program)
        SameAs(folded) ==
          /\ Decompressed(folded.tree) = reference.record
          /\ BoundaryState(folded.tab) = BoundaryState(reference.tab)
          /\ folded.counters.expanded = all
          /\ folded.counters.executed + folded.counters.skipped = all
    IN SameAs(ReferenceInstrs(NewTableau, NoIterations, program))

=============================================================================
