------------------------------ MODULE AltTree ------------------------------
(***************************************************************************)
(* The alternating trees of the matcher (matcher/alt_tree.rs) and the      *)
(* arenas that hold tree nodes and regions (util/arena.rs).                *)
(*                                                                         *)
(* A tree node is a pair of an inner region, which shrinks, and an outer   *)
(* one, which grows; the root has an outer region only.  The edge a parent *)
(* keeps for a child is the reverse of the child's link, so a child is     *)
(* known by its slot alone.  A slot that is freed keeps what it holds until*)
(* it is used again.                                                       *)
(***************************************************************************)
EXTENDS GraphFlooder

\* edge leads from the inner region to the outer one, link from the inner
\* region to the outer one of the parent.
NewPair(inner, outer, edge) ==
  [inner |-> inner, outer |-> outer, edge |-> edge, parent |-> None, link |-> NoEdge,
   children |-> <<>>]

-----------------------------------------------------------------------------
(* Arenas: the slot freed last is used first.                              *)

SlotFor(items, unused) == IF unused = <<>> THEN Len(items) + 1 ELSE Last(unused)

Stored(items, slot, new) ==
  IF slot > Len(items) THEN Append(items, new) ELSE [items EXCEPT ![slot] = new]

LessLast(unused) == IF unused = <<>> THEN <<>> ELSE Front(unused)

\* The slots the next region and the next tree node are put in.
NextRegion(m) == SlotFor(m.region, m.unusedRegions)
NextTree(m)   == SlotFor(m.tree, m.unusedTrees)

\* Mutant: the slot is taken but stays on the free list.
RegionAllocatedTwice(m, new) == [m EXCEPT !.region = Stored(@, NextRegion(m), new)]

RegionAllocated(m, new) ==
  [m EXCEPT !.region = Stored(@, NextRegion(m), new), !.unusedRegions = LessLast(@)]

TreeAllocated(m, new) ==
  [m EXCEPT !.tree = Stored(@, NextTree(m), new), !.unusedTrees = LessLast(@),
            !.visited = @ \ {NextTree(m)}]

RegionFreed(m, r) == [m EXCEPT !.unusedRegions = Append(@, r)]
TreeFreed(m, t)   == [m EXCEPT !.unusedTrees = Append(@, t)]

-----------------------------------------------------------------------------
(* Children, ancestors, rotation.                                          *)

\* unstable_erase_by_node: the last child takes the place of the erased one.
Erased(children, t) ==
  IF t \notin ToSet(children) THEN children
  ELSE Front([children EXCEPT ![SelectInSeq(children, LAMBDA c : c = t)] = Last(children)])

\* add_child: t hangs below p; link leads from t's inner region to p's outer one.
Hung(m, t, p, link) ==
  [m EXCEPT !.tree[p].children = Append(@, t), !.tree[t].parent = p, !.tree[t].link = link]

RECURSIVE BecomeRoot(_, _)

\* become_root: the links between t and the root are turned round, each node
\* on the way gives its inner region to its parent.
BecomeRoot(m, t) ==
  IF m.tree[t].parent = None THEN m
  ELSE LET here == m.tree[t]
           p    == here.parent
           up   == BecomeRoot(m, p)
           turned == [up EXCEPT !.tree[p].inner = here.inner, !.tree[p].edge = here.link,
                                !.tree[p].children = Erased(@, t),
                                !.tree[t].inner = None, !.tree[t].edge = NoEdge,
                                !.tree[t].parent = None, !.tree[t].link = NoEdge]
       IN Hung(turned, p, t, here.edge)

\* The two walks to the roots by turns, until one comes to a node that is marked.
RECURSIVE Meet(_, _, _, _)
Meet(m, a, b, marked) ==
  LET ap  == m.tree[a].parent
      bp  == m.tree[b].parent
      one == marked \cup ({ap} \ {None})
  IN CASE ap = None /\ bp = None           -> [at |-> None, marked |-> marked]
       [] ap # None /\ ap \in marked       -> [at |-> ap, marked |-> marked]
       [] bp # None /\ bp \in one          -> [at |-> bp, marked |-> one]
       [] OTHER -> Meet(m, IF ap = None THEN a ELSE ap, IF bp = None THEN b ELSE bp,
                        one \cup ({bp} \ {None}))

\* clear_visited_upward: until a node that is not marked.
RECURSIVE Unmarked(_, _, _)
Unmarked(m, t, marked) ==
  IF t \notin marked THEN marked ELSE Unmarked(m, m.tree[t].parent, marked \ {t})

\* Mutant: the marks above the common ancestor are left.
CommonAncestorMarked(m, a, b) ==
  LET met == Meet(m, a, b, m.visited \cup {a, b})
  IN [at |-> met.at, m |-> [m EXCEPT !.visited = met.marked \ {met.at}]]

\* most_recent_common_ancestor.  The marks below it are left: the nodes that
\* carry them are pruned.
CommonAncestor(m, a, b) ==
  LET met  == Meet(m, a, b, m.visited \cup {a, b})
      left == IF met.at = None THEN Unmarked(m, b, Unmarked(m, a, met.marked))
              ELSE Unmarked(m, met.at, met.marked)
  IN [at |-> met.at, m |-> [m EXCEPT !.visited = left]]

-----------------------------------------------------------------------------
(* Pruning.                                                                *)

\* The regions a node adds to the cycle, each with the edge to the next one.
PathStep(m, t, back) ==
  LET here == m.tree[t]
  IN IF back THEN <<[region |-> here.inner, edge |-> here.edge],
                    [region |-> m.tree[here.parent].outer, edge |-> Reversed(here.link)]>>
     ELSE <<[region |-> here.outer, edge |-> Reversed(here.edge)],
            [region |-> here.inner, edge |-> here.link]>>

\* prune_upward_path_stopping_before, which also tells the regions that they
\* are in no tree any more; got has the memory, the orphans and the path so far.
RECURSIVE Pruned(_, _, _, _)
Pruned(got, t, stop, back) ==
  IF t = stop THEN got
  ELSE LET m    == got.m
           here == m.tree[t]
           cut  == [m EXCEPT !.tree[t].children = <<>>,
                             !.tree[here.parent].children = Erased(@, t),
                             !.region[here.inner].tree = None,
                             !.region[here.outer].tree = None]
       IN Pruned([m       |-> TreeFreed(cut, t),
                  orphans |-> got.orphans \o here.children,
                  path    |-> got.path \o PathStep(m, t, back)], here.parent, stop, back)
=============================================================================
