-------------------------------- MODULE Mwpm --------------------------------
(***************************************************************************)
(* The matcher of the decoder (matcher/mwpm.rs): what is done with regions *)
(* and alternating trees when fronts meet, when a blossom has shrunk away, *)
(* and when the regions are taken apart into matches at the end.           *)
(***************************************************************************)
EXTENDS AltTree

TreeOf(m, r) == m.region[r].tree

\* The two regions are matched to each other along the edge.
Matched(m, r1, r2, e) ==
  [m EXCEPT !.region[r1].match = [region |-> r2, edge |-> e],
            !.region[r2].match = [region |-> r1, edge |-> Reversed(e)]]

\* create_detection_event, of the matcher and of the flooder.
DetectionEventCreated(m, n) ==
  LET r     == NextRegion(m)
      t     == NextTree(m)
      grown == RegionAllocated(m, [FreshRegion EXCEPT !.top = r, !.tree = t, !.shell = <<n>>])
      here  == [grown EXCEPT !.node[n] = [FreshNode EXCEPT !.region = r, !.top = r, !.source = n,
                                                           !.wake = m.node[n].wake],
                                       !.touched = @ \cup {n}]
  IN SetGrowing(TreeAllocated(here, NewPair(None, r, NoEdge)), r)

\* make_child: the pair is hung below tree node p along the edge e from there.
ChildMade(m, p, inner, outer, i2o, e) ==
  LET t == NextTree(m)
      new == TreeAllocated(m, NewPair(inner, outer, i2o))
  IN Hung([new EXCEPT !.region[inner].tree = t, !.region[outer].tree = t], t, p, Reversed(e))

\* shatter_descendants_into_matches_and_freeze, from the leaves up.
RECURSIVE TreeShattered(_, _)
TreeShattered(m, t) ==
  LET here  == m.tree[t]
      below == FoldLeft(LAMBDA acc, c : TreeShattered(acc, c),
                        [m EXCEPT !.tree[t].children = <<>>], here.children)
      pair  == SetFrozen(SetFrozen(Matched(below, here.inner, here.outer, here.edge),
                                   here.inner), here.outer)
      apart == IF here.inner = None THEN below ELSE [pair EXCEPT !.region[here.inner].tree = None]
  IN TreeFreed([apart EXCEPT !.region[here.outer].tree = None], t)

-----------------------------------------------------------------------------
(* A front of a tree meets something.                                      *)

\* handle_tree_hitting_boundary.
HitsBoundary(m, r, e) ==
  LET t == TreeOf(m, r)
  IN SetFrozen([TreeShattered(BecomeRoot(m, t), t) EXCEPT
                  !.region[r].match = [region |-> None, edge |-> e]], r)

\* Mutant: a region that has the boundary is taken to have no match.
HitsBoundaryMatchNot(m, r, other, e) == m

\* handle_tree_hitting_boundary_match: the boundary is taken from the other region.
HitsBoundaryMatch(m, r, other, e) ==
  LET t == TreeOf(m, r)
  IN TreeShattered(BecomeRoot(SetFrozen(Matched(m, r, other, e), r), t), t)

\* handle_tree_hitting_match: the pair becomes a child of r's tree node.
HitsMatch(m, r, inner, e) ==
  LET match == m.region[inner].match
      child == ChildMade(m, TreeOf(m, r), inner, match.region, match.edge, e)
      free  == [child EXCEPT !.region[inner].match = NoMatch,
                             !.region[match.region].match = NoMatch]
  IN SetGrowing(SetShrinking(free, inner), match.region)

\* handle_tree_hitting_other_tree: both trees fall apart into matches.
HitsOtherTree(m, r1, r2, e) ==
  LET t1   == TreeOf(m, r1)
      t2   == TreeOf(m, r2)
      both == TreeShattered(TreeShattered(BecomeRoot(BecomeRoot(m, t1), t2), t1), t2)
  IN SetFrozen(SetFrozen(Matched(both, r1, r2, e), r1), r2)

\* The region and those inside it.
RECURSIVE Inside(_, _)
Inside(m, r) ==
  {r} \cup UNION {Inside(m, m.region[r].children[i].region) : i \in DOMAIN m.region[r].children}

\* Mutant: the top of the regions inside stays what it was.
ToppedOutside(m, r, parent, top, rewrap) ==
  LET area == AreaOf(m, r)
      told == [m EXCEPT !.region[r].top = top, !.region[r].parent = parent,
                        !.node = [n \in area |-> [m.node[n] EXCEPT !.top = top]] @@ @]
  IN [told EXCEPT !.node = [n \in area |-> [told.node[n] EXCEPT !.wrapped = Wrapped(told, n)]] @@ @]

\* wrap_region_into_blossom, clear_region_blossom_parent: the region and those
\* inside it get a new top; the parent only of the region itself changes.
Topped(m, r, parent, top, rewrap) ==
  LET area   == AreaOf(m, r)
      told   == [m EXCEPT
        !.region = [s \in Inside(m, r) |-> [m.region[s] EXCEPT !.top = top]] @@ @,
        !.node   = [n \in area |-> [m.node[n] EXCEPT !.top = top]] @@ @]
      placed == [told EXCEPT !.region[r].parent = parent]
      Wrap(n) == [placed.node[n] EXCEPT !.wrapped = Wrapped(placed, n)]
  IN IF rewrap THEN [placed EXCEPT !.node = [n \in area |-> Wrap(n)] @@ @] ELSE placed

\* The region stops where it is and no longer waits for its shrinking to end.
Stopped(m, r) == [Turned(m, r, 0) EXCEPT !.region[r].wake = Never]

\* Mutant: a child that shrinks keeps its wait.
BlossomMadeWaiting(m, cycle) ==
  LET b     == NextRegion(m)
      new   == RegionAllocated(m, [FreshRegion EXCEPT !.top = b, !.children = cycle])
      inner == FoldLeft(LAMBDA acc, c : Topped(Turned(acc, c.region, 0), c.region, b, b, TRUE),
                        new, cycle)
  IN Rescheduled(Turned([inner EXCEPT !.region[b].y = -m.now], b, 1), AreaOf(inner, b))

\* create_blossom.
BlossomMade(m, cycle) ==
  LET b     == NextRegion(m)
      new   == RegionAllocated(m, [FreshRegion EXCEPT !.top = b, !.children = cycle])
      inner == FoldLeft(LAMBDA acc, c : Topped(Stopped(acc, c.region), c.region, b, b, TRUE),
                        new, cycle)
  IN Rescheduled([inner EXCEPT !.region[b].y = -m.now, !.region[b].slope = 1], AreaOf(inner, b))

\* handle_tree_hitting_same_tree: the cycle through the common ancestor, top,
\* becomes a blossom, which takes the place of top's outer region; what hung
\* below the cycle hangs below the blossom.
HitsSameTree(m, r1, r2, e, top) ==
  LET one   == Pruned([m |-> m, orphans |-> <<>>, path |-> <<>>], TreeOf(m, r1), top, TRUE)
      two   == Pruned([one EXCEPT !.path = <<>>], TreeOf(m, r2), top, FALSE)
      cycle == two.path \o Reverse(one.path) \o <<[region |-> r1, edge |-> e]>>
      b     == NextRegion(two.m)
      cut   == [two.m EXCEPT !.region[two.m.tree[top].outer].tree = None]
      made  == [BlossomMade(cut, cycle) EXCEPT
        !.tree[top].outer = b, !.region[b].tree = top,
        !.region[b].inChild = m.tree[top].edge.from, !.region[b].inParent = m.tree[top].link.from]
  IN FoldLeft(LAMBDA acc, c : Hung(acc, c, top, acc.tree[c].link), made, two.orphans)

\* handle_region_hit_region.  Two regions of which neither is in a tree are left.
RegionsHit(m, r1, r2, e) ==
  LET t1 == TreeOf(m, r1)
      t2 == TreeOf(m, r2)
      found == CommonAncestor(m, t1, t2)
  IN CASE t1 # None /\ t2 # None ->
            IF found.at = None THEN HitsOtherTree(found.m, r1, r2, e)
            ELSE HitsSameTree(found.m, r1, r2, e, found.at)
       [] t1 # None /\ t2 = None ->
            IF m.region[r2].match.region # None THEN HitsMatch(m, r1, r2, e)
            ELSE HitsBoundaryMatch(m, r1, r2, e)
       [] t1 = None /\ t2 # None ->
            IF m.region[r1].match.region # None THEN HitsMatch(m, r2, r1, Reversed(e))
            ELSE HitsBoundaryMatch(m, r2, r1, Reversed(e))
       [] OTHER -> m

-----------------------------------------------------------------------------
(* A blossom has shrunk away.                                              *)

\* The number of the child in the cycle; the first when it is not there.
Place(cycle, r) == Max({1, SelectInSeq(cycle, LAMBDA c : c.region = r)})

\* Mutant: off by one.
FromNext(cycle, k) == [i \in DOMAIN cycle |-> cycle[((k + i - 1) % Len(cycle)) + 1]]

\* The cycle of children, from child number k on.
From(cycle, k) == [i \in DOMAIN cycle |-> cycle[((k + i - 2) % Len(cycle)) + 1]]

\* Of the two ways round the cycle from child ip to child ic the one with an
\* odd number of regions goes into the tree, as steps of an inner and an outer
\* region, each with the edge to the next, up to ic; the others make pairs.
WayThrough(cycle, ip, ic) ==
  LET n       == Len(cycle)
      kids    == From(cycle, Place(cycle, ip))
      gap     == (Place(cycle, ic) + n - Place(cycle, ip)) % n
      Back(i) == kids[((n - i) % n) + 1]
  IN IF gap % 2 = 0
     THEN [steps |-> [j \in 1..(gap \div 2) |->
                        [inner |-> kids[2*j - 1].region, outer |-> kids[2*j].region,
                         edge  |-> kids[2*j - 1].edge,   next  |-> kids[2*j].edge]],
           pairs |-> [j \in 1..((n - gap - 1) \div 2) |->
                        [one |-> kids[gap + 2*j], two |-> kids[gap + 2*j + 1]]]]
     ELSE [steps |-> [j \in 1..((n - gap) \div 2) |->
                        [inner |-> Back(2*j - 2).region, outer |-> Back(2*j - 1).region,
                         edge  |-> Reversed(Back(2*j - 1).edge),
                         next  |-> Reversed(Back(2*j).edge)]],
           pairs |-> [j \in 1..((gap - 1) \div 2) |-> [one |-> kids[2*j], two |-> kids[2*j + 1]]]]

\* handle_blossom_shattering: in_parent is the child the tree enters by,
\* in_child the one it leaves by.  Of the regions that are matched only the
\* nodes of their own shells are rescheduled, not those of regions inside them.
BlossomShattered(m, b, inParent, inChild) ==
  LET cycle == m.region[b].children
      t     == TreeOf(m, b)
      way   == WayThrough(cycle, inParent, inChild)
      \* the children are regions of their own again, the tree is cut above b
      open  == FoldLeft(LAMBDA acc, c : Topped(acc, c.region, None, c.region, TRUE),
                        [m EXCEPT !.region[b].children = <<>>], cycle)
      cut   == [open EXCEPT !.tree[m.tree[t].parent].children = Erased(@, t)]
      Step(got, s) ==
        LET made == ChildMade(got.m, got.at, s.inner, s.outer, s.edge, got.edge)
        IN [m |-> SetGrowing(SetShrinking(made, s.inner), s.outer), at |-> NextTree(got.m),
            edge |-> s.next]
      Pair(acc, p) ==
        LET matched == Matched(acc, p.one.region, p.two.region, p.one.edge)
        IN Rescheduled(matched, ToSet(acc.region[p.one.region].shell)
                                \cup ToSet(acc.region[p.two.region].shell))
      last  == FoldLeft(Step, [m |-> cut, at |-> m.tree[t].parent,
                               edge |-> Reversed(m.tree[t].link)], way.steps)
      pairs == FoldLeft(Pair, last.m, way.pairs)
      inner == SetShrinking([pairs EXCEPT !.tree[t].inner = inChild], inChild)
  IN RegionFreed(Hung([inner EXCEPT !.region[inChild].tree = t], t, last.at,
                      Reversed(last.edge)), b)

-----------------------------------------------------------------------------
(* At the end the regions are taken apart; got has the memory, the         *)
(* observables crossed, the weight and the edges of the matches so far, and*)
(* the region, at, whose match is taken next.                              *)

Plain(m, r) == m.region[r].children = <<>>

\* resolve_subblossom_for_match_edge: the child of blossom r the edge touches,
\* and the edge from there; there is no answer if it touches none.
Resolved(m, r, e) ==
  LET here == m.region[r]
  IN CASE HeirFor(m, e.from, r) # None -> [at |-> HeirFor(m, e.from, r), edge |-> e]
       [] HeirFor(m, e.from, r) = None /\ HeirFor(m, e.to, r) # None ->
            [at |-> HeirFor(m, e.to, r), edge |-> Reversed(e)]
       [] OTHER ->
            LET out == IF HeirFor(m, here.inChild, r) # None THEN here.inChild ELSE here.inParent
            IN [at |-> HeirFor(m, out, r), edge |-> [e EXCEPT !.from = out]]

RECURSIVE Extracted(_)

\* pair_and_shatter_subblossoms: the child the match touches takes the match
\* over, the others, in pairs along the cycle, are matched and taken apart.
SubblossomsPaired(got, r) ==
  LET m     == got.m
      match == m.region[r].match
      found == Resolved(m, r, match.edge)
      open  == FoldLeft(LAMBDA acc, c : Topped(acc, c.region, None, c.region, FALSE),
                        [m EXCEPT !.region[r].children = <<>>], m.region[r].children)
      back  == IF match.region = None \/ Plain(open, match.region) THEN Reversed(found.edge)
               ELSE Resolved(open, match.region, Reversed(found.edge)).edge
      over  == IF match.region = None
               THEN [open EXCEPT !.region[found.at].match = [region |-> None, edge |-> found.edge]]
               ELSE Matched(open, found.at, match.region, Reversed(back))
      kids  == From(m.region[r].children, Place(m.region[r].children, found.at))
      Pair(acc, j) ==
        Extracted([acc EXCEPT !.m = Matched(@, kids[2*j].region, kids[2*j + 1].region,
                                            kids[2*j].edge), !.at = kids[2*j].region])
      all   == FoldLeft(Pair, [got EXCEPT !.m = over, !.weight = @ + m.region[r].y],
                        [j \in 1..(Len(kids) \div 2) |-> j])
  IN [all EXCEPT !.m = RegionFreed(@, r), !.at = found.at]

\* The region that at is matched to is a plain one afterwards, too.
PartnerOpened(got) ==
  LET other == got.m.region[got.at].match.region
  IN IF other = None \/ Plain(got.m, other) THEN got
     ELSE [SubblossomsPaired(got, other) EXCEPT !.at = got.at]

\* shatter_blossom_and_extract_matches, shatter_blossom_and_extract_match_edges.
Extracted(got) ==
  LET m     == got.m
      r     == got.at
      match == m.region[r].match
      add   == [got EXCEPT !.obs = Xor(@, match.edge.obs),
                           !.weight = @ + m.region[r].y,
                           !.edges = @ \cup ({match.edge} \ {NoEdge})]
  IN CASE Plain(m, r) /\ match.region = None -> [add EXCEPT !.m = RegionFreed(m, r)]
       [] Plain(m, r) /\ match.region # None /\ Plain(m, match.region) ->
            [add EXCEPT !.m = RegionFreed(RegionFreed(m, match.region), r),
                        !.weight = @ + m.region[match.region].y]
       [] OTHER -> Extracted(PartnerOpened(IF Plain(m, r) THEN got ELSE SubblossomsPaired(got, r)))
=============================================================================
