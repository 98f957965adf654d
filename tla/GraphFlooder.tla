---------------------------- MODULE GraphFlooder ----------------------------
(***************************************************************************)
(* The flooder of the matching decoder (flooder/graph_flooder.rs): regions *)
(* that grow from the detection events over the graph, stop and shrink.    *)
(*                                                                         *)
(* An operator takes the decoder's memory m and returns the memory the     *)
(* method leaves, and sometimes a notice to the matcher:                   *)
(*   m.now      the queue's time                                           *)
(*   m.node     of each detector node: the region that arrived, the cached *)
(*              top region, the source it was reached from, the observables*)
(*              crossed, the radius at the arrival, the cached wrapped     *)
(*              radius, and when the node wants to be looked at            *)
(*   m.region   the slots of the region arena, m.unusedRegions its free    *)
(*              list; m.tree and m.unusedTrees those of the tree nodes     *)
(*   m.visited  the tree nodes marked by a search for a common ancestor    *)
(*   m.touched  the detector nodes that are reset after the decoding       *)
(*                                                                         *)
(* The queue and its trackers are an agenda (module Agenda, implemented by *)
(* EventQueue): each node and region has a time "wake" it wants a look at. *)
(***************************************************************************)
EXTENDS MatchingGraph

VARIABLES
  user,   \* the user graph
  near    \* Neighbors(user): the neighbours of each node, in their order

Nodes == DOMAIN near

NoEdge == [from |-> None, to |-> None, obs |-> 0]

Reversed(e) == [e EXCEPT !.from = e.to, !.to = e.from]

NoMatch == [region |-> None, edge |-> NoEdge]

FreshNode ==
  [region |-> None, top |-> None, source |-> None, obs |-> 0, arrival |-> 0,
   wrapped |-> 0, wake |-> Never]

\* Of a region's radius, y is the value at time 0 and slope its growth.
FreshRegion ==
  [parent |-> None, top |-> None, tree |-> None, y |-> 0, slope |-> 0, match |-> NoMatch,
   children |-> <<>>, shell |-> <<>>, wake |-> Never, inParent |-> None, inChild |-> None]

Nothing == [kind |-> "none"]
Hit(r1, r2, e)      == [kind |-> "region", one |-> r1, two |-> r2, edge |-> e]
HitBoundary(r, e)   == [kind |-> "boundary", one |-> r, edge |-> e]
Shattered(b, ip, ic) == [kind |-> "shatter", one |-> b, inParent |-> ip, inChild |-> ic]

-----------------------------------------------------------------------------
(* varying.rs, detector_node.rs.                                           *)

RadiusOf(m, r) == m.region[r].y + m.region[r].slope * m.now

\* then_growing_at_time, then_frozen_at_time, then_shrinking_at_time.
Turned(m, r, slope) ==
  [m EXCEPT !.region[r].y = RadiusOf(m, r) - slope * m.now, !.region[r].slope = slope]

\* node_local_radius_parts; nothing covers an empty node or the boundary.
Local(m, n) ==
  IF n = None \/ m.node[n].top = None THEN [y |-> 0, slope |-> 0]
  ELSE LET top == m.region[m.node[n].top]
       IN [y |-> top.y + m.node[n].wrapped, slope |-> top.slope]

\* The y of the regions from r up to, and without, top.
RECURSIVE YBelow(_, _, _)
YBelow(m, r, top) ==
  IF r \in {top, None} THEN 0 ELSE m.region[r].y + YBelow(m, m.region[r].parent, top)

\* compute_wrapped_radius.
Wrapped(m, n) == YBelow(m, m.node[n].region, m.node[n].top) - m.node[n].arrival

\* The region on r's way up that b is the parent of, or that has none.
RECURSIVE Heir(_, _, _)
Heir(m, r, b) == IF m.region[r].parent \in {b, None} THEN r ELSE Heir(m, m.region[r].parent, b)

\* heir_region_on_shatter.
HeirOnShatter(m, n) ==
  IF None \in {n, m.node[n].region, m.node[n].top} THEN None
  ELSE Heir(m, m.node[n].region, m.node[n].top)

\* heir_region_for_blossom.
HeirFor(m, n, b) ==
  IF n = None \/ m.node[n].region = None THEN None
  ELSE LET h == Heir(m, m.node[n].region, b) IN IF m.region[h].parent = b THEN h ELSE None

\* Every node of the region and of the regions inside it.
RECURSIVE AreaOf(_, _)
AreaOf(m, r) ==
  ToSet(m.region[r].shell)
  \cup UNION {AreaOf(m, m.region[r].children[i].region) : i \in DOMAIN m.region[r].children}

-----------------------------------------------------------------------------
(* What happens next at a node.                                            *)

Empty(m, n) == n = None \/ m.node[n].top = None

\* When the fronts on the i-th edge of n meet, as far as n has to watch it.
MeetingTime(m, n, i) ==
  LET e     == near[n][i]
      here  == Local(m, n)
      there == Local(m, e.to)
      gap   == e.w - here.y - there.y
  IN CASE here.slope # 1 /\ there.slope = 1 -> gap
       [] here.slope = 1 /\ Empty(m, e.to)  -> gap
       [] here.slope = 1 /\ m.node[e.to].top # m.node[n].top /\ there.slope # -1
            -> gap \div (1 + there.slope)
       [] OTHER -> Never

\* find_next_event_at_node: the earliest meeting, the first of those at one time.
NextMeeting(m, n) ==
  LET meetings == {[at |-> i, time |-> MeetingTime(m, n, i)] : i \in DOMAIN near[n]}
      Before(a, b) == a.time < b.time \/ (a.time = b.time /\ a.at <= b.at)
      none == [at |-> None, time |-> Never]
  IN CHOOSE a \in meetings \cup {none} : \A b \in meetings \cup {none} : Before(a, b)

\* When the node wants to be looked at.
WakeTime(m, n) ==
  LET next == NextMeeting(m, n) IN IF next.at = None THEN Never ELSE Max({next.time, m.now})

\* reschedule_events_at_detector_node, of each node of S.
Rescheduled(m, S) ==
  [m EXCEPT !.node = [n \in S |-> [m.node[n] EXCEPT !.wake = WakeTime(m, n)]] @@ @]

-----------------------------------------------------------------------------
(* Regions grow, stop and shrink.                                          *)

\* set_region_growing.
SetGrowing(m, r) ==
  LET grown == [Turned(m, r, 1) EXCEPT !.region[r].wake = Never]
  IN Rescheduled(grown, AreaOf(m, r))

\* Mutant: a region that stops shrinking is not watched again.
SetFrozenUnwatched(m, r) == [Turned(m, r, 0) EXCEPT !.region[r].wake = Never]

\* set_region_frozen: neighbours of a region that shrank did not watch it.
SetFrozen(m, r) ==
  LET frozen == [Turned(m, r, 0) EXCEPT !.region[r].wake = Never]
  IN IF m.region[r].slope = -1 THEN Rescheduled(frozen, AreaOf(m, r)) ELSE frozen

\* schedule_tentative_shrink_event: when the last node is left, or all is used up.
ShrinkScheduled(m, r) ==
  LET shell == m.region[r].shell
      time  == IF shell = <<>> THEN m.region[r].y ELSE Local(m, Last(shell)).y
  IN [m EXCEPT !.region[r].wake = Max({time, m.now})]

\* set_region_shrinking: its nodes watch nothing meanwhile.
SetShrinking(m, r) ==
  LET shrunk == ShrinkScheduled(Turned(m, r, -1), r)
  IN [shrunk EXCEPT !.node = [n \in AreaOf(m, r) |-> [m.node[n] EXCEPT !.wake = Never]] @@ @]

\* do_region_arriving_at_empty_node, along the i-th edge of n.
Arrived(m, n, i) ==
  LET e    == near[n][i]
      from == m.node[n]
      over == m.region[from.top].top
      new  == [m EXCEPT !.node[e.to] =
                 [region  |-> from.top,
                  top     |-> IF over = None THEN from.top ELSE over,
                  source  |-> from.source,
                  obs     |-> Xor(from.obs, e.obs),
                  arrival |-> RadiusOf(m, from.top),
                  wrapped |-> 0,
                  wake    |-> @.wake],
                !.region[from.top].shell = Append(@, e.to)]
  IN Rescheduled([new EXCEPT !.node[e.to].wrapped = Wrapped(new, e.to),
                             !.touched = @ \cup {e.to}], {e.to})

\* index_of_neighbor: the first edge of n to the node.
IndexOf(n, to) == SelectInSeq(near[n], LAMBDA e : e.to = to)

\* do_look_at_node_event and do_neighbor_interaction.  A node at which
\* something happens now is looked at again before the time goes on.
LookedAt(m, n) ==
  LET next  == NextMeeting(m, n)
      again == [m EXCEPT !.node[n].wake = m.now]
      e     == near[n][next.at]
      here  == m.node[n]
      there == m.node[e.to]
  IN CASE next.at = None     -> [m |-> m, notice |-> Nothing]
       [] next.time > m.now  -> [m |-> [m EXCEPT !.node[n].wake = next.time], notice |-> Nothing]
       [] e.to = None        ->
            [m |-> again,
             notice |-> HitBoundary(here.top, [from |-> here.source, to |-> None,
                                               obs |-> Xor(here.obs, e.obs)])]
       [] there.region = None -> [m |-> Arrived(again, n, next.at), notice |-> Nothing]
       [] here.region = None ->
            [m |-> Arrived(again, e.to, IndexOf(e.to, n)), notice |-> Nothing]
       [] OTHER ->
            [m |-> again,
             notice |-> Hit(here.top, there.top,
                            [from |-> here.source, to |-> there.source,
                             obs |-> Xor(Xor(here.obs, there.obs), e.obs)])]

\* do_blossom_shattering.
Shattering(m, b) ==
  LET t        == m.tree[m.region[b].tree]
      inParent == IF t.parent = None THEN None ELSE HeirOnShatter(m, t.link.from)
      inChild  == HeirOnShatter(m, t.edge.from)
  IN IF m.region[b].tree = None \/ None \in {inParent, inChild} THEN Nothing
     ELSE Shattered(b, inParent, inChild)

\* do_degenerate_implosion: what is around the region touches.
Imploding(m, r) ==
  LET t == m.tree[m.region[r].tree]
  IN Hit(m.tree[t.parent].outer, t.outer,
         [from |-> t.link.to, to |-> t.edge.to, obs |-> Xor(t.edge.obs, t.link.obs)])

\* do_region_shrinking.
ShrunkAt(m, r) ==
  LET shell == m.region[r].shell
      left  == Last(shell)
      less  == [m EXCEPT !.region[r].shell = Front(shell), !.node[left] = FreshNode]
  IN CASE shell = <<>> -> [m |-> m, notice |-> Shattering(m, r)]
       [] Len(shell) = 1 /\ m.region[r].children = <<>> -> [m |-> m, notice |-> Imploding(m, r)]
       [] OTHER -> [m |-> ShrinkScheduled(Rescheduled(less, {left}), r), notice |-> Nothing]
=============================================================================
