------------------------------ MODULE Matching ------------------------------
(***************************************************************************)
(* Decoding (driver/decoding.rs): a graph is prepared once; then, for one  *)
(* syndrome after the other, regions are grown from the detection events   *)
(* until nothing more happens, the regions are taken apart into matches,   *)
(* and the memory is made ready for the next syndrome.                     *)
(*                                                                         *)
(* What happens at one time may happen in any order: the queue gives the   *)
(* order of its heap, which depends on what was queued and taken before.   *)
(***************************************************************************)
EXTENDS Mwpm

CONSTANTS
  UserGraphs,   \* the graphs that are prepared
  Syndromes(_), \* the sets of detectors that fire, for a graph
  Rounds(_)     \* bound: how many syndromes are decoded, of a graph

VARIABLES
  fired,    \* the detectors that fired
  m,        \* the memory: see GraphFlooder
  phase,    \* "idle", "timeline", "extract" or "done"
  notice,   \* what the flooder has to tell the matcher
  todo,     \* the events whose regions are still to be taken apart
  got,      \* the result so far
  shots     \* the number of syndromes begun

vars == <<user, near, fired, m, phase, notice, todo, got, shots>>

NoResult == [obs |-> 0, weight |-> 0, edges |-> {}]

\* process_timeline_until_completion starts with nothing but the nodes.
FreshMemory(nodes) ==
  [now |-> 0, node |-> [n \in nodes |-> FreshNode], region |-> <<>>, unusedRegions |-> <<>>,
   tree |-> <<>>, unusedTrees |-> <<>>, visited |-> {}, touched |-> {}]

Init ==
  /\ user \in UserGraphs
  /\ near = Neighbors(user)
  /\ m = FreshMemory(1..user.size)
  /\ fired = {} /\ phase = "idle" /\ notice = Nothing /\ todo = <<>> /\ got = NoResult /\ shots = 0

-----------------------------------------------------------------------------
\* A syndrome that can be explained.
Begin ==
  /\ phase = "idle" /\ shots < Rounds(user)
  /\ \E syndrome \in Syndromes(user) :
       LET events == SelectSeq([n \in 1..user.size |-> n],
                               LAMBDA n : n \in EffectiveEvents(user, syndrome))
       IN /\ fired' = syndrome
          /\ m' = FoldLeft(DetectionEventCreated, [m EXCEPT !.now = 0], events)
          /\ todo' = events
  /\ phase' = "timeline" /\ got' = NoResult /\ shots' = shots + 1
  /\ UNCHANGED <<user, near, notice>>

\* When the next look is wanted.
NextTime ==
  Min({Never} \cup {m.node[n].wake : n \in Nodes} \cup {m.region[r].wake : r \in DOMAIN m.region})

Running == phase = "timeline" /\ notice = Nothing

\* dequeue_valid and process_tentative_event.
LookAtNode(n) ==
  /\ Running /\ m.node[n].wake = NextTime /\ NextTime # Never
  /\ LET seen == LookedAt([m EXCEPT !.now = NextTime, !.node[n].wake = Never], n)
     IN m' = seen.m /\ notice' = seen.notice
  /\ UNCHANGED <<user, near, fired, phase, todo, got, shots>>

LookAtShrinkingRegion(r) ==
  /\ Running /\ m.region[r].wake = NextTime /\ NextTime # Never
  /\ LET seen == ShrunkAt([m EXCEPT !.now = NextTime, !.region[r].wake = Never], r)
     IN m' = seen.m /\ notice' = seen.notice
  /\ UNCHANGED <<user, near, fired, phase, todo, got, shots>>

\* process_event.
Handled(kind, after) ==
  /\ phase = "timeline" /\ notice.kind = kind
  /\ m' = after /\ notice' = Nothing
  /\ UNCHANGED <<user, near, fired, phase, todo, got, shots>>

RegionHitRegion   == Handled("region", RegionsHit(m, notice.one, notice.two, notice.edge))
RegionHitBoundary == Handled("boundary", HitsBoundary(m, notice.one, notice.edge))
BlossomShatter    ==
  Handled("shatter", BlossomShattered(m, notice.one, notice.inParent, notice.inChild))

Complete ==
  /\ Running /\ NextTime = Never
  /\ phase' = "extract"
  /\ UNCHANGED <<user, near, fired, m, notice, todo, got, shots>>

-----------------------------------------------------------------------------
\* The nodes of the region over n and of the one it is matched to.
ToClean(n) ==
  LET top == m.node[n].top
      other == m.region[top].match.region
  IN AreaOf(m, top) \cup (IF other = None THEN {} ELSE AreaOf(m, other))

\* shatter_and_extract, extract_match_edges: one event after the other, unless
\* its region was taken apart with that of an earlier one.
ShatterAndExtract ==
  LET n     == Head(todo)
      after == Extracted([m |-> m, obs |-> got.obs, weight |-> got.weight, edges |-> got.edges,
                          at |-> m.node[n].top])
  IN /\ phase = "extract" /\ todo # <<>>
     /\ todo' = Tail(todo)
     /\ IF m.node[n].region = None THEN UNCHANGED <<m, got>>
        ELSE /\ m' = [after.m EXCEPT !.node =
                        [k \in Nodes |-> IF k \in ToClean(n) THEN FreshNode ELSE after.m.node[k]]]
             /\ got' = [obs |-> after.obs, weight |-> after.weight, edges |-> after.edges]
     /\ UNCHANGED <<user, near, fired, phase, notice, shots>>

\* The observables that the negative edges, taken as used, cross are counted in.
Predict ==
  /\ phase = "extract" /\ todo = <<>>
  /\ got' = [got EXCEPT !.obs = Xor(@, NegativeObs(user))]
  /\ phase' = "done"
  /\ UNCHANGED <<user, near, fired, m, notice, todo, shots>>

Recycled(items, unused) == unused \o SetToSeq(DOMAIN items \ ToSet(unused))

\* reset: the nodes touched, and every slot used, are as new.
Reset ==
  /\ phase = "done"
  /\ m' = [now |-> 0,
           node |-> [n \in Nodes |-> IF n \in m.touched THEN FreshNode ELSE m.node[n]],
           region |-> [r \in DOMAIN m.region |-> FreshRegion],
           unusedRegions |-> Recycled(m.region, m.unusedRegions),
           tree |-> [t \in DOMAIN m.tree |-> NewPair(None, None, NoEdge)],
           unusedTrees |-> Recycled(m.tree, m.unusedTrees),
           visited |-> {}, touched |-> {}]
  /\ phase' = "idle" /\ fired' = {} /\ got' = NoResult
  /\ UNCHANGED <<user, near, notice, todo, shots>>

Decode ==
  \/ \E n \in Nodes : LookAtNode(n)
  \/ \E r \in DOMAIN m.region : LookAtShrinkingRegion(r)
  \/ RegionHitRegion \/ RegionHitBoundary \/ BlossomShatter
  \/ Complete \/ ShatterAndExtract \/ Predict \/ Reset

\* All syndromes are decoded.
Stop == phase = "idle" /\ shots = Rounds(user) /\ UNCHANGED vars

Next == Begin \/ Decode \/ Stop

\* A decoding is one call: it goes on as long as there is something to do, and
\* the absence of deadlock says that there is.  (It is WF_vars(Decode), of which
\* TLC evaluates the ENABLED too slowly.)
GoesOn == []<>(phase = "idle") \/ []<><<TRUE>>_vars

Spec == Init /\ [][Next]_vars /\ GoesOn

-----------------------------------------------------------------------------
(* Properties.                                                             *)

Free(unused) == ToSet(unused)

Tops  == {m.node[n].top : n \in Nodes} \ {None}
Live  == UNION {Inside(m, r) : r \in Tops}
Trees == {TreeOf(m, r) : r \in Tops} \ {None}

\* A decoding ends with a likeliest explanation of the syndrome: no set of edges
\* that explains it is lighter, and one as light crosses the observable as often
\* as predicted (driver/decoding.rs:118).
MinimumWeight ==
  phase = "done" =>
    [weight |-> got.weight + NegativeSum(user), obs |-> got.obs] \in Likeliest(user, fired)

\* The pairs name every event once, and the shortest ways between them weigh
\* together as much as is told (driver/decoding.rs:327).
Pairing ==
  phase = "done" =>
    /\ \A n \in EffectiveEvents(user, fired) :
         Cardinality({e \in got.edges : n \in {e.from, e.to}}) = 1
    /\ \A e \in got.edges : {e.from, e.to} \ {None} \subseteq EffectiveEvents(user, fired)
    /\ MapThenSumSet(LAMBDA e : Distance(user, e.from, e.to), got.edges)
         = got.weight

\* Fronts never pass through each other or through the boundary, and no radius
\* is ever negative: what the weight at the end is proved minimal by.
NoOverlap ==
  phase = "timeline" =>
    /\ \A n \in Nodes : \A i \in DOMAIN near[n] :
         LET e == near[n][i]
             here == Local(m, n)
             there == Local(m, e.to)
         IN (~ Empty(m, n) /\ (e.to = None \/ m.node[e.to].top # m.node[n].top)) =>
              here.y + there.y + (here.slope + there.slope) * m.now <= e.w
    /\ \A r \in Live : RadiusOf(m, r) >= 0

\* Whenever two fronts close in on each other, or one on the boundary, a look at
\* one of the ends is wanted no later than they meet; and a look at a region that
\* shrinks no later than its last node is left (graph_flooder.rs:290). No look is wanted in the past.
Watched ==
  Running =>
    /\ \A n \in Nodes : \A i \in DOMAIN near[n] :
         LET e    == near[n][i]
             rate == Local(m, n).slope + Local(m, e.to).slope
             gap  == e.w - Local(m, n).y - Local(m, e.to).y
         IN (~ Empty(m, n) /\ rate > 0 /\ (e.to = None \/ m.node[e.to].top # m.node[n].top)) =>
              \E k \in {n, e.to} \ {None} : m.node[k].wake <= Max({gap \div rate, m.now})
    /\ \A r \in Tops : m.region[r].slope = -1 =>
         LET shell == m.region[r].shell
         IN m.region[r].wake <= IF shell = <<>> THEN m.region[r].y ELSE Local(m, Last(shell)).y
    /\ \A n \in Nodes : m.node[n].wake >= m.now
    /\ \A r \in DOMAIN m.region : m.region[r].wake >= m.now

\* The edge leads from the region r to the region s: from and to are events in them.
Joins(e, r, s) == e.from \in AreaOf(m, r) /\ e.to \in AreaOf(m, s)

\* A region is in one tree, growing or shrinking, or it stands still and is
\* matched to a region that is matched to it; the links of a tree agree both ways
\* and none of its nodes is still marked (matcher/alt_tree.rs:113).
TreesAndMatches ==
  Running =>
    /\ \A r \in Tops :
         LET t     == TreeOf(m, r)
             match == m.region[r].match
             other == m.region[match.region].match
         IN IF t # None
            THEN /\ match = NoMatch
                 /\ \/ m.tree[t].outer = r /\ m.tree[t].inner # r /\ m.region[r].slope = 1
                    \/ m.tree[t].inner = r /\ m.tree[t].outer # r /\ m.region[r].slope = -1
            ELSE /\ match # NoMatch /\ m.region[r].slope = 0
                 /\ match.region # None => /\ match.region \in Tops
                                           /\ other.region = r /\ other.edge = Reversed(match.edge)
                                           /\ Joins(match.edge, r, match.region)
    /\ \A t \in Trees :
         LET here == m.tree[t]
             up   == m.tree[here.parent]
         IN /\ {here.inner, here.outer} \ {None} \subseteq Tops
            /\ \A r \in {here.inner, here.outer} \ {None} : TreeOf(m, r) = t
            /\ (here.inner = None) <=> (here.parent = None)
            /\ here.parent # None =>
                 /\ Cardinality({i \in DOMAIN up.children : up.children[i] = t}) = 1
                 /\ Joins(here.link, here.inner, up.outer)
                 /\ Joins(here.edge, here.inner, here.outer)
            /\ \A c \in ToSet(here.children) : c \in Trees /\ m.tree[c].parent = t
    /\ m.visited \cap Trees = {}

\* What is cached is what would be computed: each node's top region and wrapped
\* radius, each region's top; a node is once in the shell of its own region; and
\* a blossom is an odd cycle, each child joined to the next (mwpm.rs:581).
CachesFresh ==
  Running =>
    /\ \A n \in Nodes :
         LET r == m.node[n].region
         IN r # None => /\ m.node[n].top = Heir(m, r, None) /\ m.node[n].top = m.region[r].top
                        /\ m.node[n].wrapped = Wrapped(m, n)
                        /\ m.node[n].source \in AreaOf(m, m.node[n].top)
    /\ \A r \in Live :
         LET kids == m.region[r].children
         IN /\ m.region[r].top = Heir(m, r, None)
            /\ IsInjective(m.region[r].shell)
            /\ \A n \in ToSet(m.region[r].shell) : m.node[n].region = r
            /\ Len(kids) # 1 /\ (kids # <<>> => Len(kids) % 2 = 1)
            /\ \A i \in DOMAIN kids :
                 /\ m.region[kids[i].region].parent = r
                 /\ Joins(kids[i].edge, kids[i].region, kids[(i % Len(kids)) + 1].region)

\* Every slot of an arena is used, and then reachable from a detector node, or
\* free, and then once on the free list: none is lost and none is referred to
\* after it was freed (util/arena.rs:42).  When a decoding is done all are free, and
\* between two decodings nothing is left of the one before.
SlotsAccounted ==
  /\ IsInjective(m.unusedRegions) /\ IsInjective(m.unusedTrees)
  /\ Running => /\ DOMAIN m.region = Live \cup Free(m.unusedRegions)
                /\ DOMAIN m.tree = Trees \cup Free(m.unusedTrees)
                /\ (Live \cap Free(m.unusedRegions)) \cup (Trees \cap Free(m.unusedTrees)) = {}
  /\ phase \in {"done", "idle"} => /\ DOMAIN m.region = Free(m.unusedRegions)
                                  /\ DOMAIN m.tree = Free(m.unusedTrees)
  /\ phase = "idle" => /\ \A n \in Nodes : m.node[n] = FreshNode
                       /\ \A r \in DOMAIN m.region : m.region[r] = FreshRegion

\* A decoding that was begun ends, however the looks at one time are ordered.
Decodes == phase = "timeline" ~> phase = "done"
=============================================================================
