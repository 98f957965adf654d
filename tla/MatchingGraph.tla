--------------------------- MODULE MatchingGraph ---------------------------
(***************************************************************************)
(* The graph the matching decoder works on, built from the edges a user or *)
(* a detector error model gave (driver/user_graph.rs, flooder/graph.rs),   *)
(* and what decoding a syndrome on it means.                               *)
(*                                                                         *)
(* Weights are the integral ones, which are only doubled; of the           *)
(* observables one bit is kept, as each is treated by itself.              *)
(***************************************************************************)
EXTENDS Integers, FiniteSetsExt, SequencesExt

\* The boundary, as an end of an edge; also "no node", "no region", "no tree node".
None == 0

\* What the code holds as i64::MAX: a time that is not reached.
Never == 1000000

Xor(a, b) == (a + b) % 2

AbsoluteOf(w) == IF w < 0 THEN -w ELSE w

(***************************************************************************)
(* A user graph: the number of nodes, a sequence of edges [u, v, w, obs],  *)
(* where v is None for an edge to the boundary, and the boundary nodes.    *)
(***************************************************************************)
IsBoundary(user, n) == n = None \/ n \in user.boundary

\* The inner end of an edge one of whose ends is at the boundary, if it is one.
InnerEnd(user, e) ==
  CASE IsBoundary(user, e.v) /\ ~ IsBoundary(user, e.u) -> e.u
    [] IsBoundary(user, e.u) /\ ~ IsBoundary(user, e.v) -> e.v
    [] OTHER -> None

\* Of the boundary edges of a node, the first with the least signed weight.
BoundaryEdge(user, n) ==
  LET mine    == {i \in DOMAIN user.edges : InnerEnd(user, user.edges[i]) = n}
      Least(i) == \A j \in mine : \/ user.edges[i].w < user.edges[j].w
                                  \/ user.edges[i].w = user.edges[j].w /\ i <= j
  IN IF mine = {} THEN <<>>
     ELSE LET i == CHOOSE i \in mine : Least(i)
          IN <<[u |-> n, v |-> None, w |-> 2 * user.edges[i].w, obs |-> user.edges[i].obs]>>

\* What is kept of an edge that is not at the boundary.
InnerEdge(user, e) ==
  IF IsBoundary(user, e.u) \/ IsBoundary(user, e.v) THEN <<>> ELSE <<[e EXCEPT !.w = 2 * @]>>

\* to_matching_graph: inner edges as they come, then each node's boundary edge.
SignedEdges(user) ==
  FlattenSeq([i \in DOMAIN user.edges |-> InnerEdge(user, user.edges[i])])
  \o FlattenSeq([n \in 1..user.size |-> BoundaryEdge(user, n)])

\* One of the numbered edges, but not both ends of it, is at n.
EndsAt(e, n) == (e.u = n) # (e.v = n)

Negative(es) == {i \in DOMAIN es : es[i].w < 0}

\* Mutant: an edge of weight zero counts as a negative one.
NegativeEventsOrZero(user) ==
  LET es == SignedEdges(user)
  IN {n \in 1..user.size :
        Cardinality({i \in DOMAIN es : es[i].w <= 0 /\ EndsAt(es[i], n)}) % 2 = 1}

\* negative_weight_detection_events_set: the nodes an odd number of negative
\* edges end at.  Those edges are taken as used, and undone by being chosen.
NegativeEvents(user) ==
  LET es == SignedEdges(user)
  IN {n \in 1..user.size : Cardinality({i \in Negative(es) : EndsAt(es[i], n)}) % 2 = 1}

WeightOf(es, E) == MapThenSumSet(LAMBDA i : es[i].w, E)
ObsOf(es, E)    == Cardinality({i \in E : es[i].obs = 1}) % 2

NegativeObs(user) == LET es == SignedEdges(user) IN ObsOf(es, Negative(es))
NegativeSum(user) == LET es == SignedEdges(user) IN WeightOf(es, Negative(es))

\* add_edge, add_boundary_edge: what a node sees of its edges, in their order.
NeighborsOf(es, n) ==
  LET mine == SelectSeq(es, LAMBDA e : e.u # e.v /\ n \in {e.u, e.v})
  IN [i \in DOMAIN mine |-> [to  |-> IF mine[i].u = n THEN mine[i].v ELSE mine[i].u,
                             w   |-> AbsoluteOf(mine[i].w),
                             obs |-> mine[i].obs]]

Neighbors(user) == LET es == SignedEdges(user) IN [n \in 1..user.size |-> NeighborsOf(es, n)]

\* apply_negative_weight_events: what differs from what is taken as used.
EffectiveEvents(user, fired) == SymDiff(fired, NegativeEvents(user)) \ user.boundary

-----------------------------------------------------------------------------
(* What decoding means: a reference that knows nothing of matching.        *)

\* The inner nodes at which the number of chosen edges is odd.
OddAt(user, es, E) ==
  {n \in 1..user.size \ user.boundary : Cardinality({i \in E : EndsAt(es[i], n)}) % 2 = 1}

\* The user's edges, parallel ones too, but for those outside the inner nodes.
Given(user) ==
  LET es == SelectSeq(user.edges, LAMBDA e : ~ (IsBoundary(user, e.u) /\ IsBoundary(user, e.v)))
  IN [i \in DOMAIN es |-> [es[i] EXCEPT !.w = 2 * @]]

\* The sets of edges that explain the syndrome.
Corrections(user, fired) ==
  LET es == Given(user)
  IN {E \in SUBSET DOMAIN es : OddAt(user, es, E) = fired \ user.boundary}

\* The weight and the observable of each of the likeliest explanations: those
\* no other one is lighter than.
Likeliest(user, fired) ==
  LET es    == Given(user)
      found == {[weight |-> WeightOf(es, E), obs |-> ObsOf(es, E)] : E \in Corrections(user, fired)}
  IN {r \in found : \A s \in found : r.weight <= s.weight}

\* The edges, of weights without sign.
Unsigned(es) == [i \in DOMAIN es |-> [es[i] EXCEPT !.w = AbsoluteOf(@)]]

\* The length of the shortest way from one node to another, or to the boundary.
Distance(user, from, to) ==
  LET es  == SignedEdges(user)
      abs == Unsigned(es)
  IN Min({WeightOf(abs, E) :
            E \in {F \in SUBSET DOMAIN es : OddAt(user, es, F) = {from, to} \ {None}}})
=============================================================================
