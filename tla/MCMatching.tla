----------------------------- MODULE MCMatching -----------------------------
EXTENDS Matching

Edge(u, v, w, o) == [u |-> u, v |-> v, w |-> w, obs |-> o]
Graph(n, es) == [size |-> n, edges |-> es, boundary |-> {}]

\* Every choice of weights for the edges of a shape; every other one crosses the observable.
Weighted(n, shape, W, rest) ==
  {Graph(n, [i \in DOMAIN shape |-> Edge(shape[i][1], shape[i][2], w[i], i % 2)] \o rest)
   : w \in [DOMAIN shape -> W]}

\* A square with a diagonal: cycles, matched pairs that are taken into a tree, the boundary.
Squares ==
  Weighted(4, <<<<1, 2>>, <<2, 3>>, <<3, 4>>, <<1, 4>>, <<1, 3>>, <<2, None>>>>, {1, 2}, <<>>)

\* Trees of five nodes with a distant boundary: blossoms in blossoms that shrink
\* away again, in each way round, with subtrees that hang below them.
Forks == Weighted(5, <<<<2, 3>>, <<3, 4>>, <<1, 2>>, <<3, 5>>>>, {1, 2}, <<Edge(3, None, 4, 0)>>)

\* A region that leaves a node behind when it shrinks; a cycle of five regions.
Large == {
  Graph(6, <<Edge(3, 5, 2, 0), Edge(1, 2, 4, 0), Edge(3, 6, 1, 0), Edge(2, 6, 1, 0),
             Edge(4, 5, 4, 1), Edge(3, None, 8, 0)>>),
  Graph(7, <<Edge(3, 7, 1, 0), Edge(1, 6, 1, 0), Edge(1, 2, 2, 1), Edge(1, 4, 1, 0),
             Edge(3, 4, 1, 0), Edge(1, 5, 2, 0), Edge(6, 7, 1, 1), Edge(4, 7, 2, 1),
             Edge(5, None, 2, 0), Edge(7, None, 3, 1)>>)}

\* Negative and zero weights, a loop, parallel ways to the boundary, nodes declared as
\* the boundary.
Special == {
  Graph(3, <<Edge(1, 2, -1, 1), Edge(2, 3, 2, 0), Edge(1, None, 2, 0), Edge(3, None, -2, 1)>>),
  Graph(3, <<Edge(1, 2, 0, 1), Edge(2, 3, -1, 0), Edge(1, 3, -2, 1), Edge(2, 2, -1, 1)>>),
  Graph(3, <<Edge(1, None, 1, 0), Edge(1, 2, 1, 0), Edge(1, None, 2, 1), Edge(2, None, 2, 1),
             Edge(2, 3, 3, 1), Edge(None, 1, 2, 1)>>),
  [Graph(4, <<Edge(1, 2, 1, 1), Edge(2, 3, 2, 0), Edge(3, 4, -1, 1), Edge(1, 4, 3, 0),
              Edge(4, 4, -3, 1)>>) EXCEPT !.boundary = {4}]}

Graphs == Squares \cup Forks \cup Large \cup Special

Explainable(u) == {F \in SUBSET (1..u.size) : Corrections(u, F) # {}}

\* Of the large graphs, the syndromes that most happens with.
Chosen(u) ==
  IF u \notin Large THEN Explainable(u)
  ELSE IF u.size = 6 THEN {{1, 3, 4, 5, 6}} ELSE {1..7}

\* Blossoms in blossoms, all nodes fired, and ways round a cycle.
Nested == {
  Graph(9, <<Edge(2, 5, 5, 0), Edge(1, 9, 1, 0), Edge(3, 7, 1, 0), Edge(5, 6, 6, 0),
             Edge(4, 5, 4, 1), Edge(1, 4, 1, 1), Edge(2, 4, 4, 0), Edge(8, 9, 6, 0),
             Edge(5, 8, 6, 0), Edge(9, None, 5, 0)>>)}

All(u) == {1..u.size}

Twice(u) == IF u \in Special THEN 2 ELSE 1
=============================================================================
