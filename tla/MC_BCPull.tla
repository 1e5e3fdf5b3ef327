------------------------------ MODULE MC_BCPull ------------------------------
(***************************************************************************)
(* Instances of BCPull for TLC.  Graphs are written in the direction of    *)
(* the input file (u -> v) and turned into the pull CSR the loader builds. *)
(***************************************************************************)
EXTENDS BCPull

PullEdges(g) == {<<e[2], e[1]>> : e \in g}

\* Every graph on the vertices, self-loops included.
AllGraphs == SUBSET (Node \X Node)

\* The scenarios of the spec (section 8), on four vertices.
Triangle     == PullEdges({<<0, 1>>, <<1, 2>>, <<0, 2>>})
Path4        == PullEdges({<<0, 1>>, <<1, 2>>, <<2, 3>>})
Diamond      == PullEdges({<<0, 1>>, <<0, 2>>, <<1, 3>>, <<2, 3>>})
Disconnected == PullEdges({<<0, 1>>, <<2, 3>>})
SelfLoop     == PullEdges({<<0, 0>>, <<0, 1>>})
Scenarios == {Triangle, Path4, Diamond, Disconnected, SelfLoop}

\* The diamond 0 -> 1 -> 3, 0 -> 2 -> 3 with any of seven more edges:
\* chords, back edges, a cycle and a self-loop.  From source 0 vertex 3
\* has the two DAG predecessors 1 and 2 and two shortest paths; the extra
\* edges add joins for the other sources, or break the diamond's.
DiamondJoins ==
  {Diamond \cup PullEdges(X) :
     X \in SUBSET {<<1, 2>>, <<2, 1>>, <<3, 0>>, <<3, 1>>, <<0, 3>>, <<3, 3>>, <<2, 0>>}}

\* 0 -> 1 -> 2 with 2 -> 3 and 2 -> 4 -> 5: vertex 2 hears from its two
\* successors in different rounds.
LateSuccessor ==
  {PullEdges({<<0, 1>>, <<1, 2>>, <<2, 3>>, <<2, 4>>, <<4, 5>>})}

\* 0 -> 1, then a diamond 1 -> 2, 1 -> 3, 2 -> 4, 3 -> 4: vertices 2 and 3
\* end with a dependency of 1/2.
HalfDependency ==
  {PullEdges({<<0, 1>>, <<1, 2>>, <<1, 3>>, <<2, 4>>, <<3, 4>>})}
\* A single graph on three vertices, for the source selector alone.
Scenarios3 == {PullEdges({<<0, 1>>, <<1, 2>>})}
=============================================================================
