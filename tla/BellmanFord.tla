---------------------------- MODULE BellmanFord ----------------------------
(***************************************************************************)
(* What the SSSP loop of BC::go promises, without its supersteps: the     *)
(* asynchronous Bellman-Ford relaxation.  A search starts with distance 0  *)
(* at one vertex at most (none when the source is not a vertex of the      *)
(* graph) and infinity elsewhere.  Then, one at a time and in any order,  *)
(* an edge <<s, t>> whose head can be improved lowers d[s] to d[t] + 1.   *)
(* The search may end only when no edge can improve anything.  Between    *)
(* two searches d is left alone.                                           *)
(*                                                                         *)
(* Left out: which edges a superstep visits, the work accumulator, and    *)
(* which vertex is the source.                                             *)
(***************************************************************************)
EXTENDS Naturals

CONSTANTS
  Node,      \* the vertices
  Graphs,    \* the edge sets the graph may have
  Infinity   \* the distance of a vertex not reached

VARIABLES
  g,      \* the graph: <<s, t>> lets s improve from t
  d,      \* the distance estimates
  stage   \* "idle" between searches, "relax" during one, "done" after it

vars == <<g, d, stage>>

\* The edge <<s, t>> cannot improve d[s].
Relaxed(s, t) == d[s] <= d[t] + 1

Init ==
  /\ g \in Graphs
  /\ d \in [Node -> 0 .. Infinity]
  /\ stage = "idle"

Start ==
  /\ stage = "idle"
  /\ d' \in [Node -> {0, Infinity}]
  /\ \A u, v \in Node : d'[u] = 0 /\ d'[v] = 0 => u = v
  /\ stage' = "relax"
  /\ UNCHANGED g

Relax(s, t) ==
  /\ stage = "relax"
  /\ <<s, t>> \in g
  /\ ~Relaxed(s, t)
  /\ d' = [d EXCEPT ![s] = d[t] + 1]
  /\ UNCHANGED <<g, stage>>

Finish ==
  /\ stage = "relax"
  /\ \A e \in g : Relaxed(e[1], e[2])
  /\ stage' = "done"
  /\ UNCHANGED <<g, d>>

Reset ==
  /\ stage = "done"
  /\ stage' = "idle"
  /\ UNCHANGED <<g, d>>

Next ==
  \/ Start
  \/ \E e \in g : Relax(e[1], e[2])
  \/ Finish
  \/ Reset

Spec == Init /\ [][Next]_vars

=============================================================================
