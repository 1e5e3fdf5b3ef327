------------------------------- MODULE Sanity -------------------------------
(***************************************************************************)
(* Sanity::go of gen.cpp: after BC::go, a do_all over the vertices folds   *)
(* betweeness_centrality into the static floats current_max and           *)
(* current_min with a plain compare-then-store, and into the per-thread    *)
(* DGAccumulator sum; the host then reduces them and node 0 prints them.   *)
(*                                                                         *)
(* The threads of do_all take vertices in any order.  The compare and the  *)
(* store of a static are separate steps, so the threads interleave between *)
(* them: the statics are shared and nothing orders their accesses.  One    *)
(* host owns every vertex.                                                 *)
(***************************************************************************)
EXTENDS Naturals, FiniteSets, FiniteSetsExt

CONSTANTS
  Node,      \* the vertices
  Threads,   \* the worker threads of do_all
  Values,    \* betweeness_centrality values the run may leave (non-negative)
  Top        \* std::numeric_limits<float>::max() / 4

ASSUME SanityAssumption ==
  /\ IsFiniteSet(Node) /\ Node # {}
  /\ Threads # {}
  /\ Values \subseteq Nat
  /\ Top \in Nat /\ \A x \in Values : x < Top

VARIABLES
  bc,          \* betweeness_centrality, as BC::go left it
  currentMax,  \* Sanity::current_max
  currentMin,  \* Sanity::current_min
  sum,         \* DGAccumulator_sum, one slot per thread
  todo,        \* vertices do_all has not handed out yet
  pc,          \* where each thread is in Sanity::operator()
  cur,         \* the vertex each thread works on
  phase,       \* "loop" while do_all runs, "reported" once printed
  maxBC, minBC, bcSum   \* the values printed by node 0

vars == <<bc, currentMax, currentMin, sum, todo, pc, cur, phase, maxBC, minBC, bcSum>>

\* main resets the statics, then Sanity::go resets the accumulators.
Init ==
  /\ bc \in [Node -> Values]
  /\ currentMax = 0
  /\ currentMin = Top
  /\ sum = [t \in Threads |-> 0]
  /\ todo = Node
  /\ pc = [t \in Threads |-> "idle"]
  /\ cur = [t \in Threads |-> CHOOSE v \in Node : TRUE]
  /\ phase = "loop"
  /\ maxBC = 0 /\ minBC = 0 /\ bcSum = 0

\* Mutant: the store of current_max without the test before it.
TakeNoTest(t, v) ==
  /\ phase = "loop"
  /\ pc[t] = "idle"
  /\ v \in todo
  /\ todo' = todo \ {v}
  /\ cur' = [cur EXCEPT ![t] = v]
  /\ pc' = [pc EXCEPT ![t] = "storeMax"]
  /\ UNCHANGED <<bc, currentMax, currentMin, sum, phase, maxBC, minBC, bcSum>>

\* do_all hands vertex v to thread t; "if (current_max < bc)" reads the
\* static once.
Take(t, v) ==
  /\ phase = "loop"
  /\ pc[t] = "idle"
  /\ v \in todo
  /\ todo' = todo \ {v}
  /\ cur' = [cur EXCEPT ![t] = v]
  /\ pc' = [pc EXCEPT ![t] = IF currentMax < bc[v] THEN "storeMax" ELSE "cmpMin"]
  /\ UNCHANGED <<bc, currentMax, currentMin, sum, phase, maxBC, minBC, bcSum>>

\* "current_max = sdata.betweeness_centrality"
StoreMax(t) ==
  /\ pc[t] = "storeMax"
  /\ currentMax' = bc[cur[t]]
  /\ pc' = [pc EXCEPT ![t] = "cmpMin"]
  /\ UNCHANGED <<bc, currentMin, sum, todo, cur, phase, maxBC, minBC, bcSum>>

\* "if (current_min > bc)"
CmpMin(t) ==
  /\ pc[t] = "cmpMin"
  /\ pc' = [pc EXCEPT ![t] = IF currentMin > bc[cur[t]] THEN "storeMin" ELSE "sum"]
  /\ UNCHANGED <<bc, currentMax, currentMin, sum, todo, cur, phase, maxBC, minBC, bcSum>>

\* "current_min = sdata.betweeness_centrality"
StoreMin(t) ==
  /\ pc[t] = "storeMin"
  /\ currentMin' = bc[cur[t]]
  /\ pc' = [pc EXCEPT ![t] = "sum"]
  /\ UNCHANGED <<bc, currentMax, sum, todo, cur, phase, maxBC, minBC, bcSum>>

\* "DGAccumulator_sum += bc" into the thread's own slot.
AddSum(t) ==
  /\ pc[t] = "sum"
  /\ sum' = [sum EXCEPT ![t] = @ + bc[cur[t]]]
  /\ pc' = [pc EXCEPT ![t] = "idle"]
  /\ UNCHANGED <<bc, currentMax, currentMin, todo, cur, phase, maxBC, minBC, bcSum>>

\* do_all returns once every vertex is done; "DGA_max = current_max",
\* "DGA_min = current_min", then the reductions (one host: the values
\* themselves and the sum of the thread slots).
Report ==
  /\ phase = "loop"
  /\ todo = {}
  /\ \A t \in Threads : pc[t] = "idle"
  /\ maxBC' = currentMax
  /\ minBC' = currentMin
  /\ bcSum' = FoldFunction(LAMBDA x, y : x + y, 0, sum)
  /\ phase' = "reported"
  /\ UNCHANGED <<bc, currentMax, currentMin, sum, todo, pc, cur>>

Next ==
  \/ \E t \in Threads, v \in Node : Take(t, v)
  \/ \E t \in Threads : StoreMax(t) \/ CmpMin(t) \/ StoreMin(t) \/ AddSum(t)
  \/ Report

Spec == Init /\ [][Next]_vars

-----------------------------------------------------------------------------
TypeOK ==
  /\ bc \in [Node -> Values]
  /\ currentMax \in Values \cup {0}
  /\ currentMin \in Values \cup {Top}
  /\ sum \in [Threads -> Nat]
  /\ todo \subseteq Node
  /\ pc \in [Threads -> {"idle", "storeMax", "cmpMin", "storeMin", "sum"}]
  /\ cur \in [Threads -> Node]
  /\ phase \in {"loop", "reported"}

\* What the spec says Sanity reports: once printed, "Max BC" is the
\* largest and "Min BC" the smallest betweeness_centrality of the owned
\* vertices, and "BC sum" their sum.  The statics are updated by a
\* compare-then-store from every thread of do_all.
ReportCorrect ==
  phase = "reported" =>
    /\ maxBC = Max({bc[v] : v \in Node})
    /\ minBC = Min({bc[v] : v \in Node})
    /\ bcSum = FoldFunction(LAMBDA x, y : x + y, 0, bc)

=============================================================================
