------------------------------- MODULE BCPull -------------------------------
(***************************************************************************)
(* The pull-style betweenness-centrality engine of                         *)
(* dist_apps/experimental/apps/cgo/bc_pull/gen.cpp, on one host.           *)
(*                                                                         *)
(* For each source the driver BC::go runs InitializeIteration, the BFS     *)
(* loop SSSP, PredAndSucc, the sigma loop NumShortestPaths (propagate,     *)
(* NSPTrim, NSPAdd, NumShortestPathsChanges), the dependency loop          *)
(* DependencyPropogation (propagate, DPTrim, DPAdd, DependencyPropChanges) *)
(* and finally the BC operator.  Every superstep is an action; inside a    *)
(* superstep the per-edge or per-vertex operator runs are actions of their *)
(* own, in any order.  With one host every vertex is a master, so a sync   *)
(* leaves the canonical value where the operators put it.                  *)
(*                                                                         *)
(* edges is the CSR the loader builds (constructGraph<..., false>): an     *)
(* edge <<s, t>> is one s pulls from, i.e. t -> s in the input graph.      *)
(***************************************************************************)
EXTENDS Integers, FiniteSets, FiniteSetsExt

CONSTANTS
  N,             \* number of vertices; their global ids are 0 .. N-1
  Width,         \* bit width of the unsigned fields of NodeData
  Graphs,        \* the CSR edge sets the loaded graph may have
  SingleSource,  \* --singleSource
  StartSource,   \* --srcNodeId
  NumOfSources   \* --numOfSources (0: every vertex is a source)

Node == 0 .. N-1

\* uint32_t arithmetic of NodeData, on Width bits.
Mod == 2^Width

ASSUME NAssumption == N \in Nat \ {0}
ASSUME WidthAssumption ==
  /\ Width \in Nat \ {0}
  /\ Mod \in Nat \ {0}
  /\ N + 1 < (Mod - 1) \div 4
ASSUME GraphsAssumption == Graphs \subseteq SUBSET (Node \X Node) /\ Graphs # {}
ASSUME OptionsAssumption ==
  /\ SingleSource \in BOOLEAN
  /\ StartSource \in Nat
  /\ NumOfSources \in Nat

\* const uint32_t infinity = numeric_limits<uint32_t>::max() / 4
Infinity == (Mod - 1) \div 4

UAdd(a, b) == (a + b) % Mod
USub(a, b) == (a - b) % Mod

(***************************************************************************)
(* The float fields (dependency, to_add_float, betweeness_centrality) hold *)
(* non-negative rationals num/den, computed exactly.  den = 0 stands for   *)
(* the result of a division by a zero sigma: +inf when num > 0, NaN when   *)
(* num = 0.                                                                *)
(***************************************************************************)
Q == [num : Nat, den : Nat]
Zero == [num |-> 0, den |-> 1]

Finite(q) == q.den # 0

QAdd(a, b) ==
  IF Finite(a) /\ Finite(b)
  THEN [num |-> a.num * b.den + b.num * a.den, den |-> a.den * b.den]
  ELSE [num |-> IF (~Finite(a) => a.num > 0) /\ (~Finite(b) => b.num > 0)
                THEN 1 ELSE 0,
        den |-> 0]

\* "x > 0" on a float: false for NaN, true for +inf.
QPos(q) == q.num > 0

QEq(a, b) == a.num * b.den = b.num * a.den

\* The float-to-uint32_t conversion "uint32_t dep = src_data.dependency":
\* truncation; a non-finite value converts to 0 on x86-64.
ToUInt(q) == IF Finite(q) THEN q.num \div q.den ELSE 0

Phases == {"sample", "init", "sssp", "predsucc", "nsp_start", "nsp", "nsp_add",
           "nsp_changes", "dp_start", "dp", "dp_add", "dp_changes", "bc", "done"}

VARIABLES
  edges,    \* the loaded graph
  phase,    \* where the driver is
  rs,       \* random_sources
  i,        \* the loop index of BC::go
  dist,     \* current_length
  sigma,    \* num_shortest_paths
  npred,    \* num_predecessors
  nsucc,    \* num_successors
  dep,      \* dependency
  bc,       \* betweeness_centrality
  flag,     \* propogation_flag
  trim,     \* trim
  toAdd,    \* to_add
  trim2,    \* trim2
  toAddF,   \* to_add_float
  spDone,   \* num_short_paths_flag
  dpDone,   \* dep_prop_flag
  work,     \* the DGAccumulator of the running loop is non-zero
  todo,     \* edges whose operator has not yet run in this superstep
  fire      \* vertices whose DependencyPropogation operator has not yet run

vertexVars == <<dist, sigma, npred, nsucc, dep, bc, flag, trim, toAdd, trim2,
                toAddF, spDone, dpDone>>
vars == <<edges, phase, rs, i, work, todo, fire, vertexVars>>

-----------------------------------------------------------------------------
(* Source selection (main and the head of the loop in BC::go).             *)

\* loop_end of BC::go
LoopEnd ==
  IF SingleSource THEN 1
  ELSE IF NumOfSources # 0 THEN NumOfSources ELSE N

\* current_src_node in iteration k: the start source, the k-th smallest
\* element of random_sources, or k.
SourceAt(k) ==
  IF SingleSource THEN StartSource
  ELSE IF NumOfSources # 0
       THEN CHOOSE x \in rs : Cardinality({y \in rs : y < x}) = k
       ELSE k

Src == SourceAt(i)

HasEdges(v) == \E t \in Node : <<v, t>> \in edges

\* <<s, t>> is on the shortest-path DAG: t is a predecessor of s.
OnDag(s, t) ==
  /\ <<s, t>> \in edges
  /\ dist[s] # Infinity
  /\ dist[t] + 1 = dist[s]

DagPreds(v) == {t \in Node : OnDag(v, t)}
DagSuccs(v) == {s \in Node : OnDag(s, v)}

-----------------------------------------------------------------------------
(* InitializeGraph, and the fields it leaves alone still as the fresh      *)
(* pages of the node array hold them (zero).                               *)
Init ==
  /\ edges \in Graphs
  /\ rs = IF NumOfSources # 0 THEN {StartSource} ELSE {}
  /\ phase = IF NumOfSources # 0 THEN "sample" ELSE "init"
  /\ i = 0
  /\ dist = [v \in Node |-> 0]
  /\ sigma = [v \in Node |-> 0]
  /\ npred = [v \in Node |-> 0]
  /\ nsucc = [v \in Node |-> 0]
  /\ dep = [v \in Node |-> Zero]
  /\ bc = [v \in Node |-> Zero]
  /\ flag = [v \in Node |-> FALSE]
  /\ trim = [v \in Node |-> 0]
  /\ toAdd = [v \in Node |-> 0]
  /\ trim2 = [v \in Node |-> 0]
  /\ toAddF = [v \in Node |-> Zero]
  /\ spDone = [v \in Node |-> FALSE]
  /\ dpDone = [v \in Node |-> FALSE]
  /\ work = FALSE
  /\ todo = {}
  /\ fire = {}

\* Mutant: the loop condition of main written with <= for <.
SamplingMoreLe == Cardinality(rs) <= NumOfSources

\* The condition of main's sampling loop:
\* random_sources.size() < numberOfSources.
SamplingMore == Cardinality(rs) < NumOfSources

\* main: random_sources.insert(r_dist(r_generator)) while the set is short.
SampleSource(r) ==
  /\ phase = "sample"
  /\ SamplingMore
  /\ rs' = rs \cup {r}
  /\ UNCHANGED <<edges, phase, i, work, todo, fire, vertexVars>>

SamplingDone ==
  /\ phase = "sample"
  /\ ~SamplingMore
  /\ phase' = "init"
  /\ UNCHANGED <<edges, rs, i, work, todo, fire, vertexVars>>

\* InitializeIteration::operator() on every vertex, then the first SSSP
\* superstep starts with every edge pending.
InitializeIteration ==
  /\ phase = "init"
  /\ dist' = [v \in Node |-> IF v = Src THEN 0 ELSE Infinity]
  /\ sigma' = [v \in Node |-> IF v = Src THEN 1 ELSE 0]
  /\ flag' = [v \in Node |-> v = Src]
  /\ nsucc' = [v \in Node |-> 0]
  /\ spDone' = [v \in Node |-> FALSE]
  /\ dpDone' = [v \in Node |-> FALSE]
  /\ phase' = "sssp"
  /\ todo' = edges
  /\ work' = FALSE
  /\ UNCHANGED <<edges, rs, i, fire, npred, dep, bc, trim, toAdd, trim2, toAddF>>

-----------------------------------------------------------------------------
\* Mutants of SSSPRelax: a plain store instead of the atomic min; the
\* work accumulator not bumped; the accumulator bumped on "old >= new".
SSSPRelaxStore(s, t) ==
  /\ phase = "sssp"
  /\ <<s, t>> \in todo
  /\ dist' = [dist EXCEPT ![s] = 1 + dist[t]]
  /\ work' = (work \/ dist[s] > 1 + dist[t])
  /\ todo' = todo \ {<<s, t>>}
  /\ UNCHANGED <<edges, phase, rs, i, fire, sigma, npred, nsucc, dep, bc, flag,
                 trim, toAdd, trim2, toAddF, spDone, dpDone>>

SSSPRelaxNoAccum(s, t) ==
  /\ phase = "sssp"
  /\ <<s, t>> \in todo
  /\ dist' = [dist EXCEPT ![s] = IF 1 + dist[t] < @ THEN 1 + dist[t] ELSE @]
  /\ work' = work
  /\ todo' = todo \ {<<s, t>>}
  /\ UNCHANGED <<edges, phase, rs, i, fire, sigma, npred, nsucc, dep, bc, flag,
                 trim, toAdd, trim2, toAddF, spDone, dpDone>>

SSSPRelaxGe(s, t) ==
  /\ phase = "sssp"
  /\ <<s, t>> \in todo
  /\ dist' = [dist EXCEPT ![s] = IF 1 + dist[t] < @ THEN 1 + dist[t] ELSE @]
  /\ work' = (work \/ dist[s] >= 1 + dist[t])
  /\ todo' = todo \ {<<s, t>>}
  /\ UNCHANGED <<edges, phase, rs, i, fire, sigma, npred, nsucc, dep, bc, flag,
                 trim, toAdd, trim2, toAddF, spDone, dpDone>>

-----------------------------------------------------------------------------
(* SSSP: one relaxation of the operator on s, through the atomic           *)
(* Galois::min on current_length; the threads of do_all_local interleave   *)
(* at this grain.                                                          *)
SSSPRelax(s, t) ==
  /\ phase = "sssp"
  /\ <<s, t>> \in todo
  /\ dist' = [dist EXCEPT ![s] = IF 1 + dist[t] < @ THEN 1 + dist[t] ELSE @]
  /\ work' = (work \/ dist[s] > 1 + dist[t])
  /\ todo' = todo \ {<<s, t>>}
  /\ UNCHANGED <<edges, phase, rs, i, fire, sigma, npred, nsucc, dep, bc, flag,
                 trim, toAdd, trim2, toAddF, spDone, dpDone>>

\* End of an SSSP superstep: "while (accum_result)".
SSSPRound ==
  /\ phase = "sssp"
  /\ todo = {}
  /\ IF work
     THEN todo' = edges /\ UNCHANGED phase
     ELSE phase' = "predsucc" /\ UNCHANGED todo
  /\ work' = FALSE
  /\ UNCHANGED <<edges, rs, i, fire, vertexVars>>

\* PredAndSucc: every DAG edge counts once in num_predecessors of its
\* source and once in num_successors of its destination.
PredAndSucc ==
  /\ phase = "predsucc"
  /\ npred' = [v \in Node |-> UAdd(npred[v], Cardinality(DagPreds(v)))]
  /\ nsucc' = [v \in Node |-> UAdd(nsucc[v], Cardinality(DagSuccs(v)))]
  /\ phase' = "nsp_start"
  /\ UNCHANGED <<edges, rs, i, work, todo, fire, dist, sigma, dep, bc, flag,
                 trim, toAdd, trim2, toAddF, spDone, dpDone>>

-----------------------------------------------------------------------------
(* NumShortestPaths.                                                       *)

\* s still has predecessors to take and t holds the token.
Pulls(s, t) == OnDag(s, t) /\ npred[s] > 0 /\ flag[t]

\* Head of a round: the edges whose operator will add to trim and to_add.
\* Nothing they read is written in this superstep.
NSPStart ==
  /\ phase = "nsp_start"
  /\ todo' = {e \in edges : Pulls(e[1], e[2])}
  /\ work' = (todo' # {})
  /\ phase' = "nsp"
  /\ UNCHANGED <<edges, rs, i, fire, vertexVars>>

\* Mutant: to_add is stored, not atomically added to, so a vertex with
\* two DAG predecessors keeps only the last one's count.
NSPPullStore(s, t) ==
  /\ phase = "nsp"
  /\ <<s, t>> \in todo
  /\ trim' = [trim EXCEPT ![s] = UAdd(@, 1)]
  /\ toAdd' = [toAdd EXCEPT ![s] = sigma[t]]
  /\ todo' = todo \ {<<s, t>>}
  /\ UNCHANGED <<edges, phase, rs, i, work, fire, dist, sigma, npred, nsucc, dep,
                 bc, flag, trim2, toAddF, spDone, dpDone>>

NSPPull(s, t) ==
  /\ phase = "nsp"
  /\ <<s, t>> \in todo
  /\ trim' = [trim EXCEPT ![s] = UAdd(@, 1)]
  /\ toAdd' = [toAdd EXCEPT ![s] = UAdd(@, sigma[t])]
  /\ todo' = todo \ {<<s, t>>}
  /\ UNCHANGED <<edges, phase, rs, i, work, fire, dist, sigma, npred, nsucc, dep,
                 bc, flag, trim2, toAddF, spDone, dpDone>>

NSPTrim ==
  /\ phase = "nsp"
  /\ todo = {}
  /\ npred' = [v \in Node |-> IF trim[v] > 0 THEN USub(npred[v], trim[v])
                                             ELSE npred[v]]
  /\ trim' = [v \in Node |-> IF trim[v] > 0 THEN 0 ELSE trim[v]]
  /\ phase' = "nsp_add"
  /\ UNCHANGED <<edges, rs, i, work, todo, fire, dist, sigma, nsucc, dep, bc,
                 flag, toAdd, trim2, toAddF, spDone, dpDone>>

NSPAdd ==
  /\ phase = "nsp_add"
  /\ sigma' = [v \in Node |-> IF toAdd[v] > 0 THEN UAdd(sigma[v], toAdd[v])
                                              ELSE sigma[v]]
  /\ toAdd' = [v \in Node |-> IF toAdd[v] > 0 THEN 0 ELSE toAdd[v]]
  /\ phase' = "nsp_changes"
  /\ UNCHANGED <<edges, rs, i, work, todo, fire, dist, npred, nsucc, dep, bc,
                 flag, trim, trim2, toAddF, spDone, dpDone>>

\* A settled vertex with successors gives its token up ...
SpReleases(v) ==
  dist[v] # Infinity /\ npred[v] = 0 /\ flag[v] /\ nsucc[v] # 0

\* ... and a newly settled vertex takes it, once.
SpReady(v) ==
  dist[v] # Infinity /\ npred[v] = 0 /\ ~flag[v] /\ ~spDone[v]

\* NumShortestPathsChanges, then "while (accum_result)".
NSPChanges ==
  /\ phase = "nsp_changes"
  /\ flag' = [v \in Node |-> IF SpReleases(v) THEN FALSE
                             ELSE IF SpReady(v) THEN TRUE ELSE flag[v]]
  /\ spDone' = [v \in Node |-> spDone[v] \/ SpReleases(v) \/ SpReady(v)]
  /\ phase' = IF work THEN "nsp_start" ELSE "dp_start"
  /\ UNCHANGED <<edges, rs, i, work, todo, fire, dist, sigma, npred, nsucc, dep,
                 bc, trim, toAdd, trim2, toAddF, dpDone>>

-----------------------------------------------------------------------------
(* DependencyPropogation.                                                  *)

Fires(s) == HasEdges(s) /\ dist[s] # Infinity /\ flag[s]

\* The vertices s feeds: its DAG predecessors other than the source.
Feeds(s) == {t \in Node : OnDag(s, t) /\ t # Src}

\* (float)sigma(t) / (float)sigma(s) * (float)(1.0 + dep)
DepTerm(t, s) ==
  [num |-> sigma[t] * (1 + ToUInt(dep[s])), den |-> sigma[s]]

\* Head of a round: the vertices whose operator will fire.
DPStart ==
  /\ phase = "dp_start"
  /\ fire' = {s \in Node : Fires(s)}
  /\ work' = \E s \in fire' : Feeds(s) # {}
  /\ phase' = "dp"
  /\ UNCHANGED <<edges, rs, i, todo, vertexVars>>

\* The operator on s: atomic adds to trim2 and to_add_float of every
\* vertex it feeds, then its token is spent.
DPPropagate(s) ==
  /\ phase = "dp"
  /\ s \in fire
  /\ trim2' = [t \in Node |-> IF t \in Feeds(s) THEN UAdd(trim2[t], 1)
                                               ELSE trim2[t]]
  /\ toAddF' = [t \in Node |-> IF t \in Feeds(s) THEN QAdd(toAddF[t], DepTerm(t, s))
                                                ELSE toAddF[t]]
  /\ flag' = [flag EXCEPT ![s] = FALSE]
  /\ dpDone' = [dpDone EXCEPT ![s] = TRUE]
  /\ fire' = fire \ {s}
  /\ UNCHANGED <<edges, phase, rs, i, work, todo, dist, sigma, npred, nsucc, dep,
                 bc, trim, toAdd, spDone>>

\* DPTrim, as written: it clears trim, not trim2.
DPTrim ==
  /\ phase = "dp"
  /\ fire = {}
  /\ nsucc' = [v \in Node |-> IF trim2[v] > 0 THEN USub(nsucc[v], trim2[v])
                                              ELSE nsucc[v]]
  /\ trim' = [v \in Node |-> IF trim2[v] > 0 THEN 0 ELSE trim[v]]
  /\ phase' = "dp_add"
  /\ UNCHANGED <<edges, rs, i, work, todo, fire, dist, sigma, npred, dep, bc,
                 flag, toAdd, trim2, toAddF, spDone, dpDone>>

DPAdd ==
  /\ phase = "dp_add"
  /\ dep' = [v \in Node |-> IF QPos(toAddF[v]) THEN QAdd(dep[v], toAddF[v])
                                               ELSE dep[v]]
  /\ toAddF' = [v \in Node |-> IF QPos(toAddF[v]) THEN Zero ELSE toAddF[v]]
  /\ phase' = "dp_changes"
  /\ UNCHANGED <<edges, rs, i, work, todo, fire, dist, sigma, npred, nsucc, bc,
                 flag, trim, toAdd, trim2, spDone, dpDone>>

\* Mutant: num_successors is not checked.
DpReadyAnySucc(v) == HasEdges(v) /\ dist[v] # Infinity /\ ~dpDone[v]

DpReady(v) ==
  HasEdges(v) /\ dist[v] # Infinity /\ nsucc[v] = 0 /\ ~dpDone[v]

\* DependencyPropChanges, then "while (accum_result)".
DPChanges ==
  /\ phase = "dp_changes"
  /\ flag' = [v \in Node |-> flag[v] \/ DpReady(v)]
  /\ dpDone' = [v \in Node |-> dpDone[v] \/ DpReady(v)]
  /\ phase' = IF work THEN "dp_start" ELSE "bc"
  /\ UNCHANGED <<edges, rs, i, work, todo, fire, dist, sigma, npred, nsucc, dep,
                 bc, trim, toAdd, trim2, toAddF, spDone>>

\* The BC operator on every vertex, then the next source or the end of
\* the run.
BCAccumulate ==
  /\ phase = "bc"
  /\ bc' = [v \in Node |-> IF QPos(dep[v]) THEN QAdd(bc[v], dep[v]) ELSE bc[v]]
  /\ dep' = [v \in Node |-> IF QPos(dep[v]) THEN Zero ELSE dep[v]]
  /\ IF i + 1 < LoopEnd
     THEN i' = i + 1 /\ phase' = "init"
     ELSE phase' = "done" /\ UNCHANGED i
  /\ UNCHANGED <<edges, rs, work, todo, fire, dist, sigma, npred, nsucc, flag,
                 trim, toAdd, trim2, toAddF, spDone, dpDone>>

-----------------------------------------------------------------------------
Next ==
  \/ \E r \in Node : SampleSource(r)
  \/ SamplingDone
  \/ InitializeIteration
  \/ \E e \in edges : SSSPRelax(e[1], e[2])
  \/ SSSPRound
  \/ PredAndSucc
  \/ NSPStart
  \/ \E e \in edges : NSPPull(e[1], e[2])
  \/ NSPTrim
  \/ NSPAdd
  \/ NSPChanges
  \/ DPStart
  \/ \E s \in Node : DPPropagate(s)
  \/ DPTrim
  \/ DPAdd
  \/ DPChanges
  \/ BCAccumulate

Spec == Init /\ [][Next]_vars

\* One logical thread runs the driver and every do_all completes, so the
\* run may not stop while a step is enabled; the seeded generator of main
\* yields every id of the range again and again.
FairSpec ==
  /\ Spec
  /\ WF_vars(Next)
  /\ \A r \in Node : SF_vars(SampleSource(r))

-----------------------------------------------------------------------------
(* Properties.                                                             *)

TypeOK ==
  /\ edges \subseteq Node \X Node
  /\ phase \in Phases
  /\ rs \subseteq Node \cup {StartSource}
  /\ i \in Nat
  /\ dist \in [Node -> 0 .. Infinity]
  /\ sigma \in [Node -> 0 .. Mod - 1]
  /\ npred \in [Node -> 0 .. Mod - 1]
  /\ nsucc \in [Node -> 0 .. Mod - 1]
  /\ trim \in [Node -> 0 .. Mod - 1]
  /\ toAdd \in [Node -> 0 .. Mod - 1]
  /\ trim2 \in [Node -> 0 .. Mod - 1]
  /\ dep \in [Node -> Q]
  /\ bc \in [Node -> Q]
  /\ toAddF \in [Node -> Q]
  /\ flag \in [Node -> BOOLEAN]
  /\ spDone \in [Node -> BOOLEAN]
  /\ dpDone \in [Node -> BOOLEAN]
  /\ work \in BOOLEAN
  /\ todo \subseteq edges
  /\ fire \subseteq Node

AfterBFS == Phases \ {"sample", "init", "sssp"}
AfterSigma == {"dp_start", "dp", "dp_add", "dp_changes", "bc"}

\* Once the SSSP loop has stopped, current_length is the hop distance to
\* the source: 0 at the source and otherwise one more than the nearest
\* vertex pulled from, or infinity.  The loop stops on the first superstep
\* in which no Galois::min lowered a distance, whatever the order in which
\* the threads relaxed the edges.
DistIsBFS ==
  phase \in AfterBFS =>
    \A v \in Node :
      dist[v] = IF v = Src THEN 0
                ELSE Min({Infinity} \cup {dist[t] + 1 : t \in {t \in Node : <<v, t>> \in edges}})

\* Once sampling is over, the source loop of BC::go walks random_sources
\* exactly: iteration k of the loop_end = numberOfSources iterations
\* takes the k-th smallest element, so every sampled source is visited
\* once and the iterator never runs past the end of the set.  It rests on
\* the sampling loop of main stopping at exactly numberOfSources distinct
\* sources, StartSource among them.
SourcesCovered ==
  NumOfSources # 0 /\ ~SingleSource /\ phase # "sample" =>
    /\ Cardinality(rs) = LoopEnd
    /\ {SourceAt(k) : k \in 0 .. LoopEnd - 1} = rs

\* Once the NumShortestPaths loop has stopped, every reached vertex has
\* taken all its predecessors and num_shortest_paths is the number of
\* shortest paths from the source: 1 at the source, the sum over the DAG
\* predecessors elsewhere, and 0 where the BFS did not reach.  This rests
\* on the propogation_flag token: a predecessor is taken only once its own
\* count is final, and exactly once.
SigmaCorrect ==
  phase \in AfterSigma =>
    \A v \in Node :
      IF dist[v] = Infinity
      THEN sigma[v] = 0
      ELSE /\ npred[v] = 0
           /\ sigma[v] = IF v = Src THEN 1
                         ELSE MapThenSumSet(LAMBDA t : sigma[t], DagPreds(v))

\* The assertion of DependencyPropogation::operator(): a vertex that holds
\* the token when the operator runs has no unsettled successor left.  The
\* tokens come from the leaves kept by NumShortestPathsChanges and from
\* DependencyPropChanges.
DPLeafAssert ==
  phase = "dp" => \A s \in fire : nsucc[s] = 0

\* Sum of rationals over a finite set.
QSum(f(_), S) == MapThenFoldSet(QAdd, Zero, f, LAMBDA X : CHOOSE x \in X : TRUE, S)

\* Brandes' recurrence, as the spec states it for the end of the
\* dependency phase: for every reached vertex other than the source,
\* dependency = sum over its DAG successors w of
\* sigma(v) / sigma(w) * (1 + dependency(w)).
DependencyCorrect ==
  phase = "bc" =>
    \A v \in Node \ {Src} :
      dist[v] # Infinity =>
        QEq(dep[v],
            QSum(LAMBDA w : [num |-> sigma[v] * (dep[w].den + dep[w].num),
                             den |-> sigma[w] * dep[w].den],
                 DagSuccs(v)))

\* The driver finishes: every source runs through all phases and the
\* loops of SSSP, NumShortestPaths and DependencyPropogation each stop.
Termination == <>(phase = "done")


-----------------------------------------------------------------------------
(* Refinement: the SSSP loop implements the asynchronous Bellman-Ford      *)
(* relaxation of module BellmanFord.  Before InitializeIteration the      *)
(* search is idle, during the SSSP loop it relaxes, and from PredAndSucc  *)
(* on it is done; a relaxation that lowers nothing, the bookkeeping of    *)
(* the supersteps and every later phase are stuttering steps.            *)

SearchStage ==
  IF phase \in {"sample", "init"} THEN "idle"
  ELSE IF phase = "sssp" THEN "relax" ELSE "done"

BF == INSTANCE BellmanFord WITH g <- edges, d <- dist, stage <- SearchStage

\* Whatever order the concurrent operators of a superstep run in, the SSSP
\* loop of BC::go is a run of asynchronous Bellman-Ford: every change of
\* current_length lowers one vertex to one more than a neighbour, and the
\* loop is left ("while (accum_result)") only when no edge can improve a
\* distance.
ImplementsBellmanFord == BF!Spec

=============================================================================
