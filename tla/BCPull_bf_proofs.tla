--------------------------- MODULE BCPull_bf_proofs ---------------------------
(***************************************************************************)
(* The SSSP loop of BC::go implements the asynchronous Bellman-Ford        *)
(* relaxation of module BellmanFord, under the mapping of BCPull           *)
(* (edges, current_length and the stage of the search), for every value   *)
(* of the constants.                                                       *)
(***************************************************************************)
EXTENDS BCPull_proofs

\* A step that leaves the graph, the distances and the stage alone is a
\* stuttering step of BellmanFord.
LEMMA MappedStutter ==
  ASSUME edges' = edges, dist' = dist, SearchStage' = SearchStage
  PROVE  [BF!Next]_BF!vars
BY DEF BF!vars

\* InitializeIteration starts a search: 0 at the source, when the source
\* is a vertex, and infinity everywhere else.
LEMMA InitIsStart ==
  ASSUME TypeOK, InitializeIteration
  PROVE  BF!Start
<1>1. SearchStage = "idle" /\ SearchStage' = "relax"
  BY DEF InitializeIteration, SearchStage
<1>2. dist' \in [Node -> {0, Infinity}]
  BY Zenon DEF InitializeIteration
<1>3. \A u, v \in Node : dist'[u] = 0 /\ dist'[v] = 0 => u = v
  BY ModFacts, NAssumption DEF InitializeIteration
<1>. QED
  BY <1>1, <1>2, <1>3 DEF InitializeIteration, BF!Start

\* A relaxation of SSSP lowers one distance to one more than a neighbour's,
\* or changes nothing BellmanFord sees.
LEMMA RelaxIsRelax ==
  ASSUME TypeOK, NEW e \in edges, SSSPRelax(e[1], e[2])
  PROVE  [BF!Next]_BF!vars
<1>. DEFINE s == e[1]
            t == e[2]
<1>. USE DEF s, t
<1>0. e = <<s, t>> /\ s \in Node /\ t \in Node /\ dist[s] \in Nat /\ dist[t] \in Nat
  BY DEF TypeOK
<1>1. SearchStage = "relax" /\ SearchStage' = "relax"
  BY DEF SSSPRelax, SearchStage
<1>5. dist' = [dist EXCEPT ![s] = IF 1 + dist[t] < dist[s] THEN 1 + dist[t] ELSE dist[s]]
  BY DEF SSSPRelax
<1>2. CASE 1 + dist[t] < dist[s]
  <2>0. (IF 1 + dist[t] < dist[s] THEN 1 + dist[t] ELSE dist[s]) = dist[t] + 1
    BY <1>0, <1>2
  <2>1. dist' = [dist EXCEPT ![s] = dist[t] + 1]
    BY <1>5, <2>0, Zenon
  <2>2. ~(dist[s] <= dist[t] + 1)
    BY <1>0, <1>2
  <2>3. <<s, t>> \in edges /\ edges' = edges
    BY <1>0 DEF SSSPRelax
  <2>4. BF!Relax(s, t)
    BY <1>1, <2>1, <2>2, <2>3 DEF BF!Relax, BF!Relaxed
  <2>. QED
    BY <1>0, <2>4 DEF BF!Next
<1>3. CASE ~(1 + dist[t] < dist[s])
  <2>1. dist' = dist
    BY <1>0, <1>3, <1>5 DEF TypeOK
  <2>. QED
    BY <1>1, <2>1, MappedStutter DEF SSSPRelax
<1>. QED
  BY <1>2, <1>3

\* The end of an SSSP superstep: another superstep is a stuttering step,
\* and leaving the loop is Finish, since a superstep that lowered nothing
\* has visited every edge and found it relaxed (RoundFix).
LEMMA RoundIsFinish ==
  ASSUME BFSInv, SSSPRound
  PROVE  [BF!Next]_BF!vars
<1>1. CASE work
  <2>1. SearchStage' = SearchStage
    BY <1>1 DEF SSSPRound, SearchStage
  <2>. QED
    BY <2>1, MappedStutter DEF SSSPRound, vertexVars
<1>2. CASE ~work
  <2>1. \A e \in edges : dist[e[1]] <= dist[e[2]] + 1
    <3>1. \A e \in edges \ todo : Relaxed(e)
      BY <1>2 DEF SSSPRound, BFSInv, RoundFix
    <3>2. \A e \in edges : dist[e[1]] \in Nat /\ dist[e[2]] \in Nat
      BY DEF BFSInv, TypeOK
    <3>. QED
      BY <3>1, <3>2 DEF SSSPRound, Relaxed
  <2>2. SearchStage = "relax" /\ SearchStage' = "done"
    BY <1>2 DEF SSSPRound, SearchStage
  <2>3. BF!Finish
    BY <2>1, <2>2 DEF SSSPRound, vertexVars, BF!Finish, BF!Relaxed
  <2>. QED
    BY <2>3 DEF BF!Next
<1>. QED
  BY <1>1, <1>2

\* BCAccumulate either moves to the next source, which ends the search, or
\* ends the run, which BellmanFord does not see.
LEMMA AccumulateIsReset ==
  ASSUME BCAccumulate
  PROVE  [BF!Next]_BF!vars
<1>1. SearchStage = "done"
  BY DEF BCAccumulate, SearchStage
<1>2. CASE i + 1 < LoopEnd
  <2>1. SearchStage' = "idle"
    BY <1>2 DEF BCAccumulate, SearchStage
  <2>. QED
    BY <1>1, <2>1 DEF BCAccumulate, BF!Reset, BF!Next
<1>3. CASE ~(i + 1 < LoopEnd)
  <2>1. SearchStage' = "done"
    BY <1>3 DEF BCAccumulate, SearchStage
  <2>. QED
    BY <1>1, <2>1, MappedStutter DEF BCAccumulate
<1>. QED
  BY <1>2, <1>3

LEMMA MappedInit == Init => BF!Init
<1>. SUFFICES ASSUME Init PROVE BF!Init
  OBVIOUS
<1>1. edges \in Graphs /\ dist \in [Node -> 0 .. Infinity]
  BY ModFacts DEF Init
<1>2. SearchStage = "idle"
  BY DEF Init, SearchStage
<1>. QED
  BY <1>1, <1>2 DEF BF!Init

LEMMA MappedNext == BFSInv /\ [Next]_vars => [BF!Next]_BF!vars
<1>. SUFFICES ASSUME BFSInv, [Next]_vars PROVE [BF!Next]_BF!vars
  OBVIOUS
<1>0. TypeOK
  BY DEF BFSInv
<1>1. ASSUME NEW r \in Node, SampleSource(r) PROVE [BF!Next]_BF!vars
  BY <1>1, MappedStutter DEF SampleSource, SearchStage, vertexVars
<1>2. CASE SamplingDone
  BY <1>2, MappedStutter DEF SamplingDone, SearchStage, vertexVars
<1>3. CASE InitializeIteration
  BY <1>0, <1>3, InitIsStart DEF InitializeIteration, BF!Next
<1>4. ASSUME NEW e \in edges, SSSPRelax(e[1], e[2]) PROVE [BF!Next]_BF!vars
  BY <1>0, <1>4, RelaxIsRelax
<1>5. CASE SSSPRound
  BY <1>5, RoundIsFinish
<1>6. CASE \/ PredAndSucc \/ NSPStart \/ (\E e \in edges : NSPPull(e[1], e[2]))
           \/ NSPTrim \/ NSPAdd \/ NSPChanges \/ DPStart
           \/ (\E s \in Node : DPPropagate(s)) \/ DPTrim \/ DPAdd \/ DPChanges
  <2>1. edges' = edges /\ dist' = dist
    BY <1>6 DEF PredAndSucc, NSPStart, NSPPull, NSPTrim, NSPAdd, NSPChanges,
                DPStart, DPPropagate, DPTrim, DPAdd, DPChanges, vertexVars
  <2>2. SearchStage = "done" /\ SearchStage' = "done"
    BY <1>6 DEF PredAndSucc, NSPStart, NSPPull, NSPTrim, NSPAdd, NSPChanges,
                DPStart, DPPropagate, DPTrim, DPAdd, DPChanges, SearchStage
  <2>. QED
    BY <2>1, <2>2, MappedStutter
<1>7. CASE BCAccumulate
  BY <1>7, AccumulateIsReset
<1>8. CASE UNCHANGED vars
  BY <1>8, MappedStutter DEF vars, vertexVars, SearchStage
<1>. QED
  BY <1>1, <1>2, <1>3, <1>4, <1>5, <1>6, <1>7, <1>8, Zenon DEF Next

\* The SSSP loop of BC::go, with its concurrent relaxations and its
\* work accumulator, implements the asynchronous Bellman-Ford relaxation:
\* every change of current_length lowers one vertex to one more than a
\* neighbour, a search starts from a single source, and the loop is left
\* only when no edge can improve any distance.
THEOREM ImplementsBellmanFordCorrect == Spec => ImplementsBellmanFord
<1>1. BFSInv /\ [][Next]_vars => [][BF!Next]_BF!vars
  BY BFSNext, MappedNext, PTL
<1>. QED
  BY <1>1, BFSInit, MappedInit, PTL DEF Spec, ImplementsBellmanFord, BF!Spec

=============================================================================
