---------------------------- MODULE BCPull_proofs ----------------------------
(***************************************************************************)
(* Proofs about BCPull for every value of the constants.                   *)
(***************************************************************************)
EXTENDS BCPull, FiniteSetTheorems, TLAPS

\* The word arithmetic is well formed: a positive modulus, and an infinity
\* above every hop distance.
LEMMA ModFacts ==
  /\ Mod \in Nat \ {0}
  /\ Infinity \in Nat
  /\ N + 1 < Infinity
  /\ 2 <= Mod
<1>1. Mod \in Nat \ {0} /\ N + 1 < (Mod - 1) \div 4 /\ N \in Nat
  BY WidthAssumption, NAssumption
<1>2. Infinity \in Nat /\ N + 1 < Infinity
  BY <1>1 DEF Infinity
<1>3. 2 <= Mod
  BY <1>1, <1>2 DEF Infinity
<1>. QED
  BY <1>1, <1>2, <1>3

\* A set of vertices has a natural number of elements.
LEMMA NodeSubsetCard ==
  ASSUME NEW S \in SUBSET Node
  PROVE  Cardinality(S) \in Nat
<1>1. IsFiniteSet(Node)
  BY NAssumption, FS_Interval DEF Node
<1>2. IsFiniteSet(S)
  BY <1>1, FS_Subset
<1>. QED
  BY <1>2, FS_CardinalityType

\* The float operations stay among the values Q represents.
LEMMA QAddType ==
  ASSUME NEW a \in Q, NEW b \in Q
  PROVE  QAdd(a, b) \in Q
BY DEF QAdd, Q, Finite

LEMMA ToUIntType ==
  ASSUME NEW q \in Q
  PROVE  ToUInt(q) \in Nat
BY DEF ToUInt, Q, Finite

LEMMA ZeroType == Zero \in Q
BY DEF Zero, Q

-----------------------------------------------------------------------------
\* Every field keeps its type: the unsigned fields stay on the word,
\* current_length between 0 and infinity, the float fields among Q, and
\* the pending sets of a superstep inside the graph.
LEMMA InitTypeOK == Init => TypeOK
<1>. SUFFICES ASSUME Init PROVE TypeOK
  OBVIOUS
<1>1. edges \subseteq Node \X Node /\ phase \in Phases /\ i \in Nat
        /\ rs \subseteq Node \cup {StartSource}
  BY GraphsAssumption, OptionsAssumption DEF Init, Phases
<1>2. /\ dist \in [Node -> 0 .. Infinity]
      /\ sigma \in [Node -> 0 .. Mod - 1]
      /\ npred \in [Node -> 0 .. Mod - 1]
      /\ nsucc \in [Node -> 0 .. Mod - 1]
      /\ trim \in [Node -> 0 .. Mod - 1]
      /\ toAdd \in [Node -> 0 .. Mod - 1]
      /\ trim2 \in [Node -> 0 .. Mod - 1]
  BY ModFacts DEF Init
<1>3. dep \in [Node -> Q] /\ bc \in [Node -> Q] /\ toAddF \in [Node -> Q]
  BY ZeroType DEF Init
<1>4. /\ flag \in [Node -> BOOLEAN]
      /\ spDone \in [Node -> BOOLEAN]
      /\ dpDone \in [Node -> BOOLEAN]
      /\ work \in BOOLEAN /\ todo \subseteq edges /\ fire \subseteq Node
  BY DEF Init
<1>. QED
  BY <1>1, <1>2, <1>3, <1>4 DEF TypeOK

LEMMA NextTypeOK == TypeOK /\ [Next]_vars => TypeOK'
<1>. USE ModFacts, NAssumption, GraphsAssumption, OptionsAssumption
<1> SUFFICES ASSUME TypeOK, [Next]_vars PROVE TypeOK'
  OBVIOUS
<1>1. ASSUME NEW r \in Node, SampleSource(r) PROVE TypeOK'
  BY <1>1 DEF SampleSource, TypeOK, vertexVars
<1>2. CASE SamplingDone
  BY <1>2 DEF SamplingDone, TypeOK, Phases, vertexVars
<1>3. CASE InitializeIteration
  <2>1. dist' \in [Node -> 0 .. Infinity] /\ sigma' \in [Node -> 0 .. Mod - 1]
          /\ nsucc' \in [Node -> 0 .. Mod - 1]
    BY <1>3 DEF InitializeIteration
  <2>2. /\ flag' \in [Node -> BOOLEAN]
        /\ spDone' \in [Node -> BOOLEAN]
        /\ dpDone' \in [Node -> BOOLEAN]
    BY <1>3 DEF InitializeIteration
  <2>. QED
    BY <1>3, <2>1, <2>2 DEF InitializeIteration, TypeOK, Phases
<1>4. ASSUME NEW e \in edges, SSSPRelax(e[1], e[2]) PROVE TypeOK'
  <2>1. e[1] \in Node /\ e[2] \in Node
    BY DEF TypeOK
  <2>2. dist' \in [Node -> 0 .. Infinity]
    BY <1>4, <2>1 DEF SSSPRelax, TypeOK
  <2>. QED
    BY <1>4, <2>2 DEF SSSPRelax, TypeOK
<1>5. CASE SSSPRound
  BY <1>5 DEF SSSPRound, TypeOK, Phases, vertexVars
<1>6. CASE PredAndSucc
  <2>1. \A v \in Node : Cardinality(DagPreds(v)) \in Nat /\ Cardinality(DagSuccs(v)) \in Nat
    BY NodeSubsetCard DEF DagPreds, DagSuccs
  <2>2. \A v \in Node : /\ UAdd(npred[v], Cardinality(DagPreds(v))) \in 0 .. Mod - 1
                        /\ UAdd(nsucc[v], Cardinality(DagSuccs(v))) \in 0 .. Mod - 1
    BY <2>1 DEF UAdd, TypeOK
  <2>3. npred' \in [Node -> 0 .. Mod - 1] /\ nsucc' \in [Node -> 0 .. Mod - 1]
    BY <1>6, <2>2 DEF PredAndSucc
  <2>. QED
    BY <1>6, <2>3 DEF PredAndSucc, TypeOK, Phases
<1>7. CASE NSPStart
  BY <1>7 DEF NSPStart, TypeOK, Phases, vertexVars
<1>8. ASSUME NEW e \in edges, NSPPull(e[1], e[2]) PROVE TypeOK'
  <2>1. e[1] \in Node /\ e[2] \in Node
    BY DEF TypeOK
  <2>2. UAdd(trim[e[1]], 1) \in 0 .. Mod - 1
          /\ UAdd(toAdd[e[1]], sigma[e[2]]) \in 0 .. Mod - 1
    BY <2>1 DEF UAdd, TypeOK
  <2>3. trim' \in [Node -> 0 .. Mod - 1] /\ toAdd' \in [Node -> 0 .. Mod - 1]
    BY <1>8, <2>1, <2>2 DEF NSPPull, TypeOK
  <2>. QED
    BY <1>8, <2>3 DEF NSPPull, TypeOK
<1>9. CASE NSPTrim
  <2>1. \A v \in Node : USub(npred[v], trim[v]) \in 0 .. Mod - 1
    BY DEF UAdd, USub, TypeOK
  <2>2. npred' \in [Node -> 0 .. Mod - 1] /\ trim' \in [Node -> 0 .. Mod - 1]
    BY <1>9, <2>1 DEF NSPTrim, TypeOK
  <2>. QED
    BY <1>9, <2>2 DEF NSPTrim, TypeOK, Phases
<1>10. CASE NSPAdd
  <2>1. \A v \in Node : UAdd(sigma[v], toAdd[v]) \in 0 .. Mod - 1
    BY DEF UAdd, USub, TypeOK
  <2>2. sigma' \in [Node -> 0 .. Mod - 1] /\ toAdd' \in [Node -> 0 .. Mod - 1]
    BY <1>10, <2>1 DEF NSPAdd, TypeOK
  <2>. QED
    BY <1>10, <2>2 DEF NSPAdd, TypeOK, Phases
<1>11. CASE NSPChanges
  <2>1. flag' \in [Node -> BOOLEAN] /\ spDone' \in [Node -> BOOLEAN]
    BY <1>11 DEF NSPChanges, TypeOK
  <2>. QED
    BY <1>11, <2>1 DEF NSPChanges, TypeOK, Phases
<1>12. CASE DPStart
  BY <1>12 DEF DPStart, TypeOK, Phases, vertexVars
<1>13. ASSUME NEW s \in Node, DPPropagate(s) PROVE TypeOK'
  <2>1. \A t \in Node : DepTerm(t, s) \in Q
    BY ToUIntType DEF DepTerm, TypeOK, Q
  <2>2. \A t \in Node : QAdd(toAddF[t], DepTerm(t, s)) \in Q
    BY <2>1, QAddType DEF TypeOK
  <2>3. toAddF' \in [Node -> Q]
    BY <1>13, <2>2 DEF DPPropagate, TypeOK
  <2>4. \A t \in Node : UAdd(trim2[t], 1) \in 0 .. Mod - 1
    BY DEF UAdd, USub, TypeOK
  <2>5. trim2' \in [Node -> 0 .. Mod - 1]
    BY <1>13, <2>4 DEF DPPropagate, TypeOK
  <2>6. flag' \in [Node -> BOOLEAN] /\ dpDone' \in [Node -> BOOLEAN]
          /\ fire' \subseteq Node
    BY <1>13 DEF DPPropagate, TypeOK
  <2>. QED
    BY <1>13, <2>3, <2>5, <2>6 DEF DPPropagate, TypeOK
<1>14. CASE DPTrim
  <2>1. \A v \in Node : USub(nsucc[v], trim2[v]) \in 0 .. Mod - 1
    BY DEF UAdd, USub, TypeOK
  <2>2. nsucc' \in [Node -> 0 .. Mod - 1] /\ trim' \in [Node -> 0 .. Mod - 1]
    BY <1>14, <2>1 DEF DPTrim, TypeOK
  <2>. QED
    BY <1>14, <2>2 DEF DPTrim, TypeOK, Phases
<1>15. CASE DPAdd
  <2>1. \A v \in Node : QAdd(dep[v], toAddF[v]) \in Q
    BY QAddType DEF TypeOK
  <2>2. dep' \in [Node -> Q] /\ toAddF' \in [Node -> Q]
    BY <1>15, <2>1, ZeroType DEF DPAdd, TypeOK
  <2>. QED
    BY <1>15, <2>2 DEF DPAdd, TypeOK, Phases
<1>16. CASE DPChanges
  <2>1. flag' \in [Node -> BOOLEAN] /\ dpDone' \in [Node -> BOOLEAN]
    BY <1>16 DEF DPChanges, TypeOK
  <2>. QED
    BY <1>16, <2>1 DEF DPChanges, TypeOK, Phases
<1>17. CASE BCAccumulate
  <2>1. \A v \in Node : QAdd(bc[v], dep[v]) \in Q
    BY QAddType DEF TypeOK
  <2>2. bc' \in [Node -> Q] /\ dep' \in [Node -> Q]
    BY <1>17, <2>1, ZeroType DEF BCAccumulate, TypeOK
  <2>3. i' \in Nat /\ phase' \in Phases
    BY <1>17 DEF BCAccumulate, TypeOK, Phases
  <2>. QED
    BY <1>17, <2>2, <2>3 DEF BCAccumulate, TypeOK
<1>18. CASE UNCHANGED vars
  BY <1>18 DEF vars, vertexVars, TypeOK
<1>. QED
  BY <1>1, <1>2, <1>3, <1>4, <1>5, <1>6, <1>7, <1>8, <1>9, <1>10, <1>11,
     <1>12, <1>13, <1>14, <1>15, <1>16, <1>17, <1>18 DEF Next

\* The type invariant holds in every reachable state of the driver.
THEOREM TypeCorrect == Spec => []TypeOK
BY InitTypeOK, NextTypeOK, PTL DEF Spec

-----------------------------------------------------------------------------
(***************************************************************************)
(* The SSSP loop computes BFS distances.  DistIsBFS is not inductive: it   *)
(* says nothing while SSSP runs.  It follows from four facts that are:     *)
(* the source stays at 0; every other reached vertex has an edge to a      *)
(* vertex at least one hop nearer (current_length only goes down, through  *)
(* Galois::min, so the witness of the last lowering stays good); within an *)
(* SSSP superstep in which no Galois::min has lowered anything yet, every  *)
(* edge already run is relaxed; and after SSSP every edge is relaxed.      *)
(***************************************************************************)
Relaxed(e) == dist[e[1]] <= 1 + dist[e[2]]

SrcZero == phase \notin {"sample", "init"} /\ Src \in Node => dist[Src] = 0

Witness ==
  phase \notin {"sample", "init"} =>
    \A v \in Node :
      v # Src /\ dist[v] # Infinity =>
        \E t \in Node : <<v, t>> \in edges /\ dist[t] + 1 <= dist[v]

RoundFix == phase = "sssp" /\ ~work => \A e \in edges \ todo : Relaxed(e)

Settled == phase \in AfterBFS => \A e \in edges : Relaxed(e)

BFSInv == TypeOK /\ SrcZero /\ Witness /\ RoundFix /\ Settled

\* The least element of a set of integers is its Min.
LEMMA MinIsLeast ==
  ASSUME NEW S \in SUBSET Int, NEW m \in S, \A y \in S : m <= y
  PROVE  Min(S) = m
<1>1. \E x \in S : \A y \in S : x <= y
  OBVIOUS
<1>2. Min(S) \in S /\ \A y \in S : Min(S) <= y
  BY <1>1 DEF Min
<1>3. Min(S) \in Int /\ m <= Min(S) /\ Min(S) <= m
  BY <1>2
<1>. QED
  BY <1>3

\* The current source depends only on the loop index and random_sources.
LEMMA SrcUnchanged ==
  ASSUME i' = i, rs' = rs
  PROVE  Src' = Src
BY DEF Src, SourceAt

\* Steps that leave current_length, the graph and the source alone and
\* keep the driver past the BFS keep BFSInv.
LEMMA StableAfterBFS ==
  ASSUME BFSInv, TypeOK',
         dist' = dist, edges' = edges, i' = i, rs' = rs,
         phase \in AfterBFS, phase' \in AfterBFS
  PROVE  BFSInv'
<1>1. Src' = Src
  BY SrcUnchanged
<1>2. phase \notin {"sample", "init"} /\ phase' \notin {"sample", "init"}
      /\ phase # "sssp" /\ phase' # "sssp"
  BY DEF AfterBFS, Phases
<1>. QED
  BY <1>1, <1>2 DEF BFSInv, SrcZero, Witness, RoundFix, Settled, Relaxed

LEMMA BFSInit == Init => BFSInv
<1>. SUFFICES ASSUME Init PROVE BFSInv
  OBVIOUS
<1>1. TypeOK
  BY InitTypeOK
<1>2. phase \in {"sample", "init"}
  BY DEF Init
<1>. QED
  BY <1>1, <1>2 DEF BFSInv, SrcZero, Witness, RoundFix, Settled, AfterBFS, Phases

LEMMA BFSNext == BFSInv /\ [Next]_vars => BFSInv'
<1>. USE ModFacts
<1>. SUFFICES ASSUME BFSInv, [Next]_vars PROVE BFSInv'
  OBVIOUS
<1>0. TypeOK /\ TypeOK'
  BY NextTypeOK DEF BFSInv
<1>1. ASSUME NEW r \in Node, SampleSource(r) PROVE BFSInv'
  BY <1>0, <1>1 DEF SampleSource, BFSInv, SrcZero, Witness, RoundFix, Settled, AfterBFS, Phases
<1>2. CASE SamplingDone
  BY <1>0, <1>2 DEF SamplingDone, BFSInv, SrcZero, Witness, RoundFix, Settled, AfterBFS, Phases
<1>3. CASE InitializeIteration
  <2>1. Src' = Src
    BY <1>3, SrcUnchanged DEF InitializeIteration
  <2>2. SrcZero'
    BY <1>3, <2>1 DEF InitializeIteration, SrcZero
  <2>3. Witness'
    BY <1>3, <2>1 DEF InitializeIteration, Witness
  <2>4. RoundFix' /\ Settled'
    BY <1>3 DEF InitializeIteration, RoundFix, Settled, AfterBFS, Phases
  <2>. QED
    BY <1>0, <2>2, <2>3, <2>4 DEF BFSInv
<1>4. ASSUME NEW e \in edges, SSSPRelax(e[1], e[2]) PROVE BFSInv'
  <2>. DEFINE s == e[1]  t == e[2]
  <2>1. s \in Node /\ t \in Node /\ e = <<s, t>>
    BY <1>0 DEF TypeOK
  <2>2. Src' = Src /\ phase = "sssp" /\ phase' = "sssp" /\ edges' = edges
    BY <1>4, SrcUnchanged DEF SSSPRelax
  <2>3. \A v \in Node : dist'[v] <= dist[v]
    BY <1>0, <1>4, <2>1 DEF SSSPRelax, TypeOK
  <2>4. SrcZero'
    <3>. SUFFICES ASSUME Src \in Node PROVE dist'[Src] = 0
      BY <2>2 DEF SrcZero
    <3>1. dist[Src] = 0
      BY <2>2 DEF BFSInv, SrcZero
    <3>. QED
      BY <1>0, <2>3, <3>1 DEF TypeOK
  <2>5. Witness'
    <3>. SUFFICES ASSUME NEW v \in Node, v # Src, dist'[v] # Infinity
                  PROVE  \E w \in Node : <<v, w>> \in edges /\ dist'[w] + 1 <= dist'[v]
      BY <2>2 DEF Witness
    <3>1. CASE v = s /\ 1 + dist[t] < dist[s]
      <4>1. dist'[v] = 1 + dist[t]
        BY <1>4, <2>1, <3>1, <1>0 DEF SSSPRelax, TypeOK
      <4>2. <<v, t>> \in edges /\ dist'[t] + 1 <= dist'[v]
        BY <2>1, <2>3, <3>1, <4>1, <1>0 DEF TypeOK
      <4>. QED
        BY <2>1, <4>2
    <3>2. CASE ~(v = s /\ 1 + dist[t] < dist[s])
      <4>1. dist'[v] = dist[v]
        BY <1>4, <2>1, <3>2, <1>0 DEF SSSPRelax, TypeOK
      <4>2. PICK w \in Node : <<v, w>> \in edges /\ dist[w] + 1 <= dist[v]
        BY <2>2, <4>1 DEF BFSInv, Witness
      <4>3. dist'[w] + 1 <= dist'[v]
        BY <2>3, <4>1, <4>2, <1>0 DEF TypeOK
      <4>. QED
        BY <4>2, <4>3
    <3>. QED
      BY <3>1, <3>2
  <2>6. RoundFix'
    <3>. SUFFICES ASSUME ~work' PROVE \A f \in edges \ todo' : Relaxed(f)'
      BY <2>2 DEF RoundFix
    <3>1. ~work /\ ~(dist[s] > 1 + dist[t])
      BY <1>4 DEF SSSPRelax
    <3>2. dist' = dist
      BY <1>4, <2>1, <3>1, <1>0 DEF SSSPRelax, TypeOK
    <3>3. \A f \in edges \ todo : Relaxed(f)
      BY <2>2, <3>1 DEF BFSInv, RoundFix
    <3>4. Relaxed(e)
      BY <2>1, <3>1, <1>0 DEF Relaxed, TypeOK
    <3>5. todo' = todo \ {e}
      BY <1>4, <2>1 DEF SSSPRelax
    <3>. QED
      BY <2>2, <3>2, <3>3, <3>4, <3>5 DEF Relaxed
  <2>7. Settled'
    BY <2>2 DEF Settled, AfterBFS, Phases
  <2>. QED
    BY <1>0, <2>4, <2>5, <2>6, <2>7 DEF BFSInv
<1>5. CASE SSSPRound
  <2>1. Src' = Src /\ dist' = dist /\ edges' = edges /\ phase = "sssp" /\ todo = {}
    BY <1>5, SrcUnchanged DEF SSSPRound, vertexVars
  <2>2. SrcZero' /\ Witness'
    BY <1>5, <2>1 DEF SSSPRound, BFSInv, SrcZero, Witness
  <2>3. CASE work
    <3>1. todo' = edges /\ phase' = "sssp"
      BY <1>5, <2>3 DEF SSSPRound
    <3>. QED
      BY <1>0, <2>1, <2>2, <3>1 DEF BFSInv, RoundFix, Settled, AfterBFS, Phases
  <2>4. CASE ~work
    <3>1. phase' = "predsucc" /\ ~work'
      BY <1>5, <2>4 DEF SSSPRound
    <3>2. \A f \in edges : Relaxed(f)
      BY <2>1, <2>4 DEF BFSInv, RoundFix
    <3>. QED
      BY <1>0, <2>1, <2>2, <3>1, <3>2 DEF BFSInv, RoundFix, Settled, AfterBFS, Phases, Relaxed
  <2>. QED
    BY <2>3, <2>4
<1>6. CASE PredAndSucc
  BY <1>0, <1>6, StableAfterBFS DEF PredAndSucc, AfterBFS, Phases
<1>7. CASE NSPStart
  BY <1>0, <1>7, StableAfterBFS DEF NSPStart, vertexVars, AfterBFS, Phases
<1>8. ASSUME NEW e \in edges, NSPPull(e[1], e[2]) PROVE BFSInv'
  BY <1>0, <1>8, StableAfterBFS DEF NSPPull, AfterBFS, Phases
<1>9. CASE NSPTrim
  BY <1>0, <1>9, StableAfterBFS DEF NSPTrim, AfterBFS, Phases
<1>10. CASE NSPAdd
  BY <1>0, <1>10, StableAfterBFS DEF NSPAdd, AfterBFS, Phases
<1>11. CASE NSPChanges
  BY <1>0, <1>11, StableAfterBFS DEF NSPChanges, AfterBFS, Phases
<1>12. CASE DPStart
  BY <1>0, <1>12, StableAfterBFS DEF DPStart, vertexVars, AfterBFS, Phases
<1>13. ASSUME NEW s \in Node, DPPropagate(s) PROVE BFSInv'
  BY <1>0, <1>13, StableAfterBFS DEF DPPropagate, AfterBFS, Phases
<1>14. CASE DPTrim
  BY <1>0, <1>14, StableAfterBFS DEF DPTrim, AfterBFS, Phases
<1>15. CASE DPAdd
  BY <1>0, <1>15, StableAfterBFS DEF DPAdd, AfterBFS, Phases
<1>16. CASE DPChanges
  BY <1>0, <1>16, StableAfterBFS DEF DPChanges, AfterBFS, Phases
<1>17. CASE BCAccumulate
  <2>1. CASE i + 1 < LoopEnd
    BY <1>0, <1>17, <2>1 DEF BCAccumulate, BFSInv, SrcZero, Witness, RoundFix, Settled, AfterBFS, Phases
  <2>2. CASE ~(i + 1 < LoopEnd)
    BY <1>0, <1>17, <2>2, StableAfterBFS DEF BCAccumulate, AfterBFS, Phases
  <2>. QED
    BY <2>1, <2>2
<1>18. CASE UNCHANGED vars
  <2>1. Src' = Src
    BY <1>18, SrcUnchanged DEF vars
  <2>. QED
    BY <1>0, <1>18, <2>1 DEF vars, vertexVars, BFSInv, SrcZero, Witness, RoundFix, Settled, Relaxed
<1>. QED
  BY <1>1, <1>2, <1>3, <1>4, <1>5, <1>6, <1>7, <1>8, <1>9, <1>10, <1>11,
     <1>12, <1>13, <1>14, <1>15, <1>16, <1>17, <1>18 DEF Next

\* BFSInv gives the Bellman equation once SSSP has stopped.
LEMMA BFSInvImpliesDist == BFSInv => DistIsBFS
<1>. SUFFICES ASSUME BFSInv, phase \in AfterBFS, NEW v \in Node
              PROVE  dist[v] = IF v = Src THEN 0
                               ELSE Min({Infinity} \cup {dist[t] + 1 : t \in {t \in Node : <<v, t>> \in edges}})
  BY DEF DistIsBFS
<1>1. CASE v = Src
  BY <1>1 DEF BFSInv, SrcZero, AfterBFS, Phases
<1>2. CASE v # Src
  <2>. DEFINE S == {Infinity} \cup {dist[t] + 1 : t \in {t \in Node : <<v, t>> \in edges}}
  <2>1. TypeOK /\ Infinity \in Nat
    BY ModFacts DEF BFSInv
  <2>2. S \in SUBSET Int
    <3>. SUFFICES ASSUME NEW y \in S PROVE y \in Int
      OBVIOUS
    <3>1. CASE y = Infinity
      BY <2>1, <3>1
    <3>2. CASE y # Infinity
      <4>1. PICK t \in Node : y = dist[t] + 1
        BY <3>2 DEF S
      <4>. QED
        BY <2>1, <4>1 DEF TypeOK
    <3>. QED
      BY <3>1, <3>2
  <2>3. \A y \in S : dist[v] <= y
    <3>. SUFFICES ASSUME NEW y \in S PROVE dist[v] <= y
      OBVIOUS
    <3>1. CASE y = Infinity
      BY <2>1, <3>1 DEF TypeOK
    <3>2. CASE y # Infinity
      <4>1. PICK t \in Node : <<v, t>> \in edges /\ y = dist[t] + 1
        BY <3>2 DEF S
      <4>2. Relaxed(<<v, t>>)
        BY <4>1 DEF BFSInv, Settled
      <4>. QED
        BY <2>1, <4>1, <4>2 DEF Relaxed, TypeOK
    <3>. QED
      BY <3>1, <3>2
  <2>4. dist[v] \in S
    <3>1. CASE dist[v] = Infinity
      BY <3>1
    <3>2. CASE dist[v] # Infinity
      <4>1. PICK w \in Node : <<v, w>> \in edges /\ dist[w] + 1 <= dist[v]
        BY <1>2, <3>2 DEF BFSInv, Witness, AfterBFS, Phases
      <4>2. Relaxed(<<v, w>>)
        BY <4>1 DEF BFSInv, Settled
      <4>3. dist[v] = dist[w] + 1
        BY <2>1, <4>1, <4>2 DEF Relaxed, TypeOK
      <4>. QED
        BY <4>1, <4>3
    <3>. QED
      BY <3>1, <3>2
  <2>. QED
    BY <1>2, <2>2, <2>3, <2>4, MinIsLeast
<1>. QED
  BY <1>1, <1>2

\* Whatever the order in which the threads run the relaxations of SSSP,
\* once its do-while loop has stopped every current_length is the hop
\* distance from the source (the Bellman equation DistIsBFS).
THEOREM DistIsBFSCorrect == Spec => []DistIsBFS
<1>1. BFSInv /\ [][Next]_vars => []BFSInv
  BY BFSNext, PTL
<1>. QED
  BY BFSInit, <1>1, BFSInvImpliesDist, PTL DEF Spec

=============================================================================
