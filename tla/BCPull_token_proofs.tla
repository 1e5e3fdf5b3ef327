------------------------- MODULE BCPull_token_proofs -------------------------
(***************************************************************************)
(* The propogation_flag token of NumShortestPaths and                      *)
(* DependencyPropogation, for every graph and source.                      *)
(*                                                                         *)
(* NumShortestPaths runs in levels: in its round L the token is held by    *)
(* the reached vertices at distance L (and by the leaves of the earlier    *)
(* levels, which keep it); the vertices at distance L+1 pull from them,    *)
(* NSPTrim brings their num_predecessors to 0, and NumShortestPathsChanges *)
(* moves the token one level down.  When no vertex is at distance L+1 the  *)
(* loop stops: every vertex still holding the token is a leaf, and no      *)
(* reached vertex is left with predecessors to take, so num_predecessors   *)
(* is 0 again for the next source.  DependencyPropogation fires exactly    *)
(* the token holders, and gives the token only to vertices whose           *)
(* num_successors is 0.                                                    *)
(***************************************************************************)
EXTENDS BCPull_proofs, WellFoundedInduction

NSPPhases == {"nsp_start", "nsp", "nsp_add", "nsp_changes"}

Reached(v) == dist[v] # Infinity

\* The pulls of round L: the DAG edges whose predecessor is at distance L.
PullSet(L) == {e \in edges : OnDag(e[1], e[2]) /\ dist[e[2]] = L}

\* The predecessors s has already pulled from in round L.
Pulled(s, L) == {t \in Node : <<s, t>> \in PullSet(L) /\ <<s, t>> \notin todo}

\* num_predecessors once the vertices up to distance k have taken all
\* their predecessors.
NpredAt(v, k) == IF dist[v] <= k THEN 0 ELSE Cardinality(DagPreds(v))

\* The state of NumShortestPaths in its round L.
Level(L) ==
  /\ \A v \in Node : nsucc[v] = Cardinality(DagSuccs(v))
  /\ \A v \in Node : flag[v] = (Reached(v) /\ (dist[v] = L \/ (dist[v] < L /\ nsucc[v] = 0)))
  /\ \A v \in Node : spDone[v] => Reached(v) /\ dist[v] <= L
  /\ \A v \in Node : Reached(v) /\ dist[v] <= L => flag[v] \/ spDone[v]
  /\ phase = "nsp_start" =>
       \A v \in Node : trim[v] = 0 /\ npred[v] = NpredAt(v, L)
  /\ phase = "nsp" =>
       /\ todo \subseteq PullSet(L)
       /\ work = (PullSet(L) # {})
       /\ \A v \in Node : trim[v] = Cardinality(Pulled(v, L)) /\ npred[v] = NpredAt(v, L)
  /\ phase \in {"nsp_add", "nsp_changes"} =>
       /\ work = (PullSet(L) # {})
       /\ \A v \in Node : trim[v] = 0 /\ npred[v] = NpredAt(v, L + 1)

\* Outside NumShortestPaths the counters it uses are back at 0.
Idle == phase \notin NSPPhases => \A v \in Node : npred[v] = 0 /\ trim[v] = 0

\* Until PredAndSucc the token is the source's alone.
SrcToken ==
  phase \in {"sssp", "predsucc"} =>
    \A v \in Node : flag[v] = (v = Src) /\ ~spDone[v] /\ nsucc[v] = 0

Levels == phase \in NSPPhases => \E L \in 0 .. Infinity - 1 : Level(L)

\* DependencyPropogation fires the token holders, and they have no
\* successor left.
DPStartLeaf == phase = "dp_start" => \A v \in Node : Fires(v) => nsucc[v] = 0
DPRound ==
  phase = "dp" => \A v \in Node : /\ v \in fire => nsucc[v] = 0
                                  /\ Fires(v) => v \in fire
DPSpent == phase \in {"dp_add", "dp_changes"} => \A v \in Node : ~Fires(v)

TokenInv == Idle /\ SrcToken /\ Levels /\ DPStartLeaf /\ DPRound /\ DPSpent

DPInv == BFSInv /\ TokenInv

-----------------------------------------------------------------------------
\* Sets of vertices are finite and have at most N elements.
LEMMA SubsetCard ==
  ASSUME NEW S \in SUBSET Node
  PROVE  IsFiniteSet(S) /\ Cardinality(S) \in 0 .. N
<1>1. IsFiniteSet(Node) /\ Cardinality(Node) = N
  BY NAssumption, FS_Interval DEF Node
<1>2. IsFiniteSet(S) /\ Cardinality(S) <= N
  BY <1>1, FS_Subset
<1>. QED
  BY <1>2, FS_CardinalityType, NAssumption

LEMMA CardPos ==
  ASSUME NEW S \in SUBSET Node, NEW x \in S
  PROVE  Cardinality(S) > 0
<1>1. IsFiniteSet(S) /\ Cardinality(S) \in 0 .. N
  BY SubsetCard
<1>2. Cardinality(S) # 0
  BY <1>1, FS_EmptySet
<1>. QED
  BY <1>1, <1>2

\* A DAG edge joins two reached vertices one hop apart.
LEMMA OnDagFacts ==
  ASSUME TypeOK, NEW s \in Node, NEW t \in Node, OnDag(s, t)
  PROVE  dist[t] + 1 = dist[s] /\ Reached(s) /\ Reached(t) /\ <<s, t>> \in edges
BY ModFacts DEF OnDag, Reached, TypeOK

\* An unreached vertex is on no DAG edge.
LEMMA UnreachedAlone ==
  ASSUME TypeOK, NEW v \in Node, ~Reached(v)
  PROVE  DagPreds(v) = {} /\ DagSuccs(v) = {}
BY ModFacts DEF DagPreds, DagSuccs, OnDag, Reached, TypeOK

\* After SSSP, the source is the only vertex at distance 0 ...
LEMMA SrcOnlyAtZero ==
  ASSUME BFSInv, phase \in AfterBFS, NEW v \in Node, Reached(v)
  PROVE  v = Src <=> dist[v] = 0
<1>1. CASE v = Src
  BY <1>1 DEF BFSInv, SrcZero, AfterBFS, Phases
<1>2. CASE v # Src
  <2>1. PICK w \in Node : <<v, w>> \in edges /\ dist[w] + 1 <= dist[v]
    BY <1>2 DEF BFSInv, Witness, AfterBFS, Phases, Reached
  <2>. QED
    BY <1>2, <2>1 DEF BFSInv, TypeOK
<1>. QED
  BY <1>1, <1>2

\* ... and every other reached vertex has a predecessor on the DAG.
LEMMA HasDagPred ==
  ASSUME BFSInv, phase \in AfterBFS, NEW v \in Node, v # Src, Reached(v)
  PROVE  \E t \in Node : OnDag(v, t)
<1>1. PICK w \in Node : <<v, w>> \in edges /\ dist[w] + 1 <= dist[v]
  BY DEF BFSInv, Witness, AfterBFS, Phases, Reached
<1>2. Relaxed(<<v, w>>)
  BY <1>1 DEF BFSInv, Settled
<1>3. OnDag(v, w)
  BY <1>1, <1>2 DEF Relaxed, OnDag, Reached, BFSInv, TypeOK
<1>. QED
  BY <1>3

\* The BFS levels have no gap: if no reached vertex is at distance L+1,
\* none is further away than L.  (A least counterexample would have a DAG
\* predecessor one hop nearer, itself a counterexample or at L+1.)
LEMMA NoDeeper ==
  ASSUME BFSInv, phase \in AfterBFS, NEW L \in Nat,
         \A v \in Node : Reached(v) => dist[v] # L + 1
  PROVE  \A v \in Node : Reached(v) => dist[v] <= L
<1>. DEFINE T == {dist[v] : v \in {u \in Node : Reached(u) /\ dist[u] > L + 1}}
<1>0. TypeOK
  BY DEF BFSInv
<1>1. SUFFICES T = {}
  <2>. SUFFICES ASSUME NEW v \in Node, Reached(v), ~(dist[v] <= L) PROVE FALSE
    OBVIOUS
  <2>1. dist[v] > L + 1
    BY <1>0 DEF TypeOK
  <2>2. dist[v] \in T
    BY <2>1 DEF T
  <2>. QED
    BY <1>1, <2>2
<1>. SUFFICES ASSUME T # {} PROVE FALSE
  OBVIOUS
<1>2. T \subseteq Nat
  BY <1>0, ModFacts DEF T, TypeOK
<1>3. PICK d \in T : \A y \in T : ~(<<y, d>> \in OpToRel(<, Nat))
  BY <1>2, NatLessThanWellFounded, WFMin
<1>4. PICK v \in Node : Reached(v) /\ dist[v] > L + 1 /\ dist[v] = d
  BY <1>3 DEF T
<1>5. v # Src
  BY <1>4, SrcOnlyAtZero
<1>6. PICK t \in Node : OnDag(v, t)
  BY <1>4, <1>5, HasDagPred
<1>7. dist[t] + 1 = dist[v] /\ Reached(t)
  BY <1>0, <1>6, OnDagFacts
<1>8. dist[t] # L + 1
  BY <1>7
<1>9. dist[t] \in T
  BY <1>0, <1>4, <1>7, <1>8 DEF T, TypeOK
<1>10. dist[t] \in Nat /\ d \in Nat /\ dist[t] < d
  BY <1>0, <1>4, <1>7, <1>2, <1>9
<1>11. <<dist[t], d>> \in OpToRel(<, Nat)
  BY <1>10, Zenon DEF OpToRel
<1>. QED
  BY <1>3, <1>9, <1>11

-----------------------------------------------------------------------------
LEMMA TokenInit == Init => TokenInv
<1>. SUFFICES ASSUME Init PROVE TokenInv
  OBVIOUS
<1>1. phase \in {"sample", "init"}
  BY DEF Init
<1>. QED
  BY <1>1 DEF Init, TokenInv, Idle, SrcToken, Levels, DPStartLeaf, DPRound, DPSpent, NSPPhases

\* The steps of one NumShortestPaths round, each proved below.
LEMMA PredAndSuccStep ==
  ASSUME DPInv, TypeOK', BFSInv', PredAndSucc
  PROVE  TokenInv'
<1>. USE DEF DPInv
<1>0. TypeOK /\ phase \in AfterBFS
  BY DEF BFSInv, PredAndSucc, AfterBFS, Phases
<1>1. \A v \in Node : DagPreds(v)' = DagPreds(v) /\ DagSuccs(v)' = DagSuccs(v)
  BY DEF PredAndSucc, DagPreds, DagSuccs, OnDag
<1>2. \A v \in Node : npred[v] = 0 /\ trim[v] = 0 /\ nsucc[v] = 0
                     /\ flag[v] = (v = Src) /\ ~spDone[v]
  BY DEF PredAndSucc, TokenInv, Idle, SrcToken, NSPPhases
<1>3. \A v \in Node : /\ npred'[v] = Cardinality(DagPreds(v))
                     /\ nsucc'[v] = Cardinality(DagSuccs(v))
  <2>. SUFFICES ASSUME NEW v \in Node
               PROVE  /\ npred'[v] = Cardinality(DagPreds(v))
                      /\ nsucc'[v] = Cardinality(DagSuccs(v))
    OBVIOUS
  <2>1. Cardinality(DagPreds(v)) \in 0 .. N /\ Cardinality(DagSuccs(v)) \in 0 .. N
    BY SubsetCard DEF DagPreds, DagSuccs
  <2>2. \A c \in 0 .. N : (0 + c) % Mod = c
    BY ModFacts, NAssumption DEF Infinity
  <2>. QED
    BY <1>2, <2>1, <2>2 DEF PredAndSucc, UAdd
<1>4. ASSUME NEW v \in Node, dist[v] = 0 PROVE DagPreds(v) = {}
  BY <1>0, <1>4 DEF DagPreds, OnDag, TypeOK
<1>5. \A v \in Node : (v = Src) = (Reached(v) /\ dist[v] = 0)
  <2>. SUFFICES ASSUME NEW v \in Node PROVE (v = Src) = (Reached(v) /\ dist[v] = 0)
    OBVIOUS
  <2>1. CASE Reached(v)
    BY <1>0, <2>1, SrcOnlyAtZero
  <2>2. CASE ~Reached(v)
    <3>1. v = Src => dist[v] = 0
      BY <1>0 DEF BFSInv, SrcZero, AfterBFS, Phases
    <3>2. 0 # Infinity
      BY ModFacts, NAssumption
    <3>. QED
      BY <2>2, <3>1, <3>2 DEF Reached
  <2>. QED
    BY <2>1, <2>2
<1>6. Level(0)'
  <2>1. \A v \in Node : nsucc'[v] = Cardinality(DagSuccs(v))'
    BY <1>1, <1>3
  <2>2. \A v \in Node : flag'[v] = (Reached(v)' /\ (dist'[v] = 0 \/ (dist'[v] < 0 /\ nsucc'[v] = 0)))
    BY <1>0, <1>2, <1>5 DEF PredAndSucc, Reached, TypeOK
  <2>3. \A v \in Node : ~spDone'[v] /\ (Reached(v)' /\ dist'[v] <= 0 => flag'[v])
    BY <1>0, <1>2, <1>5 DEF PredAndSucc, Reached, TypeOK
  <2>4. \A v \in Node : trim'[v] = 0 /\ npred'[v] = NpredAt(v, 0)'
    <3>. SUFFICES ASSUME NEW v \in Node PROVE trim'[v] = 0 /\ npred'[v] = NpredAt(v, 0)'
      OBVIOUS
    <3>1. trim'[v] = 0
      BY <1>2 DEF PredAndSucc
    <3>2. npred'[v] = NpredAt(v, 0)'
      <4>1. CASE dist[v] = 0
        BY <1>1, <1>3, <1>4, <4>1, FS_EmptySet DEF PredAndSucc, NpredAt
      <4>2. CASE dist[v] # 0
        <5>1. ~(dist[v] <= 0)
          BY <1>0, <4>2 DEF TypeOK
        <5>. QED
          BY <1>1, <1>3, <5>1 DEF PredAndSucc, NpredAt
      <4>. QED
        BY <4>1, <4>2
    <3>. QED
      BY <3>1, <3>2
  <2>. QED
    BY <2>1, <2>2, <2>3, <2>4 DEF PredAndSucc, Level
<1>7. 0 \in 0 .. Infinity - 1
  BY WidthAssumption, NAssumption DEF Infinity
<1>. QED
  BY <1>6, <1>7 DEF PredAndSucc, TokenInv, Idle, SrcToken, Levels, DPStartLeaf,
                    DPRound, DPSpent, NSPPhases

LEMMA NSPStartStep ==
  ASSUME DPInv, TypeOK', BFSInv', NSPStart
  PROVE  TokenInv'
<1>. USE DEF DPInv
<1>0. TypeOK
  BY DEF BFSInv
<1>1. PICK L \in 0 .. Infinity - 1 : Level(L)
  BY DEF NSPStart, TokenInv, Levels, NSPPhases
<1>2. ASSUME NEW s \in Node, NEW t \in Node, OnDag(s, t)
      PROVE  Pulls(s, t) <=> dist[t] = L
  <2>1. dist[t] + 1 = dist[s] /\ Reached(s) /\ Reached(t)
    BY <1>0, <1>2, OnDagFacts
  <2>2. nsucc[t] > 0
    <3>1. s \in DagSuccs(t)
      BY <1>2 DEF DagSuccs
    <3>2. Cardinality(DagSuccs(t)) > 0
      BY <3>1, CardPos DEF DagSuccs
    <3>. QED
      BY <1>1, <3>2 DEF Level
  <2>3. flag[t] <=> dist[t] = L
    BY <1>0, <1>1, <2>1, <2>2 DEF Level, TypeOK
  <2>4. dist[t] = L => npred[s] > 0
    <3>1. t \in DagPreds(s)
      BY <1>2 DEF DagPreds
    <3>2. Cardinality(DagPreds(s)) > 0
      BY <3>1, CardPos DEF DagPreds
    <3>3. dist[t] = L => ~(dist[s] <= L)
      BY <1>0, <2>1 DEF TypeOK
    <3>. QED
      BY <1>1, <3>2, <3>3 DEF NSPStart, Level, NpredAt
  <2>. QED
    BY <2>3, <2>4, <1>2 DEF Pulls
<1>3. todo' = PullSet(L)
  <2>1. \A e \in edges : e = <<e[1], e[2]>> /\ e[1] \in Node /\ e[2] \in Node
    BY <1>0 DEF TypeOK
  <2>. QED
    BY <1>2, <2>1 DEF NSPStart, PullSet, Pulls
<1>6. PullSet(L)' = PullSet(L)
  BY DEF NSPStart, PullSet, OnDag, vertexVars
<1>4. \A v \in Node : Pulled(v, L)' = {}
  BY <1>3, <1>6 DEF Pulled
<1>5. \A v \in Node : DagPreds(v)' = DagPreds(v) /\ DagSuccs(v)' = DagSuccs(v)
                     /\ NpredAt(v, L)' = NpredAt(v, L) /\ Reached(v)' = Reached(v)
  BY DEF NSPStart, DagPreds, DagSuccs, OnDag, NpredAt, Reached, vertexVars
<1>7. Level(L)'
  <2>1. /\ \A v \in Node : nsucc'[v] = Cardinality(DagSuccs(v))'
        /\ \A v \in Node : flag'[v] = (Reached(v)' /\ (dist'[v] = L \/ (dist'[v] < L /\ nsucc'[v] = 0)))
        /\ \A v \in Node : spDone'[v] => Reached(v)' /\ dist'[v] <= L
        /\ \A v \in Node : Reached(v)' /\ dist'[v] <= L => flag'[v] \/ spDone'[v]
    BY <1>1, <1>5 DEF NSPStart, Level, vertexVars
  <2>2. \A v \in Node : trim'[v] = Cardinality(Pulled(v, L)') /\ npred'[v] = NpredAt(v, L)'
    BY <1>1, <1>4, <1>5, FS_EmptySet DEF NSPStart, Level, vertexVars
  <2>3. todo' \subseteq PullSet(L)' /\ work' = (PullSet(L)' # {})
    BY <1>3, <1>6 DEF NSPStart
  <2>. QED
    BY <2>1, <2>2, <2>3 DEF NSPStart, Level
<1>. QED
  BY <1>7 DEF NSPStart, TokenInv, Idle, SrcToken, Levels, DPStartLeaf,
              DPRound, DPSpent, NSPPhases

LEMMA NSPPullStep ==
  ASSUME DPInv, TypeOK', BFSInv', NEW e \in edges, NSPPull(e[1], e[2])
  PROVE  TokenInv'
<1>. USE DEF DPInv
<1>. DEFINE s == e[1]
            t == e[2]
<1>0. TypeOK /\ s \in Node /\ t \in Node /\ e = <<s, t>>
  BY DEF BFSInv, TypeOK
<1>1. PICK L \in 0 .. Infinity - 1 : Level(L)
  BY DEF NSPPull, TokenInv, Levels, NSPPhases
<1>2. PullSet(L)' = PullSet(L) /\ todo' \subseteq PullSet(L) /\ work' = work
  BY <1>1 DEF NSPPull, PullSet, OnDag, Level
<1>3. \A v \in Node \ {s} : Pulled(v, L)' = Pulled(v, L)
  BY <1>0, <1>2 DEF NSPPull, Pulled
<1>4. Pulled(s, L)' = Pulled(s, L) \cup {t} /\ t \notin Pulled(s, L)
  BY <1>0, <1>1, <1>2 DEF NSPPull, Pulled, Level
<1>5. Cardinality(Pulled(s, L)') = Cardinality(Pulled(s, L)) + 1
  <2>1. IsFiniteSet(Pulled(s, L))
    BY SubsetCard DEF Pulled
  <2>. QED
    BY <1>4, <2>1, FS_AddElement
<1>6. trim'[s] = Cardinality(Pulled(s, L)')
  <2>1. Cardinality(Pulled(s, L)') \in 0 .. N
    BY SubsetCard DEF Pulled
  <2>2. trim[s] = Cardinality(Pulled(s, L))
    BY <1>0, <1>1 DEF NSPPull, Level
  <2>3. N < Mod
    BY ModFacts, NAssumption DEF Infinity
  <2>4. trim'[s] = (trim[s] + 1) % Mod
    BY <1>0 DEF NSPPull, UAdd, TypeOK, s
  <2>5. Cardinality(Pulled(s, L)) \in 0 .. N
    <3>1. Pulled(s, L) \in SUBSET Node
      BY DEF Pulled
    <3>. QED
      BY <3>1, SubsetCard
  <2>6. \A c \in 0 .. N : c + 1 <= N => (c + 1) % Mod = c + 1
    BY <2>3, ModFacts, NAssumption
  <2>7. trim'[s] = Cardinality(Pulled(s, L)) + 1
    BY <1>5, <2>1, <2>2, <2>4, <2>5, <2>6
  <2>. QED
    BY <1>5, <2>7
<1>7. \A v \in Node : DagPreds(v)' = DagPreds(v) /\ DagSuccs(v)' = DagSuccs(v)
                     /\ NpredAt(v, L)' = NpredAt(v, L) /\ Reached(v)' = Reached(v)
  BY DEF NSPPull, DagPreds, DagSuccs, OnDag, NpredAt, Reached
<1>8. Level(L)'
  <2>1. /\ \A v \in Node : nsucc'[v] = Cardinality(DagSuccs(v))'
        /\ \A v \in Node : flag'[v] = (Reached(v)' /\ (dist'[v] = L \/ (dist'[v] < L /\ nsucc'[v] = 0)))
        /\ \A v \in Node : spDone'[v] => Reached(v)' /\ dist'[v] <= L
        /\ \A v \in Node : Reached(v)' /\ dist'[v] <= L => flag'[v] \/ spDone'[v]
    BY <1>1, <1>7 DEF NSPPull, Level
  <2>2. \A v \in Node : trim'[v] = Cardinality(Pulled(v, L)') /\ npred'[v] = NpredAt(v, L)'
    <3>. SUFFICES ASSUME NEW v \in Node
                  PROVE  trim'[v] = Cardinality(Pulled(v, L)') /\ npred'[v] = NpredAt(v, L)'
      OBVIOUS
    <3>1. npred'[v] = NpredAt(v, L)'
      BY <1>1, <1>7 DEF NSPPull, Level
    <3>2. CASE v = s
      BY <1>6, <3>1, <3>2
    <3>3. CASE v # s
      BY <1>0, <1>1, <1>3, <3>1, <3>3 DEF NSPPull, Level, TypeOK
    <3>. QED
      BY <3>2, <3>3
  <2>3. todo' \subseteq PullSet(L)' /\ work' = (PullSet(L)' # {})
    BY <1>1, <1>2 DEF NSPPull, Level
  <2>. QED
    BY <2>1, <2>2, <2>3 DEF NSPPull, Level
<1>. QED
  BY <1>1, <1>8 DEF NSPPull, TokenInv, Idle, SrcToken, Levels, DPStartLeaf,
                    DPRound, DPSpent, NSPPhases

LEMMA NSPTrimStep ==
  ASSUME DPInv, TypeOK', BFSInv', NSPTrim
  PROVE  TokenInv'
<1>. USE DEF DPInv
<1>0. TypeOK
  BY DEF BFSInv
<1>1. PICK L \in 0 .. Infinity - 1 : Level(L)
  BY DEF NSPTrim, TokenInv, Levels, NSPPhases
<1>2. \A v \in Node : trim[v] = Cardinality(Pulled(v, L)) /\ npred[v] = NpredAt(v, L)
  BY <1>1 DEF NSPTrim, Level
<1>3. ASSUME NEW v \in Node, dist[v] # L + 1 PROVE Pulled(v, L) = {}
  <2>1. SUFFICES ASSUME NEW t \in Pulled(v, L) PROVE FALSE
    OBVIOUS
  <2>2. OnDag(v, t) /\ dist[t] = L /\ t \in Node
    BY DEF Pulled, PullSet
  <2>3. dist[t] + 1 = dist[v]
    BY <1>0, <2>2, OnDagFacts
  <2>. QED
    BY <1>3, <2>2, <2>3
<1>4. ASSUME NEW v \in Node, dist[v] = L + 1 PROVE Pulled(v, L) = DagPreds(v)
  <2>1. ASSUME NEW t \in DagPreds(v) PROVE t \in Pulled(v, L)
    <3>1. OnDag(v, t) /\ t \in Node
      BY <2>1 DEF DagPreds
    <3>2. dist[t] + 1 = dist[v] /\ <<v, t>> \in edges
      BY <1>0, <3>1, OnDagFacts
    <3>3. dist[t] = L
      BY <1>0, <1>4, <3>2 DEF TypeOK
    <3>. QED
      BY <3>1, <3>2, <3>3 DEF NSPTrim, Pulled, PullSet
  <2>. QED
    BY <2>1 DEF Pulled, PullSet, DagPreds
<1>5. \A v \in Node : trim'[v] = 0 /\ npred'[v] = NpredAt(v, L + 1)
  <2>. SUFFICES ASSUME NEW v \in Node PROVE trim'[v] = 0 /\ npred'[v] = NpredAt(v, L + 1)
    OBVIOUS
  <2>1. trim'[v] = 0
    BY <1>0 DEF NSPTrim, TypeOK
  <2>2. CASE dist[v] = L + 1
    <3>1. trim[v] = Cardinality(DagPreds(v)) /\ npred[v] = Cardinality(DagPreds(v))
      BY <1>2, <1>4, <2>2 DEF NpredAt
    <3>2. NpredAt(v, L + 1) = 0
      BY <2>2 DEF NpredAt
    <3>3. npred'[v] = IF trim[v] > 0 THEN USub(npred[v], trim[v]) ELSE npred[v]
      BY DEF NSPTrim
    <3>4. Cardinality(DagPreds(v)) \in 0 .. N
      BY SubsetCard DEF DagPreds
    <3>5. (0 - 0) % Mod = 0 /\ \A c \in 0 .. N : (c - c) % Mod = 0
      BY ModFacts, NAssumption
    <3>. QED
      BY <2>1, <3>1, <3>2, <3>3, <3>4, <3>5 DEF USub
  <2>3. CASE dist[v] # L + 1
    <3>1. trim[v] = 0
      BY <1>2, <1>3, <2>3, FS_EmptySet
    <3>2. npred'[v] = npred[v]
      BY <3>1 DEF NSPTrim
    <3>3. NpredAt(v, L) = NpredAt(v, L + 1)
      BY <1>0, <2>3 DEF NpredAt, TypeOK
    <3>. QED
      BY <1>2, <2>1, <3>2, <3>3
  <2>. QED
    BY <2>2, <2>3
<1>6. \A v \in Node : DagPreds(v)' = DagPreds(v) /\ DagSuccs(v)' = DagSuccs(v)
                     /\ NpredAt(v, L + 1)' = NpredAt(v, L + 1) /\ Reached(v)' = Reached(v)
  BY DEF NSPTrim, DagPreds, DagSuccs, OnDag, NpredAt, Reached
<1>7. PullSet(L)' = PullSet(L)
  BY DEF NSPTrim, PullSet, OnDag
<1>8. Level(L)'
  <2>1. /\ \A v \in Node : nsucc'[v] = Cardinality(DagSuccs(v))'
        /\ \A v \in Node : flag'[v] = (Reached(v)' /\ (dist'[v] = L \/ (dist'[v] < L /\ nsucc'[v] = 0)))
        /\ \A v \in Node : spDone'[v] => Reached(v)' /\ dist'[v] <= L
        /\ \A v \in Node : Reached(v)' /\ dist'[v] <= L => flag'[v] \/ spDone'[v]
    BY <1>1, <1>6 DEF NSPTrim, Level
  <2>2. \A v \in Node : trim'[v] = 0 /\ npred'[v] = NpredAt(v, L + 1)'
    BY <1>5, <1>6
  <2>3. work' = (PullSet(L)' # {})
    BY <1>1, <1>7 DEF NSPTrim, Level
  <2>. QED
    BY <2>1, <2>2, <2>3 DEF NSPTrim, Level
<1>. QED
  BY <1>1, <1>8 DEF NSPTrim, TokenInv, Idle, SrcToken, Levels, DPStartLeaf,
                    DPRound, DPSpent, NSPPhases

\* NumShortestPathsChanges on one vertex at the end of round L: the token
\* moves from the finished level-L vertices that have successors to the
\* vertices of level L + 1, whose predecessors have all been pulled.
LEMMA ChangesVertex ==
  ASSUME DPInv, NSPChanges, NEW L \in 0 .. Infinity - 1, Level(L), NEW v \in Node
  PROVE  /\ flag'[v] = (Reached(v) /\ (dist[v] = L + 1 \/ (dist[v] < L + 1 /\ nsucc[v] = 0)))
         /\ spDone'[v] => Reached(v) /\ dist[v] <= L + 1
         /\ Reached(v) /\ dist[v] <= L + 1 => flag'[v] \/ spDone'[v]
<1>. USE DEF DPInv
<1>0. TypeOK /\ phase \in AfterBFS /\ L \in Nat
  <2>1. TypeOK
    BY DEF BFSInv
  <2>2. phase \in AfterBFS
    BY DEF NSPChanges, AfterBFS, Phases
  <2>. QED
    BY <2>1, <2>2
<1>1. /\ npred[v] = NpredAt(v, L + 1)
      /\ flag[v] = (Reached(v) /\ (dist[v] = L \/ (dist[v] < L /\ nsucc[v] = 0)))
      /\ spDone[v] => Reached(v) /\ dist[v] <= L
      /\ Reached(v) /\ dist[v] <= L => flag[v] \/ spDone[v]
  BY DEF NSPChanges, Level
<1>2. /\ flag'[v] = IF SpReleases(v) THEN FALSE ELSE IF SpReady(v) THEN TRUE ELSE flag[v]
      /\ spDone'[v] = (spDone[v] \/ SpReleases(v) \/ SpReady(v))
  BY DEF NSPChanges
<1>3. CASE ~Reached(v)
  BY <1>1, <1>2, <1>3 DEF SpReleases, SpReady, Reached
<1>4. CASE Reached(v) /\ dist[v] <= L
  <2>1. npred[v] = 0 /\ dist[v] < L + 1 /\ dist[v] # L + 1 /\ dist[v] <= L + 1
    BY <1>0, <1>1, <1>4 DEF NpredAt, TypeOK
  <2>2. CASE flag[v] /\ nsucc[v] # 0
    <3>1. SpReleases(v)
      BY <1>4, <2>1, <2>2 DEF SpReleases, Reached
    <3>. QED
      BY <1>2, <1>4, <2>1, <2>2, <3>1
  <2>3. CASE flag[v] /\ nsucc[v] = 0
    <3>1. ~SpReleases(v) /\ ~SpReady(v)
      BY <2>3 DEF SpReleases, SpReady
    <3>. QED
      BY <1>1, <1>2, <1>4, <2>1, <2>3, <3>1
  <2>4. CASE ~flag[v]
    <3>1. spDone[v] /\ ~SpReleases(v) /\ ~SpReady(v)
      BY <1>1, <1>4, <2>4 DEF SpReleases, SpReady
    <3>2. dist[v] # L /\ ~(dist[v] < L /\ nsucc[v] = 0)
      BY <1>1, <1>4, <2>4
    <3>3. ~(dist[v] < L + 1 /\ nsucc[v] = 0)
      BY <1>0, <1>4, <3>2 DEF TypeOK
    <3>4. flag[v] = FALSE
      BY <1>0, <2>4 DEF TypeOK
    <3>5. flag'[v] = FALSE /\ spDone'[v]
      BY <1>2, <3>1, <3>4, Zenon
    <3>. QED
      BY <1>4, <2>1, <3>3, <3>5, Zenon
  <2>. QED
    BY <2>2, <2>3, <2>4
<1>5. CASE Reached(v) /\ dist[v] = L + 1
  <2>1. npred[v] = 0
    BY <1>0, <1>1, <1>5 DEF NpredAt, TypeOK
  <2>2. ~flag[v] /\ ~spDone[v]
    BY <1>0, <1>1, <1>5 DEF TypeOK
  <2>3. SpReady(v) /\ ~SpReleases(v)
    BY <1>5, <2>1, <2>2 DEF SpReleases, SpReady, Reached
  <2>4. flag'[v] = TRUE /\ spDone'[v]
    BY <1>2, <2>3, Zenon
  <2>5. dist[v] <= L + 1
    BY <1>0, <1>5 DEF TypeOK
  <2>. QED
    BY <1>5, <2>4, <2>5, Zenon
<1>6. CASE Reached(v) /\ dist[v] > L + 1
  <2>1. v # Src
    BY <1>0, <1>6, SrcOnlyAtZero DEF TypeOK
  <2>2. PICK t \in Node : OnDag(v, t)
    BY <1>0, <1>6, <2>1, HasDagPred
  <2>3. Cardinality(DagPreds(v)) > 0
    BY <2>2, CardPos DEF DagPreds
  <2>4. npred[v] # 0
    BY <1>0, <1>1, <1>6, <2>3 DEF NpredAt, TypeOK
  <2>5. ~flag[v] /\ ~spDone[v]
    BY <1>0, <1>1, <1>6 DEF TypeOK
  <2>6. ~SpReady(v) /\ ~SpReleases(v)
    BY <2>4 DEF SpReleases, SpReady
  <2>7. ~(dist[v] = L + 1 \/ dist[v] < L + 1) /\ ~(dist[v] <= L + 1)
    BY <1>0, <1>6 DEF TypeOK
  <2>8. flag[v] = FALSE
    BY <1>0, <2>5 DEF TypeOK
  <2>9. flag'[v] = FALSE /\ ~spDone'[v]
    BY <1>2, <2>5, <2>6, <2>8, Zenon
  <2>. QED
    BY <2>7, <2>9, Zenon
<1>7. ~Reached(v) \/ (Reached(v) /\ dist[v] <= L) \/ (Reached(v) /\ dist[v] = L + 1)
      \/ (Reached(v) /\ dist[v] > L + 1)
  BY <1>0 DEF TypeOK
<1>. QED
  BY <1>3, <1>4, <1>5, <1>6, <1>7, Zenon

LEMMA NSPChangesStep ==
  ASSUME DPInv, TypeOK', BFSInv', NSPChanges
  PROVE  TokenInv'
<1>. USE DEF DPInv
<1>0. TypeOK /\ phase \in AfterBFS
  BY DEF BFSInv, NSPChanges, AfterBFS, Phases
<1>1. PICK L \in 0 .. Infinity - 1 : Level(L)
  BY DEF NSPChanges, TokenInv, Levels, NSPPhases
<1>2. /\ \A v \in Node : npred[v] = NpredAt(v, L + 1) /\ trim[v] = 0
      /\ work = (PullSet(L) # {})
  BY <1>1 DEF NSPChanges, Level
<1>3. \A v \in Node : /\ DagPreds(v)' = DagPreds(v) /\ DagSuccs(v)' = DagSuccs(v)
                     /\ NpredAt(v, L + 1)' = NpredAt(v, L + 1) /\ Reached(v)' = Reached(v)
                     /\ dist'[v] = dist[v] /\ nsucc'[v] = nsucc[v]
                     /\ npred'[v] = npred[v] /\ trim'[v] = trim[v]
  BY DEF NSPChanges, DagPreds, DagSuccs, OnDag, NpredAt, Reached
<1>4. CASE work
  <2>1. L + 1 \in 0 .. Infinity - 1
    <3>1. PICK e \in PullSet(L) : TRUE
      BY <1>2, <1>4
    <3>2. e = <<e[1], e[2]>> /\ e[1] \in Node /\ e[2] \in Node
      BY <1>0 DEF PullSet, TypeOK
    <3>3. dist[e[2]] + 1 = dist[e[1]] /\ Reached(e[1]) /\ dist[e[2]] = L
      BY <1>0, <3>2, OnDagFacts DEF PullSet
    <3>. QED
      BY <1>0, <3>2, <3>3, ModFacts DEF Reached, TypeOK
  <2>2. Level(L + 1)'
    <3>3. \A v \in Node : nsucc'[v] = Cardinality(DagSuccs(v))'
      BY <1>1, <1>3 DEF Level
    <3>4. \A v \in Node :
            /\ flag'[v] = (Reached(v)' /\ (dist'[v] = L + 1 \/ (dist'[v] < L + 1 /\ nsucc'[v] = 0)))
            /\ spDone'[v] => Reached(v)' /\ dist'[v] <= L + 1
            /\ Reached(v)' /\ dist'[v] <= L + 1 => flag'[v] \/ spDone'[v]
      BY <1>1, <1>3, ChangesVertex
    <3>5. \A v \in Node : trim'[v] = 0 /\ npred'[v] = NpredAt(v, L + 1)'
      BY <1>2, <1>3
    <3>. QED
      BY <1>4, <3>3, <3>4, <3>5 DEF NSPChanges, Level
  <2>. QED
    BY <1>4, <2>1, <2>2 DEF NSPChanges, TokenInv, Idle, SrcToken, Levels, DPStartLeaf,
                           DPRound, DPSpent, NSPPhases
<1>5. CASE ~work
  <2>1. \A v \in Node : Reached(v) => dist[v] # L + 1
    <3>. SUFFICES ASSUME NEW v \in Node, Reached(v), dist[v] = L + 1 PROVE FALSE
      OBVIOUS
    <3>1. v # Src
      BY <1>0, SrcOnlyAtZero DEF TypeOK
    <3>2. PICK t \in Node : OnDag(v, t)
      BY <1>0, <3>1, HasDagPred
    <3>3. dist[t] + 1 = dist[v] /\ <<v, t>> \in edges
      BY <1>0, <3>2, OnDagFacts
    <3>4. <<v, t>> \in PullSet(L)
      BY <1>0, <3>2, <3>3 DEF PullSet, TypeOK
    <3>. QED
      BY <1>2, <1>5, <3>4
  <2>2. \A v \in Node : Reached(v) => dist[v] <= L
    BY <1>0, <2>1, NoDeeper
  <2>3. \A v \in Node : npred'[v] = 0 /\ trim'[v] = 0
    <3>. SUFFICES ASSUME NEW v \in Node PROVE npred'[v] = 0 /\ trim'[v] = 0
      OBVIOUS
    <3>1. CASE Reached(v)
      BY <1>0, <1>2, <1>3, <2>2, <3>1 DEF NpredAt, TypeOK
    <3>2. CASE ~Reached(v)
      BY <1>0, <1>2, <1>3, <3>2, UnreachedAlone, FS_EmptySet DEF NpredAt
    <3>. QED
      BY <3>1, <3>2
  <2>4. \A v \in Node : Fires(v)' => nsucc'[v] = 0
    <3>. SUFFICES ASSUME NEW v \in Node, Fires(v)' PROVE nsucc'[v] = 0
      OBVIOUS
    <3>1. Reached(v) /\ flag'[v]
      BY <1>3 DEF Fires, Reached
    <3>2. dist[v] # L + 1
      BY <2>1, <3>1
    <3>. QED
      BY <1>1, <1>3, <3>1, <3>2, ChangesVertex
  <2>. QED
    BY <1>5, <2>3, <2>4 DEF NSPChanges, TokenInv, Idle, SrcToken, Levels, DPStartLeaf,
                           DPRound, DPSpent, NSPPhases
<1>. QED
  BY <1>4, <1>5

LEMMA TokenNext == DPInv /\ [Next]_vars => DPInv'
<1>. SUFFICES ASSUME DPInv, [Next]_vars PROVE DPInv'
  OBVIOUS
<1>0. TypeOK /\ TypeOK' /\ BFSInv'
  BY NextTypeOK, BFSNext DEF DPInv, BFSInv
<1>. SUFFICES TokenInv'
  BY <1>0 DEF DPInv
<1>1. ASSUME NEW r \in Node, SampleSource(r) PROVE TokenInv'
  BY <1>1 DEF SampleSource, DPInv, TokenInv, Idle, SrcToken, Levels, DPStartLeaf,
             DPRound, DPSpent, NSPPhases, vertexVars
<1>2. CASE SamplingDone
  BY <1>2 DEF SamplingDone, DPInv, TokenInv, Idle, SrcToken, Levels, DPStartLeaf,
             DPRound, DPSpent, NSPPhases, vertexVars
<1>3. CASE InitializeIteration
  <2>1. Src' = Src
    BY <1>3, SrcUnchanged DEF InitializeIteration
  <2>. QED
    BY <1>3, <2>1 DEF InitializeIteration, DPInv, TokenInv, Idle, SrcToken, Levels,
                      DPStartLeaf, DPRound, DPSpent, NSPPhases
<1>4. ASSUME NEW e \in edges, SSSPRelax(e[1], e[2]) PROVE TokenInv'
  <2>1. Src' = Src
    BY <1>4, SrcUnchanged DEF SSSPRelax
  <2>. QED
    BY <1>4, <2>1 DEF SSSPRelax, DPInv, TokenInv, Idle, SrcToken, Levels,
                      DPStartLeaf, DPRound, DPSpent, NSPPhases
<1>5. CASE SSSPRound
  <2>1. Src' = Src
    BY <1>5, SrcUnchanged DEF SSSPRound
  <2>. QED
    BY <1>5, <2>1 DEF SSSPRound, DPInv, TokenInv, Idle, SrcToken, Levels,
                      DPStartLeaf, DPRound, DPSpent, NSPPhases, vertexVars
<1>6. CASE PredAndSucc
  BY <1>0, <1>6, PredAndSuccStep
<1>7. CASE NSPStart
  BY <1>0, <1>7, NSPStartStep
<1>8. ASSUME NEW e \in edges, NSPPull(e[1], e[2]) PROVE TokenInv'
  BY <1>0, <1>8, NSPPullStep
<1>9. CASE NSPTrim
  BY <1>0, <1>9, NSPTrimStep
<1>10. CASE NSPAdd
  <2>1. PICK L \in 0 .. Infinity - 1 : Level(L)
    BY <1>10 DEF NSPAdd, DPInv, TokenInv, Levels, NSPPhases
  <2>2. /\ \A v \in Node : DagPreds(v)' = DagPreds(v) /\ DagSuccs(v)' = DagSuccs(v)
        /\ PullSet(L)' = PullSet(L)
    BY <1>10 DEF NSPAdd, PullSet, DagPreds, DagSuccs, OnDag
  <2>3. \A v \in Node : NpredAt(v, L)' = NpredAt(v, L) /\ NpredAt(v, L + 1)' = NpredAt(v, L + 1)
                       /\ Pulled(v, L)' = Pulled(v, L) /\ Reached(v)' = Reached(v)
    BY <1>10, <2>2 DEF NSPAdd, NpredAt, Pulled, Reached
  <2>4. Level(L)'
    BY <1>10, <2>1, <2>2, <2>3 DEF NSPAdd, Level
  <2>. QED
    BY <1>10, <2>4 DEF NSPAdd, TokenInv, Idle, SrcToken, Levels, DPStartLeaf,
                       DPRound, DPSpent, NSPPhases
<1>11. CASE NSPChanges
  BY <1>0, <1>11, NSPChangesStep
<1>12. CASE DPStart
  <2>1. \A v \in Node : Fires(v)' = Fires(v)
    BY <1>12 DEF DPStart, vertexVars, Fires, HasEdges
  <2>. QED
    BY <1>12, <2>1 DEF DPStart, vertexVars, DPInv, TokenInv, Idle, SrcToken, Levels,
                       DPStartLeaf, DPRound, DPSpent, NSPPhases
<1>13. ASSUME NEW s \in Node, DPPropagate(s) PROVE TokenInv'
  <2>1. \A v \in Node : Fires(v)' => v # s /\ Fires(v)
    BY <1>0, <1>13 DEF DPPropagate, Fires, HasEdges, TypeOK
  <2>. QED
    BY <1>13, <2>1 DEF DPPropagate, DPInv, TokenInv, Idle, SrcToken, Levels,
                       DPStartLeaf, DPRound, DPSpent, NSPPhases
<1>14. CASE DPTrim
  <2>1. \A v \in Node : Fires(v)' = Fires(v)
    BY <1>14 DEF DPTrim, Fires, HasEdges
  <2>2. \A v \in Node : npred'[v] = 0 /\ trim'[v] = 0
    BY <1>14 DEF DPTrim, DPInv, TokenInv, Idle, NSPPhases
  <2>. QED
    BY <1>14, <2>1, <2>2 DEF DPTrim, DPInv, TokenInv, Idle, SrcToken, Levels,
                       DPStartLeaf, DPRound, DPSpent, NSPPhases
<1>15. CASE DPAdd
  <2>1. \A v \in Node : Fires(v)' = Fires(v)
    BY <1>15 DEF DPAdd, Fires, HasEdges
  <2>. QED
    BY <1>15, <2>1 DEF DPAdd, DPInv, TokenInv, Idle, SrcToken, Levels,
                       DPStartLeaf, DPRound, DPSpent, NSPPhases
<1>16. CASE DPChanges
  <2>1. \A v \in Node : Fires(v)' => nsucc[v] = 0
    <3>. SUFFICES ASSUME NEW v \in Node, Fires(v)' PROVE nsucc[v] = 0
      OBVIOUS
    <3>1. ~Fires(v)
      BY <1>16 DEF DPChanges, DPInv, TokenInv, DPSpent
    <3>2. DpReady(v)
      BY <1>0, <1>16, <3>1 DEF DPChanges, Fires, HasEdges, TypeOK
    <3>. QED
      BY <3>2 DEF DpReady
  <2>. QED
    BY <1>16, <2>1 DEF DPChanges, DPInv, TokenInv, Idle, SrcToken, Levels,
                       DPStartLeaf, DPRound, DPSpent, NSPPhases
<1>17. CASE BCAccumulate
  BY <1>17 DEF BCAccumulate, DPInv, TokenInv, Idle, SrcToken, Levels,
               DPStartLeaf, DPRound, DPSpent, NSPPhases
<1>18. CASE UNCHANGED vars
  <2>1. Src' = Src
    BY <1>18, SrcUnchanged DEF vars
  <2>2. Levels'
    <3>1. CASE phase \in NSPPhases
      <4>1. PICK L \in 0 .. Infinity - 1 : Level(L)
        BY <3>1 DEF DPInv, TokenInv, Levels
      <4>2. /\ \A v \in Node : DagPreds(v)' = DagPreds(v) /\ DagSuccs(v)' = DagSuccs(v)
            /\ PullSet(L)' = PullSet(L)
        BY <1>18 DEF vars, vertexVars, PullSet, DagPreds, DagSuccs, OnDag
      <4>3. \A v \in Node : /\ NpredAt(v, L)' = NpredAt(v, L)
                           /\ NpredAt(v, L + 1)' = NpredAt(v, L + 1)
                           /\ Pulled(v, L)' = Pulled(v, L) /\ Reached(v)' = Reached(v)
        BY <1>18, <4>2 DEF vars, vertexVars, NpredAt, Pulled, Reached
      <4>4. Level(L)'
        BY <1>18, <4>1, <4>2, <4>3 DEF vars, vertexVars, Level
      <4>. QED
        BY <1>18, <4>4 DEF vars, Levels
    <3>2. CASE phase \notin NSPPhases
      BY <1>18, <3>2 DEF vars, Levels
    <3>. QED
      BY <3>1, <3>2
  <2>3. \A v \in Node : Fires(v)' = Fires(v)
    BY <1>18 DEF vars, vertexVars, Fires, HasEdges
  <2>. QED
    BY <1>18, <2>1, <2>2, <2>3 DEF vars, vertexVars, DPInv, TokenInv, Idle, SrcToken,
                                   DPStartLeaf, DPRound, DPSpent
<1>. QED
  BY <1>1, <1>2, <1>3, <1>4, <1>5, <1>6, <1>7, <1>8, <1>9, <1>10, <1>11,
     <1>12, <1>13, <1>14, <1>15, <1>16, <1>17, <1>18 DEF Next

LEMMA DPInvImpliesLeaf == DPInv => DPLeafAssert
BY DEF DPInv, TokenInv, DPRound, DPLeafAssert, BFSInv, TypeOK

\* The assertion of DependencyPropogation (gen.cpp:845): every vertex whose
\* operator runs in a DependencyPropogation superstep holds the token and has
\* no DAG successor left, i.e. num_successors has dropped to 0, in every run,
\* on every graph and for every source.
THEOREM DPLeafAssertCorrect == Spec => []DPLeafAssert
<1>1. Init => DPInv
  BY TokenInit, BFSInit DEF DPInv
<1>2. DPInv /\ [][Next]_vars => []DPInv
  BY TokenNext, PTL
<1>. QED
  BY <1>1, <1>2, DPInvImpliesLeaf, PTL DEF Spec

=============================================================================
