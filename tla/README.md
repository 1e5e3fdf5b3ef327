# Verification of the pull-style betweenness-centrality engine

This directory holds TLA+ models of the Galois program in
`src/dist_apps/experimental/apps/cgo/bc_pull/gen.cpp`. It also has TLC
configurations that model-check the models on small graphs, and TLAPS proofs
that hold for every value of the constants.

## The system

There are three source files.

| file | what it is | modelled |
|---|---|---|
| `gen.cpp` (1258 lines) | Distributed BSP betweenness centrality (Brandes), pull style | yes, single host |
| `libruntime/src/Support.cpp` | `StatManager`: the runtime's statistics tables | yes, calls one at a time |
| `exp/apps/pagerank/PageRankAlamere.cpp` | Pull PageRank with an AND-reduced convergence flag | no: `PNode` comes from `PageRankMain.h`, which is not in the repository |

### How `gen.cpp` works

The parts of `gen.cpp` and the way they interact:

- **Loading.** `main` loads the graph transposed (`constructGraph<NodeData, void, false>`). A CSR edge `<<s, t>>` is one that `s` *pulls from*: `t -> s` in the input.
- **Source sampling.** With `--numOfSources k`, `main` fills `random_sources` with `--srcNodeId` and then with draws from a seeded LCG until it holds `k` ids (lines 1129-1135).
- **`BC::go`.** This loops over the sources (lines 891-985). For each source it runs:
  1. `InitializeIteration`. It sets `current_length`, `num_shortest_paths`, `propogation_flag`, `num_successors` and the two done-flags.
  2. `SSSP`. A BFS as a do-while over supersteps. Each vertex relaxes along its edges with the atomic `Galois::min`, and a `DGAccumulator` counts the improvements.
  3. `PredAndSucc`. It counts DAG predecessors and successors.
  4. `NumShortestPaths`. Each superstep does the following:
     - A vertex with predecessors left pulls `num_shortest_paths` into `trim`/`to_add`, from the predecessors that hold the `propogation_flag` token.
     - `NSPTrim` subtracts `trim` from `num_predecessors`.
     - `NSPAdd` adds `to_add` to `num_shortest_paths`.
     - `NumShortestPathsChanges` hands the token on: settled vertices give it up, and newly settled ones take it.
  5. `DependencyPropogation`. Each superstep does the following:
     - A token holder pushes `sigma(t)/sigma(s)*(1+dep)` into `to_add_float`, and 1 into `trim2`, of each DAG predecessor `t`.
     - `DPTrim` subtracts `trim2` from `num_successors`.
     - `DPAdd` adds `to_add_float` to `dependency`.
     - `DependencyPropChanges` gives the token to vertices with no successor left.
  6. The `BC` operator. It adds `dependency` to `betweeness_centrality`.
- **Several hosts.** Between the operators, `sync` reduces mirror copies into masters and broadcasts them back.
- **After every run.** `Sanity` computes max/min/sum, and `InitializeGraph` resets the graph for the next run (`numRuns`).

## Modules

| module | what it is |
|---|---|
| `BCPull.tla` | The engine on one host, for one run. |
| `MC_BCPull.tla` | The instances for TLC. It defines the graph sets: every graph on `N` vertices, the scenario graphs of the spec, and the two graphs on which the findings show. |
| `BCPull_proofs.tla` | The TLAPS proofs about `BCPull`: typing and the BFS distances. |
| `BellmanFord.tla` | The abstract specification of the SSSP loop: asynchronous Bellman-Ford relaxation, with no supersteps and no work accumulator. |
| `BCPull_bf_proofs.tla` | The TLAPS proof that `BCPull` implements `BellmanFord`. |
| `BCPull_token_proofs.tla` | The TLAPS proof of `DPLeafAssert`, on top of `BCPull_proofs`: the token invariant of NumShortestPaths and DependencyPropogation. |
| `Sanity.tla`, `MC_Sanity.tla` | `Sanity::go` and `Sanity::operator()` of `gen.cpp`, with the threads of its `do_all`. |
| `StatManager.tla`, `MC_StatManager.tla` | `StatManager` of `Support.cpp`: symbols, loop instances, record lists. |
| `LoopStatistics.tla` | The abstract specification of `StatManager`: a dictionary from loop names to instance numbers, and the threads' record lists. |

### How BCPull's state corresponds to the code

- **Node fields.** Each field of `NodeData` is a function on `Node == 0..N-1`:
  - `dist` is `current_length`
  - `sigma` is `num_shortest_paths`
  - `npred`, `nsucc` are `num_predecessors`, `num_successors`
  - `trim`, `toAdd`, `trim2`, `toAddF` keep their names
  - `dep` is `dependency`
  - `bc` is `betweeness_centrality`
  - `flag` is `propogation_flag`
  - `spDone`, `dpDone` are `num_short_paths_flag`, `dep_prop_flag`
- **Driver state.**
  - `rs` is `random_sources`.
  - `i` is the loop index of `BC::go`.
  - `phase` says which step of `BC::go` runs.
  - `work` is the `DGAccumulator` of the running loop.
  - `todo` and `fire` are the edges and vertices whose operator has not yet run in the current superstep.
- **Unsigned fields** are kept modulo `2^Width`. Wrap-around is one of the findings.
- **Float fields** are exact rationals `[num, den]`. `den = 0` stands for the +inf or NaN that a division by a zero `num_shortest_paths` produces. `ToUInt` is the truncation of line 862.

### How BCPull's actions correspond to the code

- **Whole operators over all vertices** are one action each: `InitializeIteration`, `PredAndSucc`, `NSPTrim`, `NSPAdd`, `NSPChanges`, `DPTrim`, `DPAdd`, `DPChanges`, `BCAccumulate`.
- **Per-edge and per-vertex operators.** The threads of `do_all_local` interleave here, so these run one action per edge or vertex, in any order:
  - `SSSPRelax(s, t)` is one relaxation. The `Galois::min` of other threads interleaves with it.
  - `NSPPull(s, t)` is one pull.
  - `DPPropagate(s)` is one vertex's push.
- **Superstep boundaries.**
  - `SSSPRound`, `NSPStart` and `DPStart` are the heads and tails of the do-while loops. At the head of a round, `NSPStart`/`DPStart` fix which edges or vertices will act. Nothing those operators read is written in the same superstep, so the choice made at the head is the one the code makes.
  - `SampleSource(r)` and `SamplingDone` are the sampling loop of `main`. Both test `SamplingMore`, the loop's one condition `random_sources.size() < numberOfSources`.
- **Not modelled here.** The sync calls are the identity on one host and do not appear. The fields that `InitializeGraph` does not touch (`trim`, `to_add`, `trim2`, `to_add_float`) start at 0, as the fresh pages of the node array hold them.

### Sanity

- **State.**
  - `bc` is the `betweeness_centrality` that `BC::go` leaves.
  - `currentMax` and `currentMin` are the static floats.
  - `sum` holds the thread-local slots of `DGAccumulator_sum`.
  - `todo` holds the vertices that `do_all` has not handed out yet.
  - `pc` and `cur` say, for each thread, where it is in `operator()` and on which vertex.
  - `maxBC`, `minBC` and `bcSum` are the printed values.
- **Actions.**
  - The body of `operator()` is split at every access to a static: `Take` (the max test), `StoreMax`, `CmpMin`, `StoreMin` and `AddSum`.
  - The split is there because the statics are shared by the threads with no lock or atomic, so a thread can be pre-empted between a test and its store.
  - `Report` is the end of `Sanity::go`: the copy into the accumulators, the reductions and the print. On one host, a reduction returns its own value.
  - `Init` is `main` resetting the statics (lines 1181-1182) and `Sanity::go` resetting the accumulators.

### StatManager

- **State.**
  - `symbols` is the `std::set` of interned strings. `addr` is the address of each interned string.
  - `loopInstances` is the vector of `(address, counter)` pairs.
  - `stats` is each thread's `RecordList`. A record keeps its loop, its category and its instance; the value is left out, since nothing reads it.
  - `begun` is history: the number of `reportLoopInstance` calls per name.
- **Addresses.** A name's address is chosen, when the name is first interned, among the unused ones. The sort and the search compare pointers, so their order is whatever the allocator gives, and the run enumerates every order.
- **Search.** `LowerBound` is the halving loop of libstdc++'s `std::lower_bound`, written as a recursive function.
- **Actions.**
  - `BeginLoopInstance` is `reportLoopInstance`: bump the counter, or `emplace_back` and `sort`.
  - `AddToStat`, `AddStatistic` and `AddPageAllocToStat` are the three `reportStat`/`reportPageAlloc` paths. Each interns its names and appends records.
- **Serial calls.** The calls are made one at a time, as discussed under "Not modelled".

## Runs

The BCPull cfgs are run as `tlc -workers 2 -config X.cfg MC_BCPull`. The others are run on `MC_Sanity` and `MC_StatManager`.

| run | instance | checks | result |
|---|---|---|---|
| `all_graphs_n3` | every directed graph on 3 vertices (self-loops included), every vertex as source, `Width = 8` | `TypeOK`, `DistIsBFS`, `DPLeafAssert` | pass (about 160k states) |
| `sigma_joins_n4` | the 4-vertex diamond with every subset of seven more edges (128 graphs), every vertex as source in turn | `SigmaCorrect` | pass (about 490k states) |
| `scenarios_n4` | the five 4-vertex graphs of the spec, every source, `FairSpec` | `Termination` | pass |
| `refines_bf_n3` | every 3-vertex graph, `--numOfSources 2 --srcNodeId 1` | `ImplementsBellmanFord` | pass (about 220k states) |
| `sampled_n3` | every 3-vertex graph, `--numOfSources 2 --srcNodeId 1` | `SourcesCovered` | pass (about 220k states) |
| `v_LateSuccessor` | a 6-vertex graph, single source 0 | `DependencyCorrect` | violated (finding 1) |
| `v_HalfDependency` | a 5-vertex graph, single source 0 | `DependencyCorrect` | violated (finding 2) |
| `v_sampling_hang` | 3 vertices, `--numOfSources 4`, `FairSpec` | `Termination` | violated (finding 3) |
| `sanity_serial` | every `bc` on 3 vertices with values 0..2, one thread | `ReportCorrect` | pass |
| `v_sanity_race` | the same, two threads | `ReportCorrect` | violated (finding 4) |
| `stats_serial` | 3 names (one of them `"(NULL)"`), 3 addresses in every order, one thread, up to 5 calls | `LowerBoundCorrect`, `InstanceNumCorrect` | pass (about 590k states) |
| `stats_refines` | the same | `ImplementsLoopStatistics` | pass (about 590k states) |

What the properties say:

- **`DistIsBFS`** is the Bellman equation once SSSP has stopped. It holds whatever the order of the concurrent relaxations.
- **`SigmaCorrect`** says that once NumShortestPaths has stopped, every reached vertex has `num_predecessors = 0`, and `num_shortest_paths` is the sum over its DAG predecessors.
- **`SourcesCovered`** says that once sampling is over, `random_sources` has exactly `loop_end` elements, and the loop of `BC::go` visits each of them once. It would fail if the loop condition at line 1132 were off by one: the set would get a third source, and the loop would never visit it.
- **`DPLeafAssert`** is the `assert` of line 845.
- **`ImplementsBellmanFord`** is `BF!Spec`, the specification of `BellmanFord` under this mapping:
  - `g` is `edges`, `d` is `current_length`;
  - `stage` is `"idle"` while a source is sampled or initialised, `"relax"` during SSSP, and `"done"` after it.
  It says that each change of a distance lowers one vertex to one more than a neighbour, that a search starts from one source, and that the loop is left only at a fixpoint. Its mutant stores `1 + dist[t]` without the atomic min, which can raise a distance.
- **`DependencyCorrect`** is Brandes' recurrence, as the spec states it.
- **`Termination`** says that every do-while loop and the driver end.
- **`ReportCorrect`** says that the printed max, min and sum are those of `betweeness_centrality`.
- **`LowerBoundCorrect`** checks the binary search against a linear scan, for the address of every interned string. It holds only while `addInstanceNum` keeps the vector sorted.
- **`InstanceNumCorrect`** says that after `k > 0` calls of `reportLoopInstance(n)`, `getInstanceNum(n)` is `k - 1`, and 0 before the first. It must hold whatever other names were interned, and in whatever address order.
- **`ImplementsLoopStatistics`** is `LS!Spec`, the specification of `LoopStatistics` under a mapping. A loop is `known` when the vector holds its pair. `count[n]` is `getInstanceNum(n)`. It says that each `reportLoopInstance` starts or bumps its own name's counter and no other, and that every record is tagged with the number its loop has at that moment. This is more than `InstanceNumCorrect`, which compares one name with its own history. Its mutant appends a new pair without the sort.
- **Mutants.** Each property has a mutant of the code that TLC finds violates it, listed in `PROJECT.json`:
  - a plain store instead of the atomic min (for `TypeOK` and for `ImplementsBellmanFord`);
  - a missing accumulator bump;
  - `>=` for `>`;
  - `to_add` stored instead of added to, so a join keeps one predecessor's count;
  - a DP token that ignores `num_successors`;
  - the sampling loop's `<` written as `<=`;
  - a max update without its test;
  - a new loop appended without the sort;
  - a `getInstanceNum` that does not check that the pair found is its own.

### Why the bounds suffice

- **3 vertices.** With all 512 graphs on 3 vertices, every source, and every order of the per-edge steps, the runs cover:
  - vertices that are not reached;
  - self-loops;
  - cycles;
  - a vertex with two DAG successors.
  On 3 vertices, however, no reached vertex has two DAG predecessors, so every path count is 1 there. A join needs two predecessors at the same distance and a vertex one step further, which takes 4 vertices.
- **4 vertices.** `sigma_joins_n4` checks `SigmaCorrect` on the diamond with any of seven more edges: chords, back edges, a 3-cycle and a self-loop. From source 0, vertex 3 joins two shortest paths. The mutant that stores `to_add` passes on every 3-vertex graph and fails here. The scenario graphs of the spec add the path and the disconnected graph for `Termination`.
- **8-bit words.** `Width = 8` is the narrowest word whose infinity `(2^8-1) div 4 = 63` is above every distance. Wrap-around of `num_successors` still shows.
- **The findings** need 5 and 6 vertices (two levels of successors), and have runs of their own.
- **Sanity.** With 3 vertices and values 0..2, a vertex can be handed out after a larger or a smaller one, and two vertices can share a value. One thread is the reference; two threads are enough to lose an update.
- **StatManager.** With 3 names and 5 calls, the runs reach all of these:
  - three loops in the vector, in every address order;
  - a name interned as a category before or after it is begun;
  - a loop begun twice.

  A second thread adds only a second, independent record list.

### Fairness

`FairSpec` assumes two things:

- **`WF_vars(Next)`.** One thread drives the BSP loop, and each `do_all` runs all its iterations, so the program does not stop while a step is enabled.
- **Strong fairness of `SampleSource(r)` for every id `r`.** The seeded `minstd_rand0` draws, uniformly over `0..size-1`, a sequence that yields every id again and again.

The safety runs use `Spec` without fairness. `CHECK_DEADLOCK FALSE` is set because the driver stops in phase `"done"`. That it reaches `"done"` is exactly what `Termination` checks.

## Findings

1. **`DPTrim` clears the wrong field (gen.cpp:668).**
   - `DPTrim` zeroes `trim` where `trim2` was meant, so `trim2` is never reset.
   - On the `LateSuccessor` graph, vertex 2 gets contributions in two rounds. Its stale `trim2` is subtracted again, and `num_successors` wraps (to 253 on 8 bits).
   - Vertex 2 never gets the token again, and vertex 1's dependency stays 0 instead of 4.
2. **The dependency is truncated before it is used (gen.cpp:862).**
   - `uint32_t dep = src_data.dependency` truncates the float dependency.
   - On `HalfDependency`, vertex 1 ends with 2 instead of 3.
3. **The sampling loop never ends (gen.cpp:1132).**
   - The loop cannot end when `--numOfSources` exceeds the number of vertices.
   - The spec says configuration errors are reported at startup.
4. **Sanity can print the wrong max or min (gen.cpp:1068-1073).**
   - Every thread of `do_all` tests the static `current_max`/`current_min` and then stores to it, with no lock or atomic.
   - In the trace, thread t2 finds `current_min` above `bc = 1` and is pre-empted. Thread t1 stores 0, then t2 stores 1.
   - "Min BC" is printed as 1, where the least `betweeness_centrality` is 0. The spec says Sanity reports max(bc) and min(bc).

## Proofs

`BCPull_proofs.tla` proves two theorems for every `N`, `Width`, graph set and option:

- `THEOREM TypeCorrect == Spec => []TypeOK`;
- `THEOREM DistIsBFSCorrect == Spec => []DistIsBFS`.

- **Assumptions.** It rests on these assumptions of `BCPull`:
  - `NAssumption`: `N > 0`.
  - `WidthAssumption`: `N + 1 < infinity`, so distances never reach the word's top.
  - `GraphsAssumption`: the graphs are on `Node`.
  - `OptionsAssumption`.
- **Structure.** `TypeOK` is inductive as it stands.
  - `InitTypeOK` proves it holds initially.
  - `NextTypeOK` proves that every action preserves it. There is one step per action, and under it one step per field the action rewrites.
  - The lemmas are:
    - `ModFacts`: the word is positive, and infinity lies above every hop count;
    - `NodeSubsetCard`: DAG neighbour counts are natural numbers;
    - `QAddType`, `ToUIntType`: the float operations stay in `Q`.

**`DistIsBFSCorrect`.** `DistIsBFS` is not inductive as it stands: it says nothing during SSSP.

- **The strengthening.** It is strengthened to `BFSInv`, which holds `TypeOK` and four facts. An edge `<<s, t>>` is *relaxed* when `dist[s] <= 1 + dist[t]`.
  - `SrcZero`: after `InitializeIteration`, the source has distance 0.
  - `Witness`: every other reached vertex has an edge to a vertex at least one hop nearer.
  - `RoundFix`: in an SSSP superstep in which no distance has yet been lowered (`work` is false), every edge already visited is relaxed.
  - `Settled`: after SSSP, every edge is relaxed.
- **The lemmas.**
  - `BFSInit` and `BFSNext` prove that `BFSInv` is inductive. The concurrent relaxations only lower distances. A lowered distance comes with its witness edge, and it sets `work`, so the loop runs another round.
  - `StableAfterBFS` covers the actions after SSSP, which do not touch `dist`.
  - `BFSInvImpliesDist` derives the Bellman equation. Two facts bound the minimum: `Settled` from above, and `Witness` with `SrcZero` from below. `MinIsLeast` identifies the minimum.

**`DPLeafAssertCorrect`** (`BCPull_token_proofs.tla`): `THEOREM DPLeafAssertCorrect == Spec => []DPLeafAssert`. It is the assert of `DependencyPropogation` (gen.cpp:845): a vertex whose operator fires has `num_successors == 0`. It holds for every graph, source, `N` and `Width` under the same assumptions.

- **Why it needs a strengthening.** `DPLeafAssert` speaks only of the `dp` phase. Whether it holds there depends on where NumShortestPaths left the tokens (`propogation_flag`) and the counters. So the invariant `DPInv` is `BFSInv` plus `TokenInv`, which follows the token through every phase:
  - `Idle`: outside NumShortestPaths, `num_predecessors` and `trim` are 0.
  - `SrcToken`: in SSSP and PredAndSucc, only the source holds the token, nothing is marked done, and `num_successors` is 0.
  - `Levels`: in NumShortestPaths there is a level `L` (round `L` of the loop) for which `Level(L)` holds:
    - `num_successors` counts the vertex's DAG successors;
    - a reached vertex holds the token exactly when it is at distance `L`, or nearer and has no DAG successor;
    - `num_short_paths_flag` is set only on vertices at distance at most `L`, and every such vertex has the token or the flag;
    - in the `nsp` superstep, `trim` counts the pull edges already run, the pending edges are a subset of the pull edges into level `L`, and `work` says whether there are any;
    - after `NSPTrim`, `num_predecessors` is what is left for level `L + 1`.
  - `DPStartLeaf`, `DPRound`, `DPSpent`: when DependencyPropogation starts, every vertex that will fire has no successor left. During a round, every vertex in `fire` has `num_successors == 0`, and every vertex that would fire is in `fire`. After the round, no vertex fires until `DPChanges` hands out tokens, and it hands them only to vertices with `num_successors == 0`.
- **The argument.**
  - `TokenInit` proves that `Init` satisfies `TokenInv`.
  - `TokenNext` proves that `DPInv /\ [Next]_vars` implies `DPInv'`. It has one step per action, and the five NumShortestPaths steps are lemmas of their own.
    - `PredAndSuccStep` opens round 0. The source is the only vertex at distance 0 (`SrcOnlyAtZero`).
    - `NSPStartStep`: the pending set is exactly the DAG edges into level `L`. A token holder with a DAG successor must be at level `L` (`CardPos`).
    - `NSPPullStep` adds one edge to `Pulled` (`FS_AddElement`). The width assumption keeps the `+1` from wrapping.
    - `NSPTrimStep`: the pulled edges of a level-`L + 1` vertex are all its DAG predecessors, and those of any other vertex are none.
    - `NSPChangesStep`, with `ChangesVertex` for one vertex:
      - when there was work, the token moves to level `L + 1` and round `L + 1` holds;
      - when there was none, no reached vertex lies at `L + 1` (`HasDagPred`: every reached vertex other than the source has a DAG predecessor), so none lies beyond `L` (`NoDeeper`). So every counter is back to 0, and every token holder has `num_successors == 0`.
  - `NoDeeper` is a least-element argument. It takes the least distance above `L + 1` with `WFMin` of `WellFoundedInduction`, applied to `<` on `Nat`. That vertex would need a DAG predecessor at a distance that does not exist.
- **Checked first by TLC.** Before the proof, TLC checked `DPInv` as an invariant on every three-vertex graph and source, on the two findings' graphs, and on the four-vertex scenarios.
- **Time.** The proof has 768 obligations, and `tlapm` checks it in about seven minutes.

**`ImplementsBellmanFordCorrect`** (`BCPull_bf_proofs.tla`): `THEOREM ImplementsBellmanFordCorrect == Spec => ImplementsBellmanFord`. This is the refinement, proved for every graph, `N`, `Width` and source option. The proof follows the usual pattern: `MappedInit` shows `Init => BF!Init`, and `MappedNext` shows `BFSInv /\ [Next]_vars => [BF!Next]_BF!vars`, with one case per action.

- **Sampling.** `SampleSource` and `SamplingDone` are stuttering steps.
- **`InitializeIteration`** is `Start` (`InitIsStart`). `current_length` is 0 at the source when the source is a vertex, and infinity elsewhere. `NAssumption` makes infinity differ from 0.
- **`SSSPRelax`** is `Relax` when the atomic min lowers the distance. Otherwise it is a stutter (`RelaxIsRelax`).
- **`SSSPRound`** is a stutter while `work` is set. It is `Finish` when it leaves the loop (`RoundIsFinish`). A superstep with no work has visited every edge, and `RoundFix` of `BFSInv` says that every edge visited is relaxed. This is why the proof needs the invariant of `DistIsBFSCorrect`, and not only `TypeOK`.
- **After SSSP.** The later phases leave `edges` and `dist` alone, so they are stutters.
- **`BCAccumulate`** is `Reset` when it moves to the next source. It is a stutter when it ends the run.

TLC checked the refinement first, on the `refines_bf_n3` run.

What stays with TLC:

- **Liveness.** `Termination` is liveness under fairness. The prover does not handle liveness or `ENABLED`.
- **Sums.** `SigmaCorrect` and `DependencyCorrect` sum over sets with the folds of the community modules. What a fold computes cannot be proved here, because the library's induction theorems take an operator parameter, which the installed provers cannot instantiate. The token invariant above is the control part of `SigmaCorrect`, the arithmetic part would need that induction.
- **Sanity and StatManager.** `ReportCorrect` folds over functions. `LowerBoundCorrect` and `InstanceNumCorrect` rest on what the recursive `lower_bound` computes for every input, which is induction over data. So these properties stay with TLC. So does `ImplementsLoopStatistics`: its step from `BeginLoopInstance` needs what `SortSeq` returns (the existence of a sorted permutation) and what the binary search finds in the sorted result, both of which are induction over data.

## Not modelled, and the plan for later

- **Several hosts.** A `ReplicaSync` module will hold masters and mirrors, with reduce and broadcast between operators. It will include the `Broadcast_trim` that versions 3 and 4 use for `trim2` (line 803), and the per-host `r_dist` range (line 1127).
- **`numRuns > 1`.** `InitializeGraph` between runs does not reset `trim2`. Modelling it will also let a round-trip property compare two runs.
- **`StatManager` under concurrent calls.** `symbols` and `loopInstances` are changed with no lock (Support.cpp:71-100). A call that overlaps another is undefined behaviour of `std::set` and `std::vector`, which no faithful model of their internals covers, and the repository does not show which callers overlap. The printing (`printStatsForR`, `printStats`) is output only. `addNumaAllocToStat` and `reportStatGlobal` change nothing.
- **`AddStatistic` instance tag.** `addToStat(Statistic*)` tags its records with instance 0, whatever the loop's instance. It is modelled as written. No document says what was meant, so no property is claimed.
- **Refinement of the later phases.** `BellmanFord` abstracts only SSSP. An abstract Brandes specification of the dependency phases would need the findings set aside first, because `DependencyCorrect` fails on the code as written.
- **Float rounding.** The order-dependent rounding of float `atomicAdd` (line 867) is out of reach of the exact-rational model.
- **Not a model.** Verification output, timers and statistics printing are I/O.
