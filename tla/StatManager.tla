---------------------------- MODULE StatManager ----------------------------
(***************************************************************************)
(* StatManager of libruntime/src/Support.cpp: the runtime's table of       *)
(* statistics.  Names of loops and categories are interned in the set      *)
(* symbols and handled by the address of the interned string.             *)
(* loopInstances is a vector of (address, counter) pairs kept sorted by    *)
(* address and searched with std::lower_bound; every record of a          *)
(* statistic is tagged with the instance number of its loop at the time.  *)
(*                                                                         *)
(* A name is a model value; the interned string's address is chosen, when *)
(* the name is first inserted, among the addresses no other symbol has:    *)
(* the order of the addresses, on which the sort and the search rely, is  *)
(* whatever the allocator produced.  The values of the statistics are     *)
(* left out: no step reads them.  The calls are made one at a time.       *)
(***************************************************************************)
EXTENDS Naturals, Sequences, FiniteSets, Functions, TLC

CONSTANTS
  Names,     \* the loop and category strings the program reports
  NullName,  \* "(NULL)", used for a null loop name and by reportPageAlloc
  Threads,   \* the threads, one RecordList each; all of them active
  Addr,      \* the addresses an interned string may get
  MaxOps     \* bound on the number of calls

ASSUME StatAssumption ==
  /\ IsFiniteSet(Names) /\ NullName \in Names
  /\ Addr \subseteq Nat /\ Cardinality(Addr) >= Cardinality(Names)
  /\ Threads # {}
  /\ MaxOps \in Nat

VARIABLES
  symbols,        \* StatManager::symbols
  addr,           \* the address of each interned string
  loopInstances,  \* StatManager::loopInstances, a sequence of [sym, count]
  stats,          \* Stats: each thread's RecordList, a sequence of records
  begun,          \* history: reportLoopInstance calls so far, per name
  ops             \* calls so far

vars == <<symbols, addr, loopInstances, stats, begun, ops>>

Record == [loop : Names, category : Names, instance : Nat]

Init ==
  /\ symbols = {}
  /\ addr = <<>>
  /\ loopInstances = <<>>
  /\ stats = [t \in Threads |-> <<>>]
  /\ begun = [n \in Names |-> 0]
  /\ ops = 0

\* getOrInsertSymbol for every name of S: the set keeps the strings it has
\* and gives each new one a fresh address.
InsertSymbols(S) ==
  /\ symbols' = symbols \cup S
  /\ \E a \in [S \ symbols -> Addr \ Range(addr)] :
       /\ IsInjective(a)
       /\ addr' = [n \in symbols \cup S |-> IF n \in symbols THEN addr[n] ELSE a[n]]

\* std::lower_bound(first, last, s, [](p, s) { return p.first < s; }) as
\* libstdc++ runs it: halve the range [first, first + len) until it is
\* empty; the result is an index of seq, or Len(seq) + 1 for end().
LowerBound(seq, key, a) ==
  LET lb[first \in 1..Len(seq) + 1, len \in 0..Len(seq)] ==
        IF len = 0 THEN first
        ELSE LET half == len \div 2
                 mid  == first + half
             IN  IF key[seq[mid].sym] < a THEN lb[mid + 1, len - half - 1]
                                         ELSE lb[first, half]
  IN lb[1, Len(seq)]

\* Mutant: the check that the pair found is the string's own is dropped.
GetInstanceNumNoKeyCheck(n) ==
  IF n \notin symbols THEN 0
  ELSE LET i == LowerBound(loopInstances, addr, addr[n])
       IN  IF i = Len(loopInstances) + 1 THEN 0 ELSE loopInstances[i].count

\* getInstanceNum: 0 for an unknown string or a string with no pair,
\* otherwise the counter of its pair.
GetInstanceNum(n) ==
  IF n \notin symbols THEN 0
  ELSE LET i == LowerBound(loopInstances, addr, addr[n])
       IN  IF i = Len(loopInstances) + 1 \/ loopInstances[i].sym # n THEN 0
           ELSE loopInstances[i].count

\* Mutant: the pair of a new loop is appended and the vector is not sorted.
BeginLoopInstanceNoSort(n) ==
  /\ ops < MaxOps
  /\ InsertSymbols({n})
  /\ LET i == LowerBound(loopInstances, addr', addr'[n])
     IN  IF i = Len(loopInstances) + 1 \/ loopInstances[i].sym # n
         THEN loopInstances' = Append(loopInstances, [sym |-> n, count |-> 0])
         ELSE loopInstances' = [loopInstances EXCEPT ![i].count = @ + 1]
  /\ begun' = [begun EXCEPT ![n] = @ + 1]
  /\ ops' = ops + 1
  /\ UNCHANGED stats

\* reportLoopInstance(loopname) -> beginLoopInstance -> addInstanceNum:
\* intern the name, then bump its counter, or append a pair with counter 0
\* and sort the vector by address.
BeginLoopInstance(n) ==
  /\ ops < MaxOps
  /\ InsertSymbols({n})
  /\ LET i == LowerBound(loopInstances, addr', addr'[n])
     IN  IF i = Len(loopInstances) + 1 \/ loopInstances[i].sym # n
         THEN loopInstances' =
                SortSeq(Append(loopInstances, [sym |-> n, count |-> 0]),
                        LAMBDA p, q : addr'[p.sym] < addr'[q.sym])
         ELSE loopInstances' = [loopInstances EXCEPT ![i].count = @ + 1]
  /\ begun' = [begun EXCEPT ![n] = @ + 1]
  /\ ops' = ops + 1
  /\ UNCHANGED stats

\* reportStat(loop, category, value) -> addToStat from thread t: intern
\* both names and push a record with the loop's instance number onto t's
\* own RecordList (insertStat, under the list's lock).
AddToStat(t, l, c) ==
  /\ ops < MaxOps
  /\ InsertSymbols({l, c})
  /\ stats' = [stats EXCEPT ![t] = Append(@, [loop |-> l, category |-> c,
                                              instance |-> GetInstanceNum(l)])]
  /\ ops' = ops + 1
  /\ UNCHANGED <<loopInstances, begun>>

\* reportStat(Statistic*) -> addToStat(Statistic*): one record per active
\* thread, into that thread's list, with instance 0.
AddStatistic(l, c) ==
  /\ ops < MaxOps
  /\ InsertSymbols({l, c})
  /\ stats' = [t \in Threads |->
                 Append(stats[t], [loop |-> l, category |-> c, instance |-> 0])]
  /\ ops' = ops + 1
  /\ UNCHANGED <<loopInstances, begun>>

\* reportPageAlloc(category) -> addPageAllocToStat("(NULL)", category):
\* one record per active thread, tagged with the instance of "(NULL)".
AddPageAllocToStat(c) ==
  /\ ops < MaxOps
  /\ InsertSymbols({NullName, c})
  /\ stats' = [t \in Threads |->
                 Append(stats[t], [loop |-> NullName, category |-> c,
                                   instance |-> GetInstanceNum(NullName)])]
  /\ ops' = ops + 1
  /\ UNCHANGED <<loopInstances, begun>>

Next ==
  \/ \E n \in Names : BeginLoopInstance(n)
  \/ \E t \in Threads, l, c \in Names : AddToStat(t, l, c)
  \/ \E l, c \in Names : AddStatistic(l, c)
  \/ \E c \in Names : AddPageAllocToStat(c)

Spec == Init /\ [][Next]_vars

-----------------------------------------------------------------------------
TypeOK ==
  /\ symbols \subseteq Names
  /\ addr \in [symbols -> Addr]
  /\ loopInstances \in Seq([sym : symbols, count : Nat])
  /\ stats \in [Threads -> Seq(Record)]
  /\ begun \in [Names -> Nat]
  /\ ops \in 0..MaxOps

\* The search getInstanceNum and addInstanceNum rely on: for the address of
\* every interned string, std::lower_bound over loopInstances returns the
\* first pair whose address is not below it, as a linear scan would.  It
\* holds only while addInstanceNum keeps the vector sorted after every
\* emplace_back.
LowerBoundRef(seq, key, a) ==
  CHOOSE i \in 1..Len(seq) + 1 :
    /\ i = Len(seq) + 1 \/ key[seq[i].sym] >= a
    /\ \A j \in 1..i - 1 : key[seq[j].sym] < a

LowerBoundCorrect ==
  \A n \in symbols :
    LowerBound(loopInstances, addr, addr[n]) = LowerBoundRef(loopInstances, addr, addr[n])

\* The instance number a statistic of loop n is tagged with: after k > 0
\* calls of reportLoopInstance(n) getInstanceNum(n) is k - 1, and 0 before
\* the first, whatever other names were interned or begun in between and
\* whatever addresses the allocator gave them.
InstanceNumCorrect ==
  \A n \in Names :
    GetInstanceNum(n) = IF begun[n] = 0 THEN 0 ELSE begun[n] - 1


-----------------------------------------------------------------------------
\* The refinement mapping to LoopStatistics: a loop is known when the
\* vector holds its pair, and its number is what getInstanceNum returns.
LS == INSTANCE LoopStatistics WITH
        known <- {n \in Names : \E i \in DOMAIN loopInstances : loopInstances[i].sym = n},
        count <- [n \in Names |-> GetInstanceNum(n)]

\* The interned strings, the address-sorted vector and its binary search
\* together implement a dictionary from loop names to instance numbers:
\* every reportLoopInstance starts or bumps the name's own counter and no
\* other, and every record is tagged with the number its loop has then.
ImplementsLoopStatistics == LS!Spec

=============================================================================
