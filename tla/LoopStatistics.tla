--------------------------- MODULE LoopStatistics ---------------------------
(***************************************************************************)
(* What StatManager promises its callers, without the interning, the      *)
(* addresses and the sorted vector: a dictionary from loop names to       *)
(* instance numbers.  The first reportLoopInstance of a name gives it the *)
(* instance 0, every later one the next number, and a statistic reported  *)
(* from a thread is tagged with its loop's current number (0 for a loop   *)
(* never begun).  The two paths that write to every thread's list tag     *)
(* with 0 (a Statistic object) and with the number of "(NULL)" (a page    *)
(* allocation).                                                            *)
(***************************************************************************)
EXTENDS Naturals, Sequences

CONSTANTS
  Names,     \* the loop and category names
  NullName,  \* the name page allocations are filed under
  Threads    \* the threads, one list of records each

VARIABLES
  known,  \* the loops begun at least once
  count,  \* the current instance number of every name
  stats   \* each thread's records

vars == <<known, count, stats>>

Init ==
  /\ known = {}
  /\ count = [n \in Names |-> 0]
  /\ stats = [t \in Threads |-> <<>>]

Begin(n) ==
  /\ known' = known \cup {n}
  /\ count' = [count EXCEPT ![n] = IF n \in known THEN @ + 1 ELSE 0]
  /\ UNCHANGED stats

Report(t, l, c) ==
  /\ stats' = [stats EXCEPT ![t] = Append(@, [loop |-> l, category |-> c,
                                              instance |-> count[l]])]
  /\ UNCHANGED <<known, count>>

ReportEverywhere(l, c, k) ==
  /\ stats' = [t \in Threads |->
                 Append(stats[t], [loop |-> l, category |-> c, instance |-> k])]
  /\ UNCHANGED <<known, count>>

Next ==
  \/ \E n \in Names : Begin(n)
  \/ \E t \in Threads, l, c \in Names : Report(t, l, c)
  \/ \E l, c \in Names : ReportEverywhere(l, c, 0)
  \/ \E c \in Names : ReportEverywhere(NullName, c, count[NullName])

Spec == Init /\ [][Next]_vars

=============================================================================
