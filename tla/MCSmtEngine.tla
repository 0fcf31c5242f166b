---------------------------- MODULE MCSmtEngine ----------------------------
EXTENDS SmtEngine
CONSTANTS p, q, d
MCFormulas == {p, q}
MCRecDefs == {d}
\* p and q exclude each other, and the definition d excludes q.
MCConflicts == {{p, q}, {q, d}}

Setting(incremental, perCall, cumulative) ==
  [incrementalSolving |-> incremental,
   perCallResourceLimit |-> perCall, cumulativeResourceLimit |-> cumulative]

Unlimited == {Setting(incremental, 0, 0) : incremental \in BOOLEAN}
CumulativelyLimited == {Setting(TRUE, 0, 3)}
=============================================================================
