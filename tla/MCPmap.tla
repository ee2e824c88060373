------------------------------- MODULE MCPmap -------------------------------
EXTENDS PmapRefinement, PmapFindings, TLC
CONSTANTS e1, e2, a, s, u, r1, r2
MCPdx == [v \in Va |-> IF v = u THEN r2 ELSE r1]
MCPdx1 == [v \in Va |-> r1]
MCPair == [v \in Va |-> IF v = u THEN 1 ELSE 0]
MCSym == Permutations(Page) \union Permutations(Block)
=============================================================================
