---------------------------- MODULE PmapRefinement --------------------------
(***************************************************************************)
(* Demand paging and swapping implement VirtualMemory: the contents of a   *)
(* virtual page is found in memory or on the disk, and two virtual pages   *)
(* share memory when their entries hold the same page or the same block.   *)
(***************************************************************************)
EXTENDS PmapLib

ValOf(v) ==
  IF pte[v] \in Page THEN mem[pte[v]]
  ELSE IF pte[v] \in Block THEN sd[pte[v]] ELSE None

Val == [v \in VP |-> ValOf(v)]
Share == {Mapped(x) : x \in Place} \ {{}}
Mode == IF pc = "user" THEN "user" ELSE "kernel"

VM == INSTANCE VirtualMemory WITH val <- Val, share <- Share, mode <- Mode

\* Programs cannot tell swapping from memory that never runs out: every
\* step of the kernel that moves pages leaves contents and sharing alone,
\* and a store reaches the sharers of its page and no other virtual page.
SwapTransparent == VM!VMSpec

=============================================================================
