---------------------------- MODULE PmapFindings ----------------------------
(***************************************************************************)
(* PmapLib where swap() may also choose the page that a system call holds, *)
(* and an assertion of swap() that fails under the calls of PmapLib.       *)
(***************************************************************************)
EXTENDS PmapLib

\* swap() may choose the page a system call holds: nothing protects srcp
\* between page_lookup and the end of page_insert.
HeldSpec == Init /\ [][LibUser \/ Kernel \/ \E p \in Page : \E b \in Block : swap(p, b)]_vars

(***************************************************************************)
(* kern/syscall_all.c, sys_mem_map: "After mapping:  src_VPage -> PPage,   *)
(* dst_VPage -> PPage".                                                    *)
(***************************************************************************)
MapShares ==
  [][op = "map" /\ pc = "insert" /\ pc' = "user" => pte'[src] = pte'[dst]]_vars

(***************************************************************************)
(* kern/pmap.c, swap: "panic_on(pp->pp_ref != 0)".  The SwapInfos of a     *)
(* page are all the references to it: they are gone when the loop over     *)
(* them ends.                                                              *)
(***************************************************************************)
AllReleased ==
  pc = "panic" => \A p \in page_swap_queue : pp_ref[p] = Cardinality(Registered(p))

=============================================================================
