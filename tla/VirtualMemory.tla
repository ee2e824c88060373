---------------------------- MODULE VirtualMemory ---------------------------
(***************************************************************************)
(* What kern/pmap.c and the memory system calls promise to user programs:  *)
(* virtual pages that are unmapped, or hold a value of their own, or share *)
(* one with other virtual pages.  There are no physical pages, no disk and *)
(* no TLB here: whether a page is resident must not be observable.         *)
(***************************************************************************)
CONSTANTS VP, Data, Zero, None

VARIABLES
  val,    \* val[v]: the contents of v, None when v is unmapped
  share,  \* the sets of virtual pages that are one and the same memory
  mode    \* "user" or "kernel"

vmvars == <<val, share, mode>>

VMInit == val = [v \in VP |-> None] /\ share = {} /\ mode = "user"

\* The kernel is entered and left; between the two only it acts.
Trap == mode = "user" /\ mode' = "kernel" /\ UNCHANGED <<val, share>>
Leave == mode = "kernel" /\ mode' = "user" /\ UNCHANGED <<val, share>>
KernelStep == mode = "kernel" /\ mode' \in {"kernel", "user"}

Object(v) == CHOOSE o \in share : v \in o
Without(v) == {o \ {v} : o \in share} \ {{}}

\* sys_mem_alloc, passive_alloc: a zeroed page, shared with nobody.
Fresh(v) ==
  /\ KernelStep
  /\ val[v] = None
  /\ val' = [val EXCEPT ![v] = Zero]
  /\ share' = share \union {{v}}

\* sys_mem_map, sys_ipc_try_send: d becomes another name of s.
Join(s, d) ==
  /\ KernelStep
  /\ val[s] # None /\ val[d] = None
  /\ val' = [val EXCEPT ![d] = val[s]]
  /\ share' = (share \ {Object(s)}) \union {Object(s) \union {d}}

\* page_remove, by sys_mem_unmap, by a new mapping, or by env_free.
Drop(v) ==
  /\ KernelStep
  /\ val[v] # None
  /\ val' = [val EXCEPT ![v] = None]
  /\ share' = Without(v)

\* A store by user code changes the memory of v and nothing else; the kernel
\* stores nothing.
Write(v, x) ==
  /\ mode = "user" /\ UNCHANGED mode
  /\ val[v] # None
  /\ val' = [w \in VP |-> IF w \in Object(v) THEN x ELSE val[w]]
  /\ UNCHANGED share

VMNext ==
  \/ Trap \/ Leave
  \/ \E v \in VP : Fresh(v) \/ Drop(v)
  \/ \E s \in VP : \E d \in VP : Join(s, d)
  \/ \E v \in VP : \E x \in Data : Write(v, x)

VMSpec == VMInit /\ [][VMNext]_vmvars

=============================================================================
