------------------------------- MODULE PmapLib ------------------------------
(***************************************************************************)
(* Pmap under the callers the repository has: the user library and the     *)
(* file server.  Left out are                                              *)
(*   - sending or mapping a page again to where it is mapped already, which*)
(*     no program of the repository does, although the kernel lets it: the *)
(*     entry gets a second SwapInfo, SwapTable fails, and an eviction then *)
(*     stops the kernel in swap() (pmap.c, panic_on(!( *pte & PTE_V)));    *)
(*   - what happens after swap() chose the page that the running system    *)
(*     call holds in a local (run pmap_held).                              *)
(* Everything cow_entry does is in, the copy of a page that is not         *)
(* swappable included: between its sys_mem_map and its sys_mem_unmap such  *)
(* a copy is queued with one of its two mappings unregistered, and an      *)
(* eviction then stops the kernel (run pmap_cow).                          *)
(***************************************************************************)
EXTENDS Pmap

Mapped(x) == {v \in VP : pte[v] = x}

\* swap_register was called for the page at v, or it is on the disk.
Swappable(v) == pte[v] # None /\ Registered(pte[v]) # {}

\* v and the scratch page of its environment map the same page: cow_entry is
\* between its sys_mem_map and its sys_mem_unmap (user/lib/fork.c).
Copying(v) ==
  v[2] # Ucow /\ pte[v] # None /\ pte[<<v[1], Ucow>>] = pte[v]

\* v maps a queued page without a SwapInfo of its own.
Bare(v) == pte[v] \in page_swap_queue /\ ste[pte[v]][v] = 0

\* The page at s is not being copied and is not at d yet.
Another(s, d) ==
  s[2] # Ucow /\ d[2] # Ucow /\ ~Copying(s) /\ (pte[s] # None => pte[d] # pte[s])

(***************************************************************************)
(* How the library calls sys_mem_map:                                      *)
(*   - to change the permission of a mapping (fork.c duppage, s = d);      *)
(*   - to share a page (fork.c duppage, fd.c dup, spawn.c);                *)
(*   - from UCOW, where sys_mem_alloc just put a page, onto the page of    *)
(*     the same environment that a copy-on-write fault hit (fork.c         *)
(*     cow_entry).                                                         *)
(* UCOW is used by cow_entry only, and an environment in cow_entry makes   *)
(* no other call.                                                          *)
(***************************************************************************)
LibMap(s, d) ==
  \/ s = d
  \/ Another(s, d)
  \/ /\ s[2] = Ucow /\ d[2] # Ucow /\ s[1] = d[1] /\ pte[d] # None
     /\ Swappable(s) /\ Mapped(pte[s]) = {s}

LibIpc(s, d) == Another(s, d)

LibUser ==
  \/ \E d \in VP : sys_mem_alloc(d)
  \/ \E d \in VP : sys_mem_unmap(d)
  \/ \E s \in VP : \E d \in VP : LibMap(s, d) /\ sys_mem_map(s, d)
  \/ \E s \in VP : \E d \in VP : LibIpc(s, d) /\ ipc_page(s, d)
  \/ \E d \in VP : TlbMiss(d)
  \/ \E v \in VP : \E x \in Data : Store(v, x)
  \/ \E v \in VP : tlbwr(v)
  \/ \E e \in Env : env_setup_vm(e)
  \/ \E e \in Env : env_free(e)

\* swap() picks a page other than the one the handler holds in a local.
LibSwap(p, b) == p # pp /\ swap(p, b)

\* It picks that one: the behaviour is followed no further.
HeldEvicted ==
  /\ Evicting
  /\ pp \in page_swap_queue
  /\ Panic("held")

LibHalted == pc = "held" /\ UNCHANGED vars

LibKernel ==
  \/ Kernel
  \/ \E p \in Page : \E b \in Block : LibSwap(p, b)
  \/ HeldEvicted

LibNext == LibUser \/ LibKernel \/ LibHalted

LibSpec == Init /\ [][LibNext]_vars

\* Interrupts are off and nothing blocks in the kernel: a handler that has
\* a step to take takes it.
FairSpec == LibSpec /\ WF_vars(LibKernel)

-----------------------------------------------------------------------------
Directories(p) == {e \in Env : pgdir[e] = p}
Tables(p) == {d \in Pd : pde[d] = p}

\* The page a handler took off the free list and has not mapped yet.
InFlight == {p \in Page : op \in {"alloc", "touch"} /\ p = pp}

\* Types of the state of pmap.c, and of the locals of the running handler.
TypeOK ==
  /\ page_free_list \subseteq Page
  /\ pp_ref \in [Page -> Nat]
  /\ pgdir \in [Env -> Page \union {None}]
  /\ pde \in [Pd -> Page \union {None}]
  /\ pte \in [VP -> Place \union {None}]
  /\ page_swap_queue \subseteq Page
  /\ ste \in [Place -> [VP -> Nat]]
  /\ sinfo_free \in Nat
  /\ sd_bitmap \subseteq Block
  /\ mem \in [Page -> Data] /\ sd \in [Block -> Data]
  /\ tlb \in [VP -> Page \union {None}]
  /\ pc \in {"user", "page_alloc", "lookup_dst", "lookup_src", "insert", "remove",
             "refill", "free", "panic", "nomem", "nodisk", "nosinfo", "held"}
  /\ op \in {"none", "alloc", "map", "ipc", "unmap", "touch", "exofork", "free"}
  /\ src \in VP \union {None} /\ dst \in VP \union {None}
  /\ pp \in Page \union {None}
  /\ swappable \in BOOLEAN
  /\ evict \in 0..NSWAP

(***************************************************************************)
(* include/pmap.h: "Ref is the count of pointers (usually in page table    *)
(* entries) to this page."  page_insert, page_decref, swap() and           *)
(* swap_back() keep pp_ref equal to the number of valid entries and of     *)
(* directory entries that point to the page.                               *)
(***************************************************************************)
RefCount ==
  \A p \in Page : pp_ref[p] = Cardinality(Mapped(p)) + Cardinality(Tables(p))
                                                     + Cardinality(Directories(p))

(***************************************************************************)
(* A page is on page_free_list exactly when nothing points to it: no page  *)
(* in use is handed out again, and none leaks, across allocation, sharing, *)
(* eviction and env_free.                                                  *)
(***************************************************************************)
FreeList ==
  \A p \in Page : p \in page_free_list <=>
    Mapped(p) = {} /\ Tables(p) = {} /\ Directories(p) = {} /\ p \notin InFlight

(***************************************************************************)
(* swap_tbl and bno_tbl are the reverse of the page tables for the pages   *)
(* that may be swapped: one SwapInfo for each mapping of a queued page or  *)
(* of a disk block, none for a page outside page_swap_queue.  The only     *)
(* mapping that may lack its own is the one cow_entry has just made.       *)
(***************************************************************************)
SwapTable ==
  \A v \in VP :
    /\ \A p \in Page :
         ste[p][v] = IF p \in page_swap_queue /\ pte[v] = p /\ ~Bare(v) THEN 1 ELSE 0
    /\ \A b \in Block : ste[b][v] = IF pte[v] = b THEN 1 ELSE 0
    /\ Bare(v) => Copying(v)

\* A queued page is registered for someone and holds neither a page table nor
\* a page directory ("Page tables won't be swapped out", kern/env.c).
QueuedData ==
  \A p \in page_swap_queue :
    Registered(p) # {} /\ Tables(p) = {} /\ Directories(p) = {}

\* The page at UCOW is mapped besides there by the page being copied at most.
CowPrivate ==
  \A v \in VP : v[2] = Ucow /\ pte[v] # None =>
    \A w, x \in Mapped(pte[v]) \ {v} : w = x /\ w[1] = v[1]

\* sd_block_alloc and sd_block_free: a block is in use exactly while some
\* entry is swapped out to it.
Bitmap == \A b \in Block : b \in sd_bitmap <=> Mapped(b) # {}

\* A struct SwapInfo points back to v.
HasSinfo(v) == pte[v] # None /\ ste[pte[v]][v] = 1

\* No struct SwapInfo is lost or handed out twice by swap_register and
\* swap_unregister, whatever swap() and swap_back() move in between.
SinfoPool ==
  sinfo_free + Cardinality({v \in VP : HasSinfo(v)}) = MAX_SWAPINFO

\* A valid TLB entry agrees with the page table: tlb_invalidate is called
\* wherever an entry stops being valid or changes its page.
TlbCoherent == \A v \in VP : tlb[v] # None => pte[v] = tlb[v]

\* Mappings live in a page table, page tables in a live page directory:
\* env_free leaves nothing of the environment behind.
NoOrphans ==
  /\ \A v \in VP : pte[v] # None => Table(v) # None
  /\ \A d \in Pd : pde[d] # None => Alive(d[1])

\* Of the panic_on and assert that guard swap() and swap_back(), only
\* panic_on(pp->pp_ref != 0) can fail, and only while a cow_entry has mapped
\* its copy over a page that is not swappable and not yet unmapped UCOW.
NoPanic == pc = "panic" => \E v \in VP : Bare(v) /\ Copying(v)

\* Every handler ends, in user mode or in a panic: the refill loop of
\* _do_tlb_refill, the swap() loop of page_alloc and the loops of env_free.
HandlerEnds == pc # "user" ~> pc \in {"user", "panic", "nomem", "nodisk", "nosinfo", "held"}

-----------------------------------------------------------------------------
(* What the running handler knows: with the properties above, inductive.   *)

HandlerOp ==
  /\ pc = "user" => op = "none"
  /\ pc = "page_alloc" => op \in {"alloc", "touch", "exofork"}
  /\ pc = "lookup_dst" => op = "map"
  /\ pc = "lookup_src" => op \in {"map", "ipc"}
  /\ pc = "insert" => op \in {"alloc", "touch", "map", "ipc"}
  /\ pc = "remove" => op \in {"unmap", "free"}
  /\ pc = "refill" => op = "touch"
  /\ pc = "free" => op = "free"

\* The locals: src and dst are set, pp is set from page_alloc or the lookup
\* of the source up to the end of page_insert, and the swap() loop of one
\* page_alloc has ended before anything else happens.
HandlerLocals ==
  /\ op # "none" => src \in VP /\ dst \in VP
  /\ pc = "insert" => pp \in Page
  /\ pc \in {"user", "page_alloc", "lookup_dst", "lookup_src", "remove", "refill", "free"}
       => pp = None
  /\ pc \in {"lookup_dst", "lookup_src", "insert", "remove", "refill", "free"}
       => Alive(dst[1])
  /\ pc = "page_alloc" /\ op # "exofork" => Alive(dst[1])
  /\ pc = "page_alloc" /\ op = "exofork" => ~Alive(dst[1])
  /\ evict > 0 /\ pc \notin {"panic", "nomem", "nodisk", "nosinfo", "held"} => NeedsPage

\* The new page of sys_mem_alloc and passive_alloc belongs to the handler.
NewPage ==
  \A p \in InFlight : Mapped(p) = {} /\ Tables(p) = {} /\ Directories(p) = {}

\* The source page of sys_mem_map and sys_ipc_try_send stays where the
\* lookup found it.  The swappable flag tells whether it is queued, except
\* in cow_entry, where it tells of the page at the destination.
HeldPage ==
  pc = "insert" /\ op \in {"map", "ipc"} =>
    /\ pte[src] = pp
    /\ src # dst =>
         /\ pte[dst] # pp /\ dst[2] # Ucow
         /\ IF src[2] = Ucow
              THEN op = "map" /\ src[1] = dst[1] /\ pp \in page_swap_queue /\ Mapped(pp) = {src}
              ELSE ~Copying(src) /\ (swappable <=> pp \in page_swap_queue)

\* The caller's obligations still hold when the lookups are done.
CallerKept ==
  /\ pc \in {"lookup_dst", "lookup_src"} /\ op = "map" => LibMap(src, dst)
  /\ pc = "lookup_src" /\ op = "ipc" => LibIpc(src, dst)

\* What a handler found out before a page_alloc is still true after the
\* swap() calls that page_alloc made.
HandlerInv == HandlerOp /\ HandlerLocals /\ NewPage /\ HeldPage /\ CallerKept

\* The inductive invariant: reference counts, free list, reverse map, queue,
\* disk bitmap, SwapInfo pool, TLB and page tables agree, at every step of
\* every handler.
IInv ==
  /\ TypeOK
  /\ RefCount /\ FreeList /\ SwapTable /\ QueuedData /\ CowPrivate /\ Bitmap
  /\ SinfoPool /\ TlbCoherent /\ NoOrphans /\ NoPanic
  /\ HandlerInv

=============================================================================
