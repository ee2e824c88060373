-------------------------------- MODULE Pmap --------------------------------
(***************************************************************************)
(* Physical pages, page tables, the TLB and the swap disk (kern/pmap.c,    *)
(* kern/tlbex.c) under the memory system calls of kern/syscall_all.c and   *)
(* the creation and destruction of environments (kern/env.c).              *)
(*                                                                         *)
(* Kernel code runs with interrupts disabled: one handler runs to          *)
(* completion before the next trap is taken.  A handler is a walk over     *)
(* pc, cut at every point where page_alloc may call swap(), because swap() *)
(* rewrites page table entries, reference counts and queues behind the     *)
(* back of the handler that needed the page.  User code runs at            *)
(* pc = "user", any environment next.                                      *)
(*                                                                         *)
(* Abstractions.  The order of page_free_list, of page_swap_queue (clock   *)
(* hand, accessed bits) and of the disk bitmap is left out: any free page, *)
(* any queued page, any free block may be next.  Permission bits are left  *)
(* out.  A page table entry is None (neither PTE_V nor PTE_SWAPPED), a     *)
(* page (PTE_V) or a disk block (PTE_SWAPPED).  The contents of a page is  *)
(* one value of Data.                                                      *)
(***************************************************************************)
EXTENDS Integers, FiniteSets

CONSTANTS
  Env,          \* environments
  Va,           \* user virtual pages of an address space
  Page,         \* physical pages managed by page_free_list
  Block,        \* blocks of the swap disk (SD_NBLK)
  None,         \* the null pointer / the empty entry
  Pinned,       \* virtual pages at or above USTACKTOP - PAGE_SIZE
  Ucow,         \* the scratch page of the copy-on-write handler
  Region,       \* page directory indices
  Pdx,          \* PDX(va)
  Pair,         \* the even/odd pair of va: the unit a TLB entry holds
  NSWAP,        \* evictions page_alloc asks for when it finds no free page
  MAX_SWAPINFO, \* struct SwapInfo in the pool
  Data, Zero    \* contents of a page, and the contents memset gives it

VP == Env \X Va        \* a virtual page: <<environment, va>>
Pd == Env \X Region    \* a page directory entry
Place == Page \union Block

ASSUME PmapFinite ==
  /\ IsFiniteSet(Env) /\ IsFiniteSet(Va) /\ IsFiniteSet(Region)
  /\ IsFiniteSet(Page) /\ IsFiniteSet(Block)
ASSUME PmapDisjoint ==
  /\ None \notin Page /\ None \notin Block /\ None \notin Data
  /\ Page \intersect Block = {}
ASSUME PmapLayout ==
  /\ Pinned \subseteq Va /\ Ucow \in Va
  /\ Pdx \in [Va -> Region]
  /\ Zero \in Data
ASSUME PmapBounds == NSWAP \in Nat \ {0} /\ MAX_SWAPINFO \in Nat

VARIABLES
  page_free_list,   \* set of pages
  pp_ref,           \* struct Page.pp_ref
  pgdir,            \* pgdir[e]: the page of e's page directory
  pde,              \* pde[<<e, r>>]: the page of e's page table for region r
  pte,              \* pte[v]: see above
  page_swap_queue,  \* set of pages swap() may choose from
  ste,              \* swap_tbl and bno_tbl: ste[x][v] SwapInfos of v at x
  sinfo_free,       \* length of swapInfo_free_list
  sd_bitmap,        \* blocks in use
  mem, sd,          \* contents of the pages and of the disk blocks
  tlb,              \* tlb[v]: the page a valid TLB entry maps v to, or None
  pc,               \* where the running handler is
  op, src, dst,     \* the handler and its two virtual pages
  pp,               \* the handler's local struct Page pointer
  swappable,        \* its local flag of the same name
  evict             \* swap() calls the running page_alloc has left

kvars == <<page_free_list, pp_ref, pgdir, pde, pte, page_swap_queue, ste,
           sinfo_free, sd_bitmap>>
dvars == <<mem, sd>>
hvars == <<op, src, dst, pp, swappable>>
vars == <<kvars, dvars, tlb, pc, hvars, evict>>

NoSinfo == [v \in VP |-> 0]

Init ==
  /\ page_free_list = Page
  /\ pp_ref = [p \in Page |-> 0]
  /\ pgdir = [e \in Env |-> None]
  /\ pde = [d \in Pd |-> None]
  /\ pte = [v \in VP |-> None]
  /\ page_swap_queue = {}
  /\ ste = [x \in Place |-> NoSinfo]
  /\ sinfo_free = MAX_SWAPINFO
  /\ sd_bitmap = {}
  /\ mem = [p \in Page |-> Zero]
  /\ sd = [b \in Block |-> Zero]
  /\ tlb = [v \in VP |-> None]
  /\ pc = "user"
  /\ op = "none" /\ src = None /\ dst = None /\ pp = None
  /\ swappable = FALSE
  /\ evict = 0

-----------------------------------------------------------------------------
(* Helpers *)

Alive(e) == pgdir[e] # None
Table(v) == pde[<<v[1], Pdx[v[2]]>>]

\* LIST_EMPTY(page2ste(p)), LIST_EMPTY(bno2ste(b))
Registered(x) == {v \in VP : ste[x][v] > 0}

\* The definitions called _skipped, _twice and so on are slips a change to the
\* code could make; they are used only to see that the properties notice them.

\* tlb_invalidate: the entry of a virtual page maps its whole pair.
SamePair(v, w) == v[1] = w[1] /\ Pair[v[2]] = Pair[w[2]]
tlb_invalidate_skipped(vs) == tlb
tlb_invalidate(vs) ==
  [v \in VP |-> IF \E w \in vs : SamePair(v, w) THEN None ELSE tlb[v]]

\* page_decref: the last reference puts the page on the free list.
page_decref_skipped(p) == pp_ref
page_decref_twice(p) == [pp_ref EXCEPT ![p] = @ - 2]
page_decref(p) == [pp_ref EXCEPT ![p] = @ - 1]
FreedBy_leaks(p) == {}
FreedBy(p) == IF pp_ref[p] = 1 THEN {p} ELSE {}

\* swap_unregister: the SwapInfos left at p once that of v is taken off, what
\* goes back to the pool, and the queue, which p leaves with its last one.
Unregistered_skipped(p, v) == ste[p]
Unregistered(p, v) == [ste[p] EXCEPT ![v] = IF @ > 0 THEN @ - 1 ELSE 0]
SinfoBack_leaks(p, v) == 0
SinfoBack(p, v) == IF ste[p][v] > 0 THEN 1 ELSE 0
Dequeue(p, left) == IF left = NoSinfo THEN page_swap_queue \ {p} ELSE page_swap_queue

\* The swap disk: write_page, read_page and the bitmap.
sd_block_free_skipped(b) == sd_bitmap
sd_block_free(b) == sd_bitmap \ {b}
write_page(p, b) == [sd EXCEPT ![b] = mem[p]]
read_page_skipped(p, b) == [mem EXCEPT ![p] = Zero]
read_page(p, b) == [mem EXCEPT ![p] = sd[b]]

\* env_free looks at entries with PTE_V or PTE_SWAPPED.
StillMapped(v) == pte[v] # None

\* The virtual page the handler is walking to.
Operand == IF pc = "lookup_src" THEN src ELSE dst

Walking == pc \in {"lookup_dst", "lookup_src", "insert", "remove", "refill"}

\* page_lookup and page_insert first bring a swapped operand back.
NeedsSwapBack == Walking /\ pte[Operand] \in Block

\* page_insert creates the page table of its operand (pgdir_walk).
NeedsTable == pc = "insert" /\ pte[dst] = None /\ Table(dst) = None

NeedsPage == pc = "page_alloc" \/ NeedsSwapBack \/ NeedsTable

\* page_alloc gets past its swap() loop.
PageReady == page_free_list # {} /\ (evict = 0 \/ page_swap_queue = {})

\* panic() and panic_on() never return.
Panic(why) ==
  /\ pc' = why
  /\ UNCHANGED <<kvars, dvars, tlb, hvars, evict>>

\* The locals of a handler end with it.
Done ==
  /\ pc' = "user"
  /\ op' = "none" /\ src' = None /\ dst' = None /\ pp' = None
  /\ swappable' = FALSE

\* Back in the caller: the refill loop, the loop of env_free, or user code.
Return_looping ==
  /\ pc' = IF op = "touch" THEN "page_alloc" ELSE IF op = "free" THEN "free" ELSE "user"
  /\ UNCHANGED hvars
Return ==
  CASE op = "touch" -> pc' = "refill" /\ pp' = None /\ UNCHANGED <<op, src, dst, swappable>>
    [] op = "free"  -> pc' = "free" /\ UNCHANGED hvars
    [] OTHER        -> Done

-----------------------------------------------------------------------------
(* Entries into the kernel, and user code *)

Enter(o, s, d, where) ==
  /\ pc = "user"
  /\ pc' = where
  /\ op' = o /\ src' = s /\ dst' = d
  /\ UNCHANGED <<kvars, dvars, pp, swappable, evict>>

sys_mem_alloc(d) == Alive(d[1]) /\ Enter("alloc", d, d, "page_alloc") /\ UNCHANGED tlb
sys_mem_unmap(d) == Alive(d[1]) /\ Enter("unmap", d, d, "remove") /\ UNCHANGED tlb
sys_mem_map(s, d) ==
  /\ Alive(s[1]) /\ Alive(d[1])
  /\ Enter("map", s, d, "lookup_dst")
  /\ UNCHANGED tlb

\* The page part of sys_ipc_try_send: s in the sender, d in the receiver.
ipc_page(s, d) ==
  /\ Alive(s[1]) /\ Alive(d[1])
  /\ Enter("ipc", s, d, "lookup_src")
  /\ UNCHANGED tlb

\* A TLB miss, or a hit on an invalid half of a pair.
TlbMiss(d) ==
  /\ Alive(d[1])
  /\ tlb[d] = None
  /\ Enter("touch", d, d, "refill")
  /\ tlb' = tlb_invalidate({d})

\* A store through a valid TLB entry.
Store(v, x) ==
  /\ pc = "user"
  /\ tlb[v] # None
  /\ mem' = [mem EXCEPT ![tlb[v]] = x]
  /\ UNCHANGED <<kvars, sd, tlb, pc, hvars, evict>>

\* tlbwr replaces a random entry.
tlbwr(v) ==
  /\ pc = "user"
  /\ tlb[v] # None
  /\ tlb' = tlb_invalidate({v})
  /\ UNCHANGED <<kvars, dvars, pc, hvars, evict>>

env_setup_vm(e) ==
  /\ ~Alive(e)
  /\ Enter("exofork", <<e, Ucow>>, <<e, Ucow>>, "page_alloc")
  /\ UNCHANGED tlb

env_free(e) ==
  /\ Alive(e)
  /\ Enter("free", <<e, Ucow>>, <<e, Ucow>>, "free")
  /\ UNCHANGED tlb

-----------------------------------------------------------------------------
(* page_alloc and the swap() calls it makes *)

\* page_alloc found the free list empty and still has swap() calls to make.
Evicting ==
  /\ NeedsPage
  /\ page_swap_queue # {}
  /\ evict > 0 \/ page_free_list = {}

\* panic_on(!(*pte & PTE_V)) for an entry visited twice or not valid, and
\* panic_on(pp->pp_ref != 0) after all of them.
SwapBroken(p) ==
  \/ \E v \in VP : ste[p][v] > 1 \/ (ste[p][v] = 1 /\ pte[v] \notin Page)
  \/ pp_ref[p] # Cardinality(Registered(p))

swap(p, b) ==
  /\ Evicting
  /\ p \in page_swap_queue
  /\ b \in Block \ sd_bitmap
  /\ IF SwapBroken(p) THEN Panic("panic")
     ELSE
       /\ evict' = (IF evict = 0 THEN NSWAP ELSE evict) - 1
       /\ sd_bitmap' = sd_bitmap \union {b}
       /\ sd' = write_page(p, b)
       /\ pte' = [v \in VP |-> IF v \in Registered(p) THEN b ELSE pte[v]]
       /\ tlb' = tlb_invalidate(Registered(p))
       /\ pp_ref' = [pp_ref EXCEPT ![p] = 0]
       /\ ste' = [ste EXCEPT ![p] = NoSinfo,
                             ![b] = [v \in VP |-> ste[b][v] + ste[p][v]]]
       /\ page_swap_queue' = page_swap_queue \ {p}
       /\ page_free_list' = page_free_list \union {p}
       /\ UNCHANGED <<pgdir, pde, sinfo_free, mem, pc, hvars>>

\* panic("swap disk out of space")
DiskFull ==
  /\ Evicting
  /\ Block \subseteq sd_bitmap
  /\ Panic("nodisk")

\* panic("swap err: no PPage available after swapping")
NoPageLeft ==
  /\ NeedsPage
  /\ page_free_list = {} /\ page_swap_queue = {}
  /\ Panic("nomem")

\* page_alloc for a new page of data, or for a new page directory.
TakePage(p) ==
  /\ pc = "page_alloc"
  /\ PageReady
  /\ p \in page_free_list
  /\ page_free_list' = page_free_list \ {p}
  /\ mem' = [mem EXCEPT ![p] = Zero]
  /\ evict' = 0
  /\ IF op = "exofork"
       THEN /\ pgdir' = [pgdir EXCEPT ![dst[1]] = p]
            /\ pp_ref' = [pp_ref EXCEPT ![p] = @ + 1]
            /\ Done
       ELSE /\ pp' = p
            /\ pc' = "insert"
            /\ UNCHANGED <<pgdir, pp_ref, op, src, dst, swappable>>
  /\ UNCHANGED <<pde, pte, page_swap_queue, ste, sinfo_free, sd_bitmap, sd, tlb>>

\* pgdir_walk with create set.
TakeTable(p) ==
  /\ NeedsTable
  /\ PageReady
  /\ p \in page_free_list
  /\ page_free_list' = page_free_list \ {p}
  /\ mem' = [mem EXCEPT ![p] = Zero]
  /\ evict' = 0
  /\ pde' = [pde EXCEPT ![<<dst[1], Pdx[dst[2]]>>] = p]
  /\ pp_ref' = [pp_ref EXCEPT ![p] = @ + 1]
  /\ UNCHANGED <<pgdir, pte, page_swap_queue, ste, sinfo_free, sd_bitmap, sd,
                 tlb, pc, hvars>>

\* assert(p->pp_ref == 0), panic_on(*pte & PTE_V), panic_on(!(*pte & SWAPPED))
BackBroken(p, b) ==
  \/ pp_ref[p] # 0
  \/ \E v \in VP : ste[b][v] > 1 \/ (ste[b][v] = 1 /\ pte[v] \notin Block)

swap_back(p) ==
  LET b == pte[Operand] IN
  /\ NeedsSwapBack
  /\ PageReady
  /\ p \in page_free_list
  /\ IF BackBroken(p, b) THEN Panic("panic")
     ELSE
       /\ page_free_list' = page_free_list \ {p}
       /\ evict' = 0
       /\ mem' = read_page(p, b)
       /\ sd_bitmap' = sd_block_free(b)
       /\ pte' = [v \in VP |-> IF v \in Registered(b) THEN p ELSE pte[v]]
       /\ pp_ref' = [pp_ref EXCEPT ![p] = Cardinality(Registered(b))]
       /\ page_swap_queue' = page_swap_queue \union {p}
       /\ ste' = [ste EXCEPT ![b] = NoSinfo,
                             ![p] = [v \in VP |-> ste[p][v] + ste[b][v]]]
       /\ UNCHANGED <<pgdir, pde, sinfo_free, sd, tlb, pc, hvars>>

-----------------------------------------------------------------------------
(* The rest of the handlers *)

\* sys_mem_map: was the page at the destination swappable?
LookupDst ==
  /\ pc = "lookup_dst"
  /\ pte[dst] \notin Block
  /\ swappable' = (pte[dst] # None /\ Registered(pte[dst]) # {})
  /\ pc' = "lookup_src"
  /\ UNCHANGED <<kvars, dvars, tlb, op, src, dst, pp, evict>>

\* The source page, or -E_INVAL.
LookupSrc ==
  /\ pc = "lookup_src"
  /\ pte[src] \notin Block
  /\ IF pte[src] = None THEN Done
     ELSE /\ pp' = pte[src]
          /\ swappable' = IF op = "map" /\ src[2] = Ucow THEN swappable
                          ELSE Registered(pte[src]) # {}
          /\ pc' = "insert"
          /\ UNCHANGED <<op, src, dst>>
  /\ UNCHANGED <<kvars, dvars, tlb, evict>>

\* page_remove of a resident page, swap_unregister included.
page_remove(v) ==
  LET p == pte[v] IN
  /\ pp_ref' = page_decref(p)
  /\ page_free_list' = page_free_list \union FreedBy(p)
  /\ ste' = [ste EXCEPT ![p] = Unregistered(p, v)]
  /\ sinfo_free' = sinfo_free + SinfoBack(p, v)
  /\ page_swap_queue' = Dequeue(p, Unregistered(p, v))
  /\ pte' = [pte EXCEPT ![v] = None]
  /\ tlb' = tlb_invalidate({v})

\* sys_mem_unmap, and the body of env_free's loop over the page tables.
Remove ==
  /\ pc = "remove"
  /\ pte[dst] \notin Block
  /\ IF pte[dst] = None
       THEN UNCHANGED <<pp_ref, page_free_list, ste, sinfo_free, page_swap_queue, pte, tlb>>
       ELSE page_remove(dst)
  /\ Return
  /\ UNCHANGED <<pgdir, pde, sd_bitmap, dvars, evict>>

\* page_insert over another page.
InsertRemove ==
  /\ pc = "insert"
  /\ pte[dst] \in Page \ {pp}
  /\ page_remove(dst)
  /\ UNCHANGED <<pgdir, pde, sd_bitmap, dvars, pc, hvars, evict>>

\* Does the handler call swap_register after page_insert?
ToRegister_again ==
  CASE op = "alloc" -> TRUE
    [] op = "touch" -> dst[2] \notin Pinned
    [] OTHER        -> swappable
ToRegister ==
  CASE op = "alloc" -> TRUE
    [] op = "touch" -> dst[2] \notin Pinned
    [] OTHER        -> swappable /\ src # dst

\* swap_register(p, v)
swap_register(p, v) ==
  /\ sinfo_free' = sinfo_free - 1
  /\ page_swap_queue' = IF ste[p] = NoSinfo THEN page_swap_queue \union {p}
                        ELSE page_swap_queue
  /\ ste' = [ste EXCEPT ![p][v] = @ + 1]

\* The end of page_insert (a new mapping, or the same page again) and the
\* swap_register call that follows it.
Insert ==
  /\ pc = "insert"
  /\ pte[dst] = pp \/ (pte[dst] = None /\ Table(dst) # None)
  /\ IF ToRegister /\ sinfo_free = 0 THEN Panic("nosinfo")
     ELSE
       /\ pte' = [pte EXCEPT ![dst] = pp]
       /\ pp_ref' = IF pte[dst] = pp THEN pp_ref ELSE [pp_ref EXCEPT ![pp] = @ + 1]
       /\ tlb' = tlb_invalidate({dst})
       /\ IF ToRegister THEN swap_register(pp, dst)
          ELSE UNCHANGED <<sinfo_free, page_swap_queue, ste>>
       /\ Return
       /\ UNCHANGED <<page_free_list, pgdir, pde, sd_bitmap, dvars, evict>>

\* _do_tlb_refill: load the pair, or passive_alloc and look again.
do_tlb_refill ==
  /\ pc = "refill"
  /\ pte[dst] \notin Block
  /\ IF pte[dst] = None
       THEN pc' = "page_alloc" /\ UNCHANGED <<tlb, hvars>>
       ELSE /\ tlb' = [v \in VP |-> IF SamePair(v, dst)
                                      THEN IF pte[v] \in Page THEN pte[v] ELSE None
                                      ELSE tlb[v]]
            /\ Done
  /\ UNCHANGED <<kvars, dvars, evict>>

\* env_free: unmap what is mapped, free a table once it is empty, then the
\* page directory.
FreeVa(v) ==
  /\ pc = "free"
  /\ v[1] = dst[1]
  /\ StillMapped(v)
  /\ dst' = v
  /\ pc' = "remove"
  /\ UNCHANGED <<kvars, dvars, tlb, op, src, pp, swappable, evict>>

FreeTable(d) ==
  /\ pc = "free"
  /\ d[1] = dst[1]
  /\ pde[d] # None
  /\ \A v \in VP : v[1] = d[1] /\ Pdx[v[2]] = d[2] => ~StillMapped(v)
  /\ pde' = [pde EXCEPT ![d] = None]
  /\ pp_ref' = page_decref(pde[d])
  /\ page_free_list' = page_free_list \union FreedBy(pde[d])
  /\ UNCHANGED <<pgdir, pte, page_swap_queue, ste, sinfo_free, sd_bitmap,
                 dvars, tlb, pc, hvars, evict>>

FreeDir ==
  LET e == dst[1] IN
  /\ pc = "free"
  /\ \A r \in Region : pde[<<e, r>>] = None
  /\ pgdir' = [pgdir EXCEPT ![e] = None]
  /\ pp_ref' = page_decref(pgdir[e])
  /\ page_free_list' = page_free_list \union FreedBy(pgdir[e])
  /\ Done
  /\ UNCHANGED <<pde, pte, page_swap_queue, ste, sinfo_free, sd_bitmap,
                 dvars, tlb, evict>>

\* After a panic the machine spins.
Halted ==
  /\ pc \in {"panic", "nomem", "nodisk", "nosinfo"}
  /\ UNCHANGED vars

-----------------------------------------------------------------------------
Kernel ==
  \/ DiskFull
  \/ NoPageLeft
  \/ \E p \in Page : TakePage(p)
  \/ \E p \in Page : TakeTable(p)
  \/ \E p \in Page : swap_back(p)
  \/ LookupDst
  \/ LookupSrc
  \/ Remove
  \/ InsertRemove
  \/ Insert
  \/ do_tlb_refill
  \/ \E v \in VP : FreeVa(v)
  \/ \E d \in Pd : FreeTable(d)
  \/ FreeDir
  \/ Halted

User ==
  \/ \E d \in VP : sys_mem_alloc(d)
  \/ \E d \in VP : sys_mem_unmap(d)
  \/ \E s \in VP : \E d \in VP : sys_mem_map(s, d)
  \/ \E s \in VP : \E d \in VP : ipc_page(s, d)
  \/ \E d \in VP : TlbMiss(d)
  \/ \E v \in VP : \E x \in Data : Store(v, x)
  \/ \E v \in VP : tlbwr(v)
  \/ \E e \in Env : env_setup_vm(e)
  \/ \E e \in Env : env_free(e)

Next == User \/ Kernel \/ \E p \in Page : \E b \in Block : swap(p, b)

Spec == Init /\ [][Next]_vars

=============================================================================
