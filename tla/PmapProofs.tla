----------------------------- MODULE PmapProofs -----------------------------
(***************************************************************************)
(* PmapLib keeps its invariants for every number of environments, virtual  *)
(* pages, physical pages, disk blocks and SwapInfos.                       *)
(*                                                                         *)
(* The argument.  KInv is what the kernel structures say of each other; it *)
(* reads only kvars, so the steps that leave kvars alone keep it (KFrame). *)
(* The others change one page, one block or one virtual page; OneMore and  *)
(* OneLess follow the reference count, RegisteredIs the reverse map.       *)
(***************************************************************************)
EXTENDS PmapRefinement, FiniteSetTheorems, TLAPS

KInv ==
  RefCount /\ SwapTable /\ QueuedData /\ CowPrivate /\ Bitmap /\ SinfoPool /\ NoOrphans

-----------------------------------------------------------------------------
(* Finite sets and counting *)

\* The virtual pages and the directory entries are finitely many.
LEMMA FiniteVP == IsFiniteSet(VP) /\ IsFiniteSet(Pd)
  BY PmapFinite, FS_Product DEF VP, Pd, PmapFinite

\* Every subset of the virtual pages has a size.
LEMMA CardVP ==
  ASSUME NEW S, S \subseteq VP
  PROVE  IsFiniteSet(S) /\ Cardinality(S) \in Nat
  BY FiniteVP, FS_Subset, FS_CardinalityType

\* The sizes that RefCount adds up are numbers.
LEMMA Sizes ==
  ASSUME NEW x
  PROVE  /\ IsFiniteSet(Mapped(x)) /\ Cardinality(Mapped(x)) \in Nat
         /\ IsFiniteSet(Tables(x)) /\ Cardinality(Tables(x)) \in Nat
         /\ IsFiniteSet(Directories(x)) /\ Cardinality(Directories(x)) \in Nat
  <1>1. Mapped(x) \subseteq VP BY DEF Mapped
  <1>2. Tables(x) \subseteq Pd BY DEF Tables
  <1>3. Directories(x) \subseteq Env BY DEF Directories
  <1>4. QED BY <1>1, <1>2, <1>3, FiniteVP, PmapFinite, FS_Subset, FS_CardinalityType DEF PmapFinite

\* One element more, one element less.
LEMMA OneMore ==
  ASSUME NEW S, IsFiniteSet(S), NEW x, x \notin S
  PROVE  Cardinality(S \union {x}) = Cardinality(S) + 1
  BY FS_AddElement

\* One element less.
LEMMA OneLess ==
  ASSUME NEW S, IsFiniteSet(S), NEW x, x \in S
  PROVE  Cardinality(S \ {x}) = Cardinality(S) - 1
  BY FS_RemoveElement

-----------------------------------------------------------------------------
(* Consequences of the invariant *)

\* pp_ref is 0 exactly when nothing points to the page.
LEMMA ZeroRef ==
  ASSUME RefCount, NEW p \in Page
  PROVE  pp_ref[p] = 0 <=> Mapped(p) = {} /\ Tables(p) = {} /\ Directories(p) = {}
  <1>1. pp_ref[p] = Cardinality(Mapped(p)) + Cardinality(Tables(p)) + Cardinality(Directories(p))
    BY DEF RefCount
  <1>2. /\ Cardinality(Mapped(p)) \in Nat /\ (Cardinality(Mapped(p)) = 0 <=> Mapped(p) = {})
        /\ Cardinality(Tables(p)) \in Nat /\ (Cardinality(Tables(p)) = 0 <=> Tables(p) = {})
        /\ Cardinality(Directories(p)) \in Nat
        /\ Cardinality(Directories(p)) = 0 <=> Directories(p) = {}
    BY Sizes, FS_EmptySet
  <1>3. QED BY <1>1, <1>2

\* The same, after a step.
LEMMA ZeroRefNext ==
  ASSUME RefCount', NEW p \in Page
  PROVE  pp_ref'[p] = 0 <=> Mapped(p)' = {} /\ Tables(p)' = {} /\ Directories(p)' = {}
  <1>1. pp_ref'[p] = Cardinality(Mapped(p)') + Cardinality(Tables(p)')
                                             + Cardinality(Directories(p)')
    BY DEF RefCount
  <1>2. Mapped(p)' \subseteq VP BY DEF Mapped
  <1>3. Tables(p)' \subseteq Pd BY DEF Tables
  <1>4. Directories(p)' \subseteq Env BY DEF Directories
  <1>5. /\ IsFiniteSet(Mapped(p)') /\ IsFiniteSet(Tables(p)') /\ IsFiniteSet(Directories(p)')
    BY <1>2, <1>3, <1>4, FiniteVP, PmapFinite, FS_Subset DEF PmapFinite
  <1>6. /\ Cardinality(Mapped(p)') \in Nat /\ (Cardinality(Mapped(p)') = 0 <=> Mapped(p)' = {})
        /\ Cardinality(Tables(p)') \in Nat /\ (Cardinality(Tables(p)') = 0 <=> Tables(p)' = {})
        /\ Cardinality(Directories(p)') \in Nat
        /\ Cardinality(Directories(p)') = 0 <=> Directories(p)' = {}
    BY <1>5, FS_EmptySet, FS_CardinalityType
  <1>7. QED BY <1>1, <1>6

\* FreeList, told by reference counts: before a step and after it.
LEMMA FreeIsZero ==
  ASSUME RefCount, FreeList, NEW p \in Page
  PROVE  p \in page_free_list <=> pp_ref[p] = 0 /\ p \notin InFlight
  BY ZeroRef DEF FreeList

\* The converse, after a step.
LEMMA ZeroIsFree ==
  ASSUME RefCount',
         \A p \in Page : p \in page_free_list' <=> pp_ref'[p] = 0 /\ p \notin InFlight'
  PROVE  FreeList'
  <1>1. \A p \in Page : pp_ref'[p] = 0 <=>
          Mapped(p)' = {} /\ Tables(p)' = {} /\ Directories(p)' = {}
    BY ZeroRefNext
  <1>2. QED BY <1>1 DEF FreeList

\* The reverse map, read through SwapTable.
LEMMA RegisteredIs ==
  ASSUME TypeOK, SwapTable, QueuedData
  PROVE  /\ \A p \in Page : Registered(p) = {v \in Mapped(p) : p \in page_swap_queue /\ ~Bare(v)}
         /\ \A b \in Block : Registered(b) = Mapped(b)
         /\ \A p \in Page : Registered(p) # {} <=> p \in page_swap_queue
         /\ \A v \in VP : Swappable(v) <=> pte[v] \in page_swap_queue \union Block
  <1>1. \A p \in Page : Registered(p) = {v \in Mapped(p) : p \in page_swap_queue /\ ~Bare(v)}
    BY PmapDisjoint DEF Registered, Mapped, SwapTable, PmapDisjoint
  <1>2. \A b \in Block : Registered(b) = Mapped(b)
    BY PmapDisjoint DEF Registered, Mapped, SwapTable, PmapDisjoint
  <1>3. \A p \in Page : Registered(p) # {} <=> p \in page_swap_queue
    BY <1>1 DEF QueuedData
  <1>4. ASSUME NEW v \in VP PROVE Swappable(v) <=> pte[v] \in page_swap_queue \union Block
    <2>1. v \in Mapped(pte[v]) BY DEF Mapped
    <2>2. pte[v] \in Page \union Block \union {None} BY DEF TypeOK, Place
    <2>3. None \notin page_swap_queue \union Block BY PmapDisjoint DEF TypeOK, PmapDisjoint
    <2>4. Page \intersect Block = {} BY PmapDisjoint DEF PmapDisjoint
    <2>5. QED BY <1>2, <1>3, <2>1, <2>2, <2>3, <2>4 DEF Swappable, TypeOK
  <1>5. QED BY <1>1, <1>2, <1>3, <1>4

\* A queued page is mapped.
LEMMA QueuedIs ==
  ASSUME TypeOK, SwapTable, QueuedData, NEW p \in page_swap_queue
  PROVE  p \in Page /\ Mapped(p) # {} /\ Tables(p) = {} /\ Directories(p) = {}
  <1>1. p \in Page BY DEF TypeOK
  <1>2. Registered(p) \subseteq Mapped(p) /\ Registered(p) # {} BY <1>1, RegisteredIs
  <1>3. QED BY <1>1, <1>2 DEF QueuedData

\* SwapTable, entry by entry.
LEMMA EntryIs ==
  ASSUME SwapTable, NEW v \in VP, NEW p \in Page
  PROVE  /\ ste[p][v] \in {0, 1}
         /\ ste[p][v] = 1 => p \in page_swap_queue /\ pte[v] = p
         /\ p \in page_swap_queue /\ pte[v] = p /\ ste[p][v] = 0 => Copying(v)
  BY DEF SwapTable, Bare

\* The converse, after a step.
LEMMA SwapTableNext ==
  ASSUME \A v \in VP : \A p \in Page : ste'[p][v] \in {0, 1},
         \A v \in VP : \A p \in Page : ste'[p][v] = 1 => p \in page_swap_queue' /\ pte'[v] = p,
         \A v \in VP : \A p \in Page :
           p \in page_swap_queue' /\ pte'[v] = p /\ ste'[p][v] = 0 => Copying(v)',
         \A v \in VP : \A b \in Block : ste'[b][v] = IF pte'[v] = b THEN 1 ELSE 0,
         page_swap_queue' \subseteq Page
  PROVE  SwapTable'
  <1>1. \A v \in VP : \A p \in Page :
          ste'[p][v] = IF p \in page_swap_queue' /\ pte'[v] = p /\ ~Bare(v)' THEN 1 ELSE 0
    BY DEF Bare
  <1>2. \A v \in VP : Bare(v)' => Copying(v)' BY DEF Bare
  <1>3. QED BY <1>1, <1>2 DEF SwapTable

\* The virtual pages that hold a SwapInfo.
Pooled == {v \in VP : HasSinfo(v)}

\* Swappable, read through SwapTable after a step.
LEMMA SwappableNext ==
  ASSUME TypeOK', SwapTable', QueuedData', NEW v \in VP
  PROVE  Swappable(v)' <=> pte'[v] \in page_swap_queue' \union Block
  <1>1. v \in {w \in VP : pte'[w] = pte'[v]} OBVIOUS
  <1>2. pte'[v] \in Page \union Block \union {None} BY DEF TypeOK, Place
  <1>3. None \notin page_swap_queue' \union Block BY PmapDisjoint DEF TypeOK, PmapDisjoint
  <1>4. Page \intersect Block = {} BY PmapDisjoint DEF PmapDisjoint
  <1>5. Swappable(v)' <=> pte'[v] # None /\ {w \in VP : ste'[pte'[v]][w] > 0} # {}
    BY DEF Swappable, Registered
  <1>6. CASE pte'[v] \in Page
    <2>1. \A w \in VP : ste'[pte'[v]][w] > 0 => pte'[v] \in page_swap_queue'
      BY <1>6 DEF SwapTable
    <2>2. pte'[v] \in page_swap_queue' => {w \in VP : ste'[pte'[v]][w] > 0} # {}
      BY DEF QueuedData, Registered
    <2>3. QED BY <1>3, <1>4, <1>5, <1>6, <2>1, <2>2
  <1>7. CASE pte'[v] \in Block
    <2>1. ste'[pte'[v]][v] = 1 BY <1>7 DEF SwapTable
    <2>2. QED BY <1>3, <1>5, <1>7, <2>1
  <1>8. QED BY <1>2, <1>3, <1>5, <1>6, <1>7

\* Entries that were equal stay equal and the others stay different: what
\* cow_entry shares, and what the callers promised, stays.
LEMMA SameMappings ==
  ASSUME \A v, w \in VP : pte'[v] = pte'[w] <=> pte[v] = pte[w],
         \A v \in VP : pte'[v] = None <=> pte[v] = None
  PROVE  /\ \A v \in VP : Copying(v)' <=> Copying(v)
         /\ \A v \in VP : Mapped(pte[v])' = Mapped(pte[v])
         /\ CowPrivate => CowPrivate'
  <1>1. ASSUME NEW v \in VP PROVE Copying(v)' <=> Copying(v)
    <2>1. <<v[1], Ucow>> \in VP BY PmapLayout DEF VP, PmapLayout
    <2>2. QED BY <2>1 DEF Copying
  <1>2. \A v \in VP : Mapped(pte[v])' = Mapped(pte[v]) BY DEF Mapped
  <1>3. CowPrivate => CowPrivate' BY <1>2 DEF CowPrivate
  <1>4. QED BY <1>1, <1>2, <1>3

\* With the same pages swappable, the callers' promises stay.
LEMMA CallerSame ==
  ASSUME \A v, w \in VP : pte'[v] = pte'[w] <=> pte[v] = pte[w],
         \A v \in VP : pte'[v] = None <=> pte[v] = None,
         \A v \in VP : Swappable(v)' <=> Swappable(v)
  PROVE  /\ \A s, d \in VP : LibMap(s, d)' <=> LibMap(s, d)
         /\ \A s, d \in VP : LibIpc(s, d)' <=> LibIpc(s, d)
  <1>1. /\ \A v \in VP : Copying(v)' <=> Copying(v)
        /\ \A v \in VP : Mapped(pte[v])' = Mapped(pte[v])
    BY SameMappings
  <1>2. \A s, d \in VP : Another(s, d)' <=> Another(s, d) BY <1>1 DEF Another
  <1>3. \A s, d \in VP : LibMap(s, d)' <=> LibMap(s, d) BY <1>1, <1>2 DEF LibMap
  <1>4. QED BY <1>2, <1>3 DEF LibIpc

\* The steps that leave kvars alone keep what the structures say of each other.
LEMMA KFrame ==
  ASSUME KInv, UNCHANGED kvars
  PROVE  KInv'
  <1>1. /\ \A x : Mapped(x)' = Mapped(x)
        /\ \A x : Tables(x)' = Tables(x)
        /\ \A x : Directories(x)' = Directories(x)
        /\ \A x : Registered(x)' = Registered(x)
    BY DEF kvars, Mapped, Tables, Directories, Registered
  <1>2. {v \in VP : HasSinfo(v)}' = {v \in VP : HasSinfo(v)}
    BY DEF kvars, HasSinfo
  <1>3. RefCount' BY <1>1 DEF KInv, RefCount, kvars
  <1>4. SwapTable' BY DEF KInv, SwapTable, Bare, Copying, kvars
  <1>5. QueuedData' BY <1>1 DEF KInv, QueuedData, kvars
  <1>6. Bitmap' BY <1>1 DEF KInv, Bitmap, kvars
  <1>7. SinfoPool' BY <1>2 DEF KInv, SinfoPool, kvars
  <1>8. NoOrphans' BY DEF KInv, NoOrphans, Table, Alive, kvars
  <1>9. CowPrivate' BY <1>1 DEF KInv, CowPrivate, kvars
  <1>10. QED BY <1>3, <1>4, <1>5, <1>6, <1>7, <1>8, <1>9 DEF KInv

\* They keep the free list too, when the page in flight stays the same.
LEMMA FreeFrame ==
  ASSUME FreeList, NewPage, UNCHANGED kvars, InFlight' \subseteq InFlight,
         InFlight = {} \/ InFlight' = InFlight
  PROVE  FreeList' /\ NewPage'
  <1>1. /\ \A x : Mapped(x)' = Mapped(x)
        /\ \A x : Tables(x)' = Tables(x)
        /\ \A x : Directories(x)' = Directories(x)
    BY DEF kvars, Mapped, Tables, Directories
  <1>2. page_free_list' = page_free_list BY DEF kvars
  <1>3. InFlight' = InFlight OBVIOUS
  <1>4. QED BY <1>1, <1>2, <1>3 DEF FreeList, NewPage

\* And what the callers promised.
LEMMA CallerFrame ==
  ASSUME UNCHANGED kvars
  PROVE  /\ \A v \in VP : Swappable(v)' <=> Swappable(v)
         /\ \A s, d \in VP : LibMap(s, d)' <=> LibMap(s, d)
         /\ \A s, d \in VP : LibIpc(s, d)' <=> LibIpc(s, d)
         /\ \A e \in Env : Alive(e)' <=> Alive(e)
         /\ \A v \in VP : Copying(v)' <=> Copying(v)
         /\ \A x : Mapped(x)' = Mapped(x)
         /\ (\E v \in VP : Bare(v) /\ Copying(v)) => (\E v \in VP : Bare(v) /\ Copying(v))'
  <1>1. \A v \in VP : Swappable(v)' <=> Swappable(v) BY DEF kvars, Swappable, Registered
  <1>2. pte' = pte BY DEF kvars
  <1>3. /\ \A s, d \in VP : LibMap(s, d)' <=> LibMap(s, d)
        /\ \A s, d \in VP : LibIpc(s, d)' <=> LibIpc(s, d)
    BY <1>1, <1>2, CallerSame
  <1>4. \A v \in VP : Copying(v)' <=> Copying(v) BY <1>2, SameMappings
  <1>5. \A v \in VP : Bare(v)' <=> Bare(v) BY DEF kvars, Bare
  <1>6. \A x : Mapped(x)' = Mapped(x) BY <1>2 DEF Mapped
  <1>7. QED BY <1>1, <1>3, <1>4, <1>5, <1>6 DEF kvars, Alive

\* And what a handler knows, when its locals stay too.
LEMMA HandlerFrame ==
  ASSUME HandlerOp, HandlerLocals, HeldPage, CallerKept, UNCHANGED kvars,
         UNCHANGED <<pc, op, src, dst, pp, swappable>>
  PROVE  HeldPage' /\ CallerKept'
  <1>1. pc \in {"lookup_dst", "lookup_src", "insert"} => src \in VP /\ dst \in VP
    BY DEF HandlerOp, HandlerLocals
  <1>2. HeldPage' BY <1>1, CallerFrame DEF HeldPage, kvars
  <1>3. CallerKept' BY <1>1, CallerFrame DEF CallerKept
  <1>4. QED BY <1>2, <1>3

-----------------------------------------------------------------------------
(* System calls, traps and user code *)

\* Entering a handler changes none of the structures.
LEMMA EntryKeeps ==
  ASSUME IInv, NEW o, NEW s \in VP, NEW d \in VP, NEW where, Enter(o, s, d, where),
         o \in {"alloc", "map", "ipc", "unmap", "touch", "exofork", "free"},
         where \in {"page_alloc", "lookup_dst", "lookup_src", "remove", "refill", "free"},
         tlb' \in [VP -> Page \union {None}],
         \A v \in VP : tlb'[v] # None => tlb'[v] = tlb[v]
  PROVE  /\ TypeOK' /\ KInv' /\ FreeList' /\ TlbCoherent' /\ NoPanic' /\ NewPage'
         /\ HeldPage' /\ pp' = None /\ evict' = 0
  <1>1. UNCHANGED kvars BY DEF Enter
  <1>2. KInv' BY <1>1, KFrame DEF IInv, KInv
  <1>3. pp = None BY DEF IInv, HandlerInv, HandlerLocals, Enter
  <1>4. pp' = None BY <1>3 DEF Enter
  <1>5. InFlight = {} /\ InFlight' = {}
    BY <1>3, <1>4, PmapDisjoint DEF InFlight, PmapDisjoint
  <1>6. FreeList' /\ NewPage' BY <1>1, <1>5, FreeFrame DEF IInv, HandlerInv
  <1>7. TypeOK' BY DEF IInv, TypeOK, Enter, kvars, dvars
  <1>8. TlbCoherent' BY <1>1 DEF IInv, TlbCoherent, kvars
  <1>9. NoPanic' BY DEF NoPanic, Enter
  <1>10. HeldPage' BY DEF HeldPage, Enter
  <1>11. evict = 0
    <2>1. ~NeedsPage BY DEF Enter, NeedsPage, NeedsSwapBack, NeedsTable, Walking
    <2>2. QED BY <2>1 DEF IInv, TypeOK, HandlerInv, HandlerLocals, Enter
  <1>12. QED BY <1>2, <1>4, <1>6, <1>7, <1>8, <1>9, <1>10, <1>11 DEF Enter

\* tlb_invalidate drops entries and changes none.
LEMMA InvalidateDrops ==
  ASSUME TypeOK, NEW vs, tlb' = tlb_invalidate(vs)
  PROVE  /\ tlb' \in [VP -> Page \union {None}]
         /\ \A v \in VP : tlb'[v] # None => tlb'[v] = tlb[v]
         /\ \A v \in VP : v \in vs => tlb'[v] = None
  BY DEF TypeOK, tlb_invalidate, SamePair

\* Every system call, TLB miss, store and replaced TLB entry keeps the
\* invariant: none of them touches kvars.
LEMMA UserKeeps ==
  ASSUME IInv, LibUser
  PROVE  IInv'
  <1> USE DEF HandlerInv
  <1>t. TypeOK BY DEF IInv
  <1>0. ASSUME UNCHANGED tlb
        PROVE  /\ tlb' \in [VP -> Page \union {None}]
               /\ \A v \in VP : tlb'[v] # None => tlb'[v] = tlb[v]
    BY <1>0, <1>t DEF TypeOK
  <1>1. ASSUME NEW d \in VP, sys_mem_alloc(d) PROVE IInv'
    <2>1. Enter("alloc", d, d, "page_alloc") /\ UNCHANGED tlb /\ Alive(d[1])
      BY <1>1 DEF sys_mem_alloc
    <2>2. /\ TypeOK' /\ KInv' /\ FreeList' /\ TlbCoherent' /\ NoPanic' /\ NewPage'
          /\ HeldPage' /\ pp' = None /\ evict' = 0
      BY <1>0, <2>1, EntryKeeps
    <2>3. HandlerOp' BY <2>1 DEF Enter, HandlerOp
    <2>4. HandlerLocals' BY <2>1, <2>2 DEF Enter, HandlerLocals, Alive, kvars
    <2>5. CallerKept' BY <2>1 DEF Enter, CallerKept
    <2>6. QED BY <2>2, <2>3, <2>4, <2>5 DEF IInv, KInv
  <1>2. ASSUME NEW d \in VP, sys_mem_unmap(d) PROVE IInv'
    <2>1. Enter("unmap", d, d, "remove") /\ UNCHANGED tlb /\ Alive(d[1])
      BY <1>2 DEF sys_mem_unmap
    <2>2. /\ TypeOK' /\ KInv' /\ FreeList' /\ TlbCoherent' /\ NoPanic' /\ NewPage'
          /\ HeldPage' /\ pp' = None /\ evict' = 0
      BY <1>0, <2>1, EntryKeeps
    <2>3. HandlerOp' BY <2>1 DEF Enter, HandlerOp
    <2>4. HandlerLocals' BY <2>1, <2>2 DEF Enter, HandlerLocals, Alive, kvars
    <2>5. CallerKept' BY <2>1 DEF Enter, CallerKept
    <2>6. QED BY <2>2, <2>3, <2>4, <2>5 DEF IInv, KInv
  <1>3. ASSUME NEW s \in VP, NEW d \in VP, LibMap(s, d), sys_mem_map(s, d) PROVE IInv'
    <2>1. Enter("map", s, d, "lookup_dst") /\ UNCHANGED tlb /\ Alive(d[1])
      BY <1>3 DEF sys_mem_map
    <2>2. /\ TypeOK' /\ KInv' /\ FreeList' /\ TlbCoherent' /\ NoPanic' /\ NewPage'
          /\ HeldPage' /\ pp' = None /\ evict' = 0
      BY <1>0, <2>1, EntryKeeps
    <2>3. HandlerOp' BY <2>1 DEF Enter, HandlerOp
    <2>4. HandlerLocals' BY <2>1, <2>2 DEF Enter, HandlerLocals, Alive, kvars
    <2>5. LibMap(s, d)' BY <1>3, <2>1, CallerFrame DEF Enter
    <2>6. src' = s /\ dst' = d /\ pc' = "lookup_dst" /\ op' = "map" BY <2>1 DEF Enter
    <2>7. CallerKept' BY <2>5, <2>6 DEF CallerKept
    <2>8. QED BY <2>2, <2>3, <2>4, <2>7 DEF IInv, KInv
  <1>4. ASSUME NEW s \in VP, NEW d \in VP, LibIpc(s, d), ipc_page(s, d) PROVE IInv'
    <2>1. Enter("ipc", s, d, "lookup_src") /\ UNCHANGED tlb /\ Alive(d[1])
      BY <1>4 DEF ipc_page
    <2>2. /\ TypeOK' /\ KInv' /\ FreeList' /\ TlbCoherent' /\ NoPanic' /\ NewPage'
          /\ HeldPage' /\ pp' = None /\ evict' = 0
      BY <1>0, <2>1, EntryKeeps
    <2>3. HandlerOp' BY <2>1 DEF Enter, HandlerOp
    <2>4. HandlerLocals' BY <2>1, <2>2 DEF Enter, HandlerLocals, Alive, kvars
    <2>5. LibIpc(s, d)' BY <1>4, <2>1, CallerFrame DEF Enter
    <2>6. src' = s /\ dst' = d /\ pc' = "lookup_src" /\ op' = "ipc" BY <2>1 DEF Enter
    <2>7. CallerKept' BY <2>5, <2>6 DEF CallerKept
    <2>8. QED BY <2>2, <2>3, <2>4, <2>7 DEF IInv, KInv
  <1>5. ASSUME NEW d \in VP, TlbMiss(d) PROVE IInv'
    <2>1. Enter("touch", d, d, "refill") /\ tlb' = tlb_invalidate({d}) /\ Alive(d[1])
      BY <1>5 DEF TlbMiss
    <2>2. /\ TypeOK' /\ KInv' /\ FreeList' /\ TlbCoherent' /\ NoPanic' /\ NewPage'
          /\ HeldPage' /\ pp' = None /\ evict' = 0
      BY <1>t, <2>1, InvalidateDrops, EntryKeeps
    <2>3. HandlerOp' BY <2>1 DEF Enter, HandlerOp
    <2>4. HandlerLocals' BY <2>1, <2>2 DEF Enter, HandlerLocals, Alive, kvars
    <2>5. CallerKept' BY <2>1 DEF Enter, CallerKept
    <2>6. QED BY <2>2, <2>3, <2>4, <2>5 DEF IInv, KInv
  <1>6. ASSUME NEW e \in Env, env_setup_vm(e) PROVE IInv'
    <2>0. <<e, Ucow>> \in VP BY PmapLayout DEF VP, PmapLayout
    <2>1. /\ Enter("exofork", <<e, Ucow>>, <<e, Ucow>>, "page_alloc")
          /\ UNCHANGED tlb /\ ~Alive(e)
      BY <1>6 DEF env_setup_vm
    <2>2. /\ TypeOK' /\ KInv' /\ FreeList' /\ TlbCoherent' /\ NoPanic' /\ NewPage'
          /\ HeldPage' /\ pp' = None /\ evict' = 0
      BY <1>0, <2>0, <2>1, EntryKeeps
    <2>3. HandlerOp' BY <2>1 DEF Enter, HandlerOp
    <2>4. HandlerLocals' BY <2>0, <2>1, <2>2 DEF Enter, HandlerLocals, Alive, kvars
    <2>5. CallerKept' BY <2>1 DEF Enter, CallerKept
    <2>6. QED BY <2>2, <2>3, <2>4, <2>5 DEF IInv, KInv
  <1>7. ASSUME NEW e \in Env, env_free(e) PROVE IInv'
    <2>0. <<e, Ucow>> \in VP BY PmapLayout DEF VP, PmapLayout
    <2>1. /\ Enter("free", <<e, Ucow>>, <<e, Ucow>>, "free")
          /\ UNCHANGED tlb /\ Alive(e)
      BY <1>7 DEF env_free
    <2>2. /\ TypeOK' /\ KInv' /\ FreeList' /\ TlbCoherent' /\ NoPanic' /\ NewPage'
          /\ HeldPage' /\ pp' = None /\ evict' = 0
      BY <1>0, <2>0, <2>1, EntryKeeps
    <2>3. HandlerOp' BY <2>1 DEF Enter, HandlerOp
    <2>4. HandlerLocals' BY <2>0, <2>1, <2>2 DEF Enter, HandlerLocals, Alive, kvars
    <2>5. CallerKept' BY <2>1 DEF Enter, CallerKept
    <2>6. QED BY <2>2, <2>3, <2>4, <2>5 DEF IInv, KInv
  <1>8. ASSUME UNCHANGED <<kvars, sd, pc, hvars, evict>>,
               mem' \in [Page -> Data],
               tlb' \in [VP -> Page \union {None}],
               \A v \in VP : tlb'[v] # None => tlb'[v] = tlb[v]
        PROVE  IInv'
    <2>1. UNCHANGED kvars /\ UNCHANGED <<pc, op, src, dst, pp, swappable, evict, sd>>
      BY <1>8 DEF hvars
    <2>2. KInv' BY <2>1, KFrame DEF IInv, KInv
    <2>3. InFlight' = InFlight BY <2>1 DEF InFlight
    <2>4. FreeList' /\ NewPage' BY <2>1, <2>3, FreeFrame DEF IInv
    <2>5. TypeOK' BY <1>8, <2>1 DEF IInv, TypeOK, kvars
    <2>6. TlbCoherent' BY <1>8, <2>1 DEF IInv, TlbCoherent, kvars
    <2>7. NoPanic' /\ HandlerOp' BY <2>1, CallerFrame DEF IInv, NoPanic, HandlerOp
    <2>8. HandlerLocals'
      BY <2>1 DEF IInv, HandlerLocals, Alive, kvars, NeedsPage, NeedsSwapBack, NeedsTable,
                  Walking, Operand, Table
    <2>9. HeldPage' /\ CallerKept' BY <2>1, HandlerFrame DEF IInv
    <2>10. QED BY <2>2, <2>4, <2>5, <2>6, <2>7, <2>8, <2>9 DEF IInv, KInv
  <1>9. ASSUME NEW v \in VP, NEW x \in Data, Store(v, x) PROVE IInv'
    <2>1. mem' \in [Page -> Data] BY <1>9, <1>t DEF Store, TypeOK
    <2>2. QED BY <1>0, <1>8, <1>9, <2>1 DEF Store
  <1>10. ASSUME NEW v \in VP, tlbwr(v) PROVE IInv'
    <2>1. mem' \in [Page -> Data] BY <1>10, <1>t DEF tlbwr, dvars, TypeOK
    <2>2. tlb' = tlb_invalidate({v}) BY <1>10 DEF tlbwr
    <2>3. QED BY <1>8, <1>10, <1>t, <2>1, <2>2, InvalidateDrops DEF tlbwr, dvars
  <1>11. QED BY <1>1, <1>2, <1>3, <1>4, <1>5, <1>6, <1>7, <1>9, <1>10 DEF LibUser

-----------------------------------------------------------------------------
(* The steps of the handlers that change none of the structures *)

\* A panic keeps the invariant; a failed panic_on where NoPanic allows it.
LEMMA PanicKeeps ==
  ASSUME IInv, NEW why \in {"panic", "nomem", "nodisk", "nosinfo", "held"}, Panic(why),
         why = "panic" => \E v \in VP : Bare(v) /\ Copying(v)
  PROVE  IInv'
  <1> USE DEF HandlerInv
  <1>1. /\ UNCHANGED kvars /\ UNCHANGED <<mem, sd, tlb, op, src, dst, pp, swappable, evict>>
        /\ pc' = why
    BY DEF Panic, hvars, dvars
  <1>2. KInv' BY <1>1, KFrame DEF IInv, KInv
  <1>3. InFlight' = InFlight BY <1>1 DEF InFlight
  <1>4. FreeList' /\ NewPage' BY <1>1, <1>3, FreeFrame DEF IInv
  <1>5. TypeOK' BY <1>1 DEF IInv, TypeOK, kvars
  <1>6. TlbCoherent' BY <1>1 DEF IInv, TlbCoherent, kvars
  <1>7. NoPanic' /\ HandlerOp' BY <1>1, CallerFrame DEF IInv, NoPanic, HandlerOp
  <1>8. HandlerLocals' BY <1>1 DEF IInv, HandlerLocals
  <1>9. HeldPage' /\ CallerKept' BY <1>1 DEF HeldPage, CallerKept
  <1>10. QED BY <1>2, <1>4, <1>5, <1>6, <1>7, <1>8, <1>9 DEF IInv, KInv

\* A spinning machine keeps the invariant.
LEMMA StutterKeeps ==
  ASSUME IInv, UNCHANGED vars
  PROVE  IInv'
  <1> USE DEF HandlerInv
  <1>1. /\ UNCHANGED kvars
        /\ UNCHANGED <<mem, sd, tlb, pc, op, src, dst, pp, swappable, evict>>
    BY DEF vars, hvars, dvars
  <1>2. KInv' BY <1>1, KFrame DEF IInv, KInv
  <1>3. InFlight' = InFlight BY <1>1 DEF InFlight
  <1>4. FreeList' /\ NewPage' BY <1>1, <1>3, FreeFrame DEF IInv
  <1>5. TypeOK' BY <1>1 DEF IInv, TypeOK, kvars
  <1>6. TlbCoherent' BY <1>1 DEF IInv, TlbCoherent, kvars
  <1>7. NoPanic' /\ HandlerOp' BY <1>1, CallerFrame DEF IInv, NoPanic, HandlerOp
  <1>8. HandlerLocals'
    BY <1>1 DEF IInv, HandlerLocals, Alive, kvars, NeedsPage, NeedsSwapBack, NeedsTable,
                Walking, Operand, Table
  <1>9. HeldPage' /\ CallerKept' BY <1>1, HandlerFrame DEF IInv
  <1>10. QED BY <1>2, <1>4, <1>5, <1>6, <1>7, <1>8, <1>9 DEF IInv, KInv

\* sys_mem_map's first lookup sets the flag and nothing else.
LEMMA LookupDstKeeps ==
  ASSUME IInv, LookupDst
  PROVE  IInv'
  <1> USE DEF HandlerInv
  <1>1. /\ UNCHANGED kvars /\ UNCHANGED <<mem, sd, tlb, op, src, dst, pp, evict>>
        /\ pc = "lookup_dst" /\ pc' = "lookup_src" /\ op = "map"
        /\ swappable' = (pte[dst] # None /\ Registered(pte[dst]) # {})
    BY DEF LookupDst, dvars, IInv, HandlerOp
  <1>2. KInv' BY <1>1, KFrame DEF IInv, KInv
  <1>3. InFlight' = InFlight BY <1>1 DEF InFlight
  <1>4. FreeList' /\ NewPage' BY <1>1, <1>3, FreeFrame DEF IInv
  <1>5. TypeOK' BY <1>1 DEF IInv, TypeOK, kvars
  <1>6. TlbCoherent' BY <1>1 DEF IInv, TlbCoherent, kvars
  <1>7. NoPanic' /\ HandlerOp' BY <1>1 DEF IInv, NoPanic, HandlerOp
  <1>8. HandlerLocals'
    <2>1. ~NeedsPage
      BY <1>1 DEF LookupDst, NeedsPage, NeedsSwapBack, NeedsTable, Walking, Operand
    <2>2. QED BY <1>1, <2>1 DEF IInv, TypeOK, HandlerLocals, Alive, kvars
  <1>9. HeldPage' BY <1>1 DEF HeldPage
  <1>10. CallerKept'
    <2>1. src \in VP /\ dst \in VP BY <1>1 DEF IInv, HandlerLocals
    <2>2. LibMap(src, dst) BY <1>1 DEF IInv, CallerKept
    <2>3. LibMap(src, dst)' BY <1>1, <2>1, <2>2, CallerFrame
    <2>4. QED BY <1>1, <2>3 DEF CallerKept
  <1>11. QED BY <1>2, <1>4, <1>5, <1>6, <1>7, <1>8, <1>9, <1>10 DEF IInv, KInv

\* The lookup of the source: the flag tells whether the page found is queued.
LEMMA LookupSrcKeeps ==
  ASSUME IInv, LookupSrc
  PROVE  IInv'
  <1> USE DEF HandlerInv
  <1>1. /\ UNCHANGED kvars /\ UNCHANGED <<mem, sd, tlb, evict>>
        /\ pc = "lookup_src" /\ op \in {"map", "ipc"} /\ pp = None
        /\ src \in VP /\ dst \in VP /\ pte[src] \notin Block
    BY DEF LookupSrc, dvars, IInv, HandlerOp, HandlerLocals
  <1>2. KInv' BY <1>1, KFrame DEF IInv, KInv
  <1>3. TlbCoherent' BY <1>1 DEF IInv, TlbCoherent, kvars
  <1>4. evict = 0
    <2>1. ~NeedsPage
      BY <1>1 DEF NeedsPage, NeedsSwapBack, NeedsTable, Walking, Operand
    <2>2. QED BY <1>1, <2>1 DEF IInv, TypeOK, HandlerLocals
  <1>5. CASE pte[src] = None
    <2>1. Done BY <1>5 DEF LookupSrc
    <2>2. InFlight = {} /\ InFlight' = {} BY <1>1, <2>1 DEF Done, InFlight
    <2>3. FreeList' /\ NewPage' BY <1>1, <2>2, FreeFrame DEF IInv
    <2>4. TypeOK' BY <1>1, <2>1 DEF IInv, TypeOK, kvars, Done
    <2>5. NoPanic' /\ HandlerOp' BY <2>1 DEF NoPanic, HandlerOp, Done
    <2>6. HandlerLocals' BY <1>1, <1>4, <2>1 DEF HandlerLocals, Done
    <2>7. HeldPage' /\ CallerKept' BY <2>1 DEF HeldPage, CallerKept, Done
    <2>8. QED BY <1>2, <1>3, <2>3, <2>4, <2>5, <2>6, <2>7 DEF IInv, KInv
  <1>6. CASE pte[src] # None
    <2>1. /\ pp' = pte[src] /\ pc' = "insert" /\ UNCHANGED <<op, src, dst>>
          /\ swappable' = IF op = "map" /\ src[2] = Ucow THEN swappable
                          ELSE Registered(pte[src]) # {}
      BY <1>6 DEF LookupSrc
    <2>2. InFlight = {} /\ InFlight' = {} BY <1>1, <2>1 DEF InFlight
    <2>3. FreeList' /\ NewPage' BY <1>1, <2>2, FreeFrame DEF IInv
    <2>4. pte[src] \in Page BY <1>1, <1>6 DEF IInv, TypeOK, Place
    <2>5. TypeOK' BY <1>1, <2>1, <2>4 DEF IInv, TypeOK, kvars
    <2>6. NoPanic' /\ HandlerOp' BY <1>1, <2>1 DEF NoPanic, HandlerOp
    <2>7. HandlerLocals' BY <1>1, <1>4, <2>1, <2>4 DEF IInv, HandlerLocals, Alive, kvars
    <2>8. CallerKept' BY <2>1 DEF CallerKept
    <2>9. HeldPage'
      <3>1. /\ Registered(pte[src]) # {} <=> pte[src] \in page_swap_queue
            /\ Swappable(src) => pte[src] \in page_swap_queue
        BY <1>1, <2>4, RegisteredIs DEF IInv
      <3>2. /\ \A v \in VP : Copying(v)' <=> Copying(v)
            /\ Mapped(pte[src])' = Mapped(pte[src])
            /\ pte' = pte /\ page_swap_queue' = page_swap_queue
        BY <1>1, <2>1, CallerFrame, SameMappings DEF kvars
      <3>3. CASE Another(src, dst)
        <4>1. /\ src[2] # Ucow /\ dst[2] # Ucow /\ ~Copying(src) /\ pte[dst] # pte[src]
          BY <1>6, <3>3 DEF Another
        <4>2. swappable' <=> pte[src] \in page_swap_queue BY <2>1, <3>1, <4>1
        <4>3. QED BY <1>1, <2>1, <3>2, <4>1, <4>2 DEF HeldPage
      <3>4. CASE src = dst BY <1>1, <2>1, <3>2, <3>4 DEF HeldPage
      <3>5. CASE /\ op = "map" /\ src[2] = Ucow /\ dst[2] # Ucow /\ src[1] = dst[1]
                 /\ Swappable(src) /\ Mapped(pte[src]) = {src}
        <4>1. src # dst BY <3>5
        <4>2. pte[dst] # pte[src] BY <1>1, <3>5, <4>1 DEF Mapped
        <4>3. pte[src] \in page_swap_queue BY <3>1, <3>5
        <4>4. Mapped(pp)' = {src'}
          <5>1. Mapped(pp)' = {v \in VP : pte'[v] = pp'} BY DEF Mapped
          <5>2. Mapped(pte[src]) = {v \in VP : pte[v] = pte[src]} BY DEF Mapped
          <5>3. QED BY <2>1, <3>2, <3>5, <5>1, <5>2
        <4>5. QED BY <1>1, <2>1, <3>2, <3>5, <4>2, <4>3, <4>4 DEF HeldPage
      <3>6. QED BY <1>1, <3>3, <3>4, <3>5 DEF IInv, CallerKept, LibMap, LibIpc
    <2>10. QED BY <1>2, <1>3, <2>3, <2>5, <2>6, <2>7, <2>8, <2>9 DEF IInv, KInv
  <1>7. QED BY <1>5, <1>6

\* _do_tlb_refill: the pair it loads is read from the page table.
LEMMA RefillKeeps ==
  ASSUME IInv, do_tlb_refill
  PROVE  IInv'
  <1> USE DEF HandlerInv
  <1>1. /\ UNCHANGED kvars /\ UNCHANGED <<mem, sd, evict>>
        /\ pc = "refill" /\ op = "touch" /\ pp = None
        /\ src \in VP /\ dst \in VP /\ pte[dst] \notin Block
    BY DEF do_tlb_refill, dvars, IInv, HandlerOp, HandlerLocals
  <1>2. KInv' BY <1>1, KFrame DEF IInv, KInv
  <1>3. evict = 0
    <2>1. ~NeedsPage
      BY <1>1 DEF NeedsPage, NeedsSwapBack, NeedsTable, Walking, Operand
    <2>2. QED BY <1>1, <2>1 DEF IInv, TypeOK, HandlerLocals
  <1>4. InFlight = {} BY <1>1, PmapDisjoint DEF InFlight, PmapDisjoint
  <1>5. CASE pte[dst] = None
    <2>1. pc' = "page_alloc" /\ UNCHANGED <<tlb, op, src, dst, pp, swappable>>
      BY <1>5 DEF do_tlb_refill, hvars
    <2>2. InFlight' = {} BY <1>4, <2>1 DEF InFlight
    <2>3. FreeList' /\ NewPage' BY <1>1, <1>4, <2>2, FreeFrame DEF IInv
    <2>4. TypeOK' BY <1>1, <2>1 DEF IInv, TypeOK, kvars
    <2>5. TlbCoherent' BY <1>1, <2>1 DEF IInv, TlbCoherent, kvars
    <2>6. NoPanic' /\ HandlerOp' BY <1>1, <2>1 DEF NoPanic, HandlerOp
    <2>7. HandlerLocals' BY <1>1, <1>3, <2>1 DEF IInv, HandlerLocals, Alive, kvars
    <2>8. HeldPage' /\ CallerKept' BY <2>1 DEF HeldPage, CallerKept
    <2>9. QED BY <1>2, <2>3, <2>4, <2>5, <2>6, <2>7, <2>8 DEF IInv, KInv
  <1>6. CASE pte[dst] # None
    <2>1. /\ tlb' = [v \in VP |-> IF SamePair(v, dst)
                                    THEN IF pte[v] \in Page THEN pte[v] ELSE None
                                    ELSE tlb[v]]
          /\ Done
      BY <1>6 DEF do_tlb_refill
    <2>2. InFlight' = {} BY <2>1 DEF InFlight, Done
    <2>3. FreeList' /\ NewPage' BY <1>1, <1>4, <2>2, FreeFrame DEF IInv
    <2>4. TypeOK' BY <1>1, <2>1 DEF IInv, TypeOK, kvars, Done
    <2>5. TlbCoherent' BY <1>1, <2>1 DEF IInv, TlbCoherent, kvars
    <2>6. NoPanic' /\ HandlerOp' BY <2>1 DEF NoPanic, HandlerOp, Done
    <2>7. HandlerLocals' BY <1>1, <1>3, <2>1 DEF HandlerLocals, Done
    <2>8. HeldPage' /\ CallerKept' BY <2>1 DEF HeldPage, CallerKept, Done
    <2>9. QED BY <1>2, <2>3, <2>4, <2>5, <2>6, <2>7, <2>8 DEF IInv, KInv
  <1>7. QED BY <1>5, <1>6

\* env_free goes on to the next mapped virtual page.
LEMMA FreeVaKeeps ==
  ASSUME IInv, NEW v \in VP, FreeVa(v)
  PROVE  IInv'
  <1> USE DEF HandlerInv
  <1>1. /\ UNCHANGED kvars /\ UNCHANGED <<mem, sd, tlb, op, src, pp, swappable, evict>>
        /\ pc = "free" /\ op = "free" /\ pp = None /\ src \in VP /\ v[1] = dst[1]
        /\ dst' = v /\ pc' = "remove"
    BY DEF FreeVa, dvars, IInv, HandlerOp, HandlerLocals
  <1>2. KInv' BY <1>1, KFrame DEF IInv, KInv
  <1>3. evict = 0
    <2>1. ~NeedsPage BY <1>1 DEF NeedsPage, NeedsSwapBack, NeedsTable, Walking
    <2>2. QED BY <1>1, <2>1 DEF IInv, TypeOK, HandlerLocals
  <1>4. InFlight = {} /\ InFlight' = {} BY <1>1 DEF InFlight
  <1>5. FreeList' /\ NewPage' BY <1>1, <1>4, FreeFrame DEF IInv
  <1>6. TypeOK' BY <1>1 DEF IInv, TypeOK, kvars
  <1>7. TlbCoherent' BY <1>1 DEF IInv, TlbCoherent, kvars
  <1>8. NoPanic' /\ HandlerOp' BY <1>1 DEF NoPanic, HandlerOp
  <1>9. HandlerLocals' BY <1>1, <1>3 DEF IInv, HandlerLocals, Alive, kvars
  <1>10. HeldPage' /\ CallerKept' BY <1>1 DEF HeldPage, CallerKept
  <1>11. QED BY <1>2, <1>5, <1>6, <1>7, <1>8, <1>9, <1>10 DEF IInv, KInv

-----------------------------------------------------------------------------
(* swap() and swap_back() *)

\* swap() of a queued page finds all its mappings among its SwapInfos, unless
\* cow_entry has just made one that has none.
LEMMA SwapSound ==
  ASSUME IInv, NEW p \in page_swap_queue
  PROVE  /\ ~SwapBroken(p) => Registered(p) = Mapped(p)
         /\ SwapBroken(p) => \E v \in VP : Bare(v) /\ Copying(v)
  <1>1. p \in Page BY DEF IInv, TypeOK
  <1>2. Registered(p) = {v \in Mapped(p) : ~Bare(v)} BY <1>1, RegisteredIs DEF IInv
  <1>3. pp_ref[p] = Cardinality(Mapped(p))
    <2>1. Tables(p) = {} /\ Directories(p) = {} BY DEF IInv, QueuedData
    <2>2. pp_ref[p] = Cardinality(Mapped(p)) + 0 + 0
      BY <1>1, <2>1, FS_EmptySet DEF IInv, RefCount
    <2>3. QED BY <2>2, Sizes
  <1>4. ASSUME ~SwapBroken(p) PROVE Registered(p) = Mapped(p)
    <2>1. Cardinality(Registered(p)) = Cardinality(Mapped(p)) BY <1>3, <1>4 DEF SwapBroken
    <2>2. Registered(p) \subseteq Mapped(p) BY <1>2
    <2>3. QED BY <2>1, <2>2, Sizes, FS_Subset
  <1>5. ASSUME SwapBroken(p) PROVE \E v \in VP : Bare(v) /\ Copying(v)
    <2>1. \A v \in VP : ~(ste[p][v] > 1 \/ (ste[p][v] = 1 /\ pte[v] \notin Page))
      BY <1>1 DEF IInv, SwapTable
    <2>2. Registered(p) # Mapped(p) BY <1>3, <1>5, <2>1 DEF SwapBroken
    <2>3. PICK v \in Mapped(p) : Bare(v) BY <1>2, <2>2
    <2>4. v \in VP BY DEF Mapped
    <2>5. Copying(v) BY <2>3, <2>4 DEF IInv, SwapTable
    <2>6. QED BY <2>3, <2>4, <2>5
  <1>6. QED BY <1>4, <1>5

\* swap() that stops at a failed panic_on.
LEMMA SwapPanicKeeps ==
  ASSUME IInv, NEW p \in Page, NEW b \in Block, LibSwap(p, b), SwapBroken(p)
  PROVE  IInv'
  <1>1. p \in page_swap_queue /\ Panic("panic") BY DEF LibSwap, swap
  <1>2. \E v \in VP : Bare(v) /\ Copying(v) BY <1>1, SwapSound
  <1>3. QED BY <1>1, <1>2, PanicKeeps

\* An eviction moves the mappings of one page to one block, and the handler
\* that asked for it finds its own operands as it left them.
LEMMA SwapKeeps ==
  ASSUME IInv, NEW p \in Page, NEW b \in Block, LibSwap(p, b), ~SwapBroken(p)
  PROVE  IInv'
  <1> USE DEF HandlerInv
  <1>t. TypeOK BY DEF IInv
  <1>d. /\ None \notin Page /\ None \notin Block /\ Page \intersect Block = {}
    BY PmapDisjoint DEF PmapDisjoint
  <1>1. /\ p \in page_swap_queue /\ b \notin sd_bitmap /\ Evicting /\ p # pp
    BY DEF LibSwap, swap
  <1>2. ~SwapBroken(p) /\ Registered(p) = Mapped(p) BY <1>1, SwapSound
  <1>3. /\ evict' = (IF evict = 0 THEN NSWAP ELSE evict) - 1
        /\ sd_bitmap' = sd_bitmap \union {b}
        /\ sd' = [sd EXCEPT ![b] = mem[p]]
        /\ pte' = [v \in VP |-> IF v \in Registered(p) THEN b ELSE pte[v]]
        /\ tlb' = tlb_invalidate(Registered(p))
        /\ pp_ref' = [pp_ref EXCEPT ![p] = 0]
        /\ ste' = [ste EXCEPT ![p] = NoSinfo, ![b] = [v \in VP |-> ste[b][v] + ste[p][v]]]
        /\ page_swap_queue' = page_swap_queue \ {p}
        /\ page_free_list' = page_free_list \union {p}
        /\ UNCHANGED <<pgdir, pde, sinfo_free, mem, pc, op, src, dst, pp, swappable>>
    BY <1>2 DEF LibSwap, swap, write_page, hvars
  <1>4. Mapped(b) = {} BY <1>1 DEF IInv, Bitmap
  <1>5. \A v \in VP : /\ pte[v] # b
                      /\ pte'[v] = IF pte[v] = p THEN b ELSE pte[v]
    BY <1>2, <1>3, <1>4 DEF Mapped
  <1>6. /\ Mapped(p)' = {} /\ Mapped(b)' = Mapped(p)
        /\ \A x : x # p /\ x # b => Mapped(x)' = Mapped(x)
    BY <1>5, <1>d DEF Mapped
  <1>7. /\ \A x : Tables(x)' = Tables(x)
        /\ \A x : Directories(x)' = Directories(x)
    BY <1>3 DEF Tables, Directories
  <1>8. /\ Mapped(p) # {} /\ Tables(p) = {} /\ Directories(p) = {}
    BY <1>1, QueuedIs DEF IInv
  <1>s. /\ \A v, w \in VP : pte'[v] = pte'[w] <=> pte[v] = pte[w]
        /\ \A v \in VP : pte'[v] = None <=> pte[v] = None
    BY <1>5, <1>d
  <1>c. /\ CowPrivate' /\ \A v \in VP : Copying(v)' <=> Copying(v)
    BY <1>s, SameMappings DEF IInv
  <1>9. TypeOK'
    <2>1. evict' \in 0..NSWAP BY <1>t, <1>3, PmapBounds DEF TypeOK, PmapBounds
    <2>2. pte' \in [VP -> Place \union {None}] BY <1>t, <1>3 DEF TypeOK, Place
    <2>3. tlb' \in [VP -> Page \union {None}] BY <1>t, <1>3, InvalidateDrops
    <2>4. ste' \in [Place -> [VP -> Nat]]
      <3>1. NoSinfo \in [VP -> Nat] BY DEF NoSinfo
      <3>2. [v \in VP |-> ste[b][v] + ste[p][v]] \in [VP -> Nat] BY <1>t DEF TypeOK, Place
      <3>3. QED BY <1>t, <1>3, <3>1, <3>2 DEF TypeOK
    <2>5. pp_ref' \in [Page -> Nat] BY <1>t, <1>3 DEF TypeOK
    <2>6. sd' \in [Block -> Data] BY <1>t, <1>3 DEF TypeOK
    <2>7. /\ page_free_list' \subseteq Page /\ page_swap_queue' \subseteq Page
          /\ sd_bitmap' \subseteq Block
      BY <1>t, <1>3 DEF TypeOK
    <2>8. UNCHANGED <<pgdir, pde, sinfo_free, mem, pc, op, src, dst, pp, swappable>> BY <1>3
    <2>9. QED BY <1>t, <2>1, <2>2, <2>3, <2>4, <2>5, <2>6, <2>7, <2>8 DEF TypeOK
  <1>10. RefCount'
    <2>1. ASSUME NEW q \in Page
          PROVE  pp_ref'[q] = Cardinality(Mapped(q)') + Cardinality(Tables(q)')
                                                      + Cardinality(Directories(q)')
      <3>1. CASE q = p
        <4>1. pp_ref'[q] = 0 BY <1>t, <1>3, <3>1 DEF TypeOK
        <4>2. QED BY <1>6, <1>7, <1>8, <3>1, <4>1, FS_EmptySet
      <3>2. CASE q # p
        <4>1. pp_ref'[q] = pp_ref[q] BY <1>t, <1>3, <3>2 DEF TypeOK
        <4>2. q # b BY <1>d
        <4>3. QED BY <1>6, <1>7, <3>2, <4>1, <4>2 DEF IInv, RefCount
      <3>3. QED BY <3>1, <3>2
    <2>2. QED BY <2>1 DEF RefCount
  <1>11. FreeList' /\ NewPage'
    <2>1. InFlight' = InFlight BY <1>3 DEF InFlight
    <2>2. p \notin InFlight BY <1>1 DEF InFlight
    <2>3. \A q \in Page : q # p => Mapped(q)' = Mapped(q) BY <1>6, <1>d
    <2>4. FreeList' BY <1>3, <1>6, <1>7, <1>8, <2>1, <2>2, <2>3 DEF IInv, FreeList
    <2>5. NewPage' BY <1>7, <2>1, <2>2, <2>3 DEF IInv, NewPage, InFlight
    <2>6. QED BY <2>4, <2>5
  <1>12. SwapTable'
    <2>0. \A v \in VP : ste[p][v] = IF pte[v] = p THEN 1 ELSE 0
      <3>1. ASSUME NEW v \in VP PROVE ste[p][v] = IF pte[v] = p THEN 1 ELSE 0
        <4>1. ste[p][v] > 0 <=> pte[v] = p BY <1>2 DEF Registered, Mapped
        <4>2. ste[p][v] \in {0, 1} BY EntryIs DEF IInv
        <4>3. QED BY <4>1, <4>2
      <3>2. QED BY <3>1
    <2>1. ASSUME NEW v \in VP, NEW q \in Page
          PROVE  /\ ste'[q][v] \in {0, 1}
                 /\ ste'[q][v] = 1 => q \in page_swap_queue' /\ pte'[v] = q
                 /\ q \in page_swap_queue' /\ pte'[v] = q /\ ste'[q][v] = 0 => Copying(v)'
      <3>1. CASE q = p
        <4>1. ste'[q][v] = 0 BY <1>t, <1>3, <1>d, <3>1 DEF TypeOK, Place, NoSinfo
        <4>2. QED BY <1>3, <3>1, <4>1
      <3>2. CASE q # p
        <4>1. ste'[q] = ste[q] BY <1>t, <1>3, <1>d, <3>2 DEF TypeOK, Place
        <4>2. pte'[v] = q <=> pte[v] = q BY <1>5, <1>d, <3>2
        <4>3. QED BY <1>3, <1>c, <3>2, <4>1, <4>2, EntryIs DEF IInv
      <3>3. QED BY <3>1, <3>2
    <2>2. ASSUME NEW v \in VP, NEW c \in Block
          PROVE  ste'[c][v] = IF pte'[v] = c THEN 1 ELSE 0
      <3>1. CASE c = b
        <4>1. ste'[c][v] = ste[b][v] + ste[p][v]
          BY <1>t, <1>3, <1>d, <3>1 DEF TypeOK, Place
        <4>2. ste[b][v] = 0 BY <1>5 DEF IInv, SwapTable
        <4>3. QED BY <1>5, <2>0, <3>1, <4>1, <4>2
      <3>2. CASE c # b
        <4>1. ste'[c] = ste[c] BY <1>t, <1>3, <1>d, <3>2 DEF TypeOK, Place
        <4>2. pte'[v] = c <=> pte[v] = c BY <1>5, <1>d, <3>2
        <4>3. QED BY <4>1, <4>2 DEF IInv, SwapTable
      <3>3. QED BY <3>1, <3>2
    <2>3. page_swap_queue' \subseteq Page BY <1>9 DEF TypeOK
    <2>4. QED BY <2>1, <2>2, <2>3, SwapTableNext
  <1>13. QueuedData'
    <2>1. ASSUME NEW q \in page_swap_queue'
          PROVE  Registered(q)' # {} /\ Tables(q)' = {} /\ Directories(q)' = {}
      <3>1. q \in page_swap_queue /\ q # p /\ q \in Page BY <1>t, <1>3, <2>1 DEF TypeOK
      <3>2. ste'[q] = ste[q] BY <1>t, <1>3, <1>d, <3>1 DEF TypeOK, Place
      <3>3. Registered(q)' = Registered(q) BY <3>2 DEF Registered
      <3>4. QED BY <1>7, <3>1, <3>3 DEF IInv, QueuedData
    <2>2. QED BY <2>1 DEF QueuedData
  <1>14. Bitmap'
    <2>1. ASSUME NEW c \in Block PROVE c \in sd_bitmap' <=> Mapped(c)' # {}
      <3>1. CASE c = b BY <1>3, <1>6, <1>8, <3>1
      <3>2. CASE c # b BY <1>3, <1>6, <1>d, <3>2 DEF IInv, Bitmap
      <3>3. QED BY <3>1, <3>2
    <2>2. QED BY <2>1 DEF Bitmap
  <1>15. SinfoPool'
    <2>1. ASSUME NEW v \in VP PROVE HasSinfo(v)' <=> HasSinfo(v)
      <3>1. CASE pte[v] = p
        <4>1. pte'[v] = b /\ ste'[b][v] = 1 BY <1>5, <1>12, <3>1 DEF SwapTable
        <4>2. ste[p][v] > 0 BY <1>2, <3>1 DEF Registered, Mapped
        <4>3. ste[p][v] = 1 BY <4>2, EntryIs DEF IInv
        <4>4. QED BY <1>d, <3>1, <4>1, <4>3 DEF HasSinfo
      <3>2. CASE pte[v] # p
        <4>1. pte'[v] = pte[v] /\ pte[v] # b BY <1>5, <3>2
        <4>2. pte[v] # None => ste'[pte[v]] = ste[pte[v]]
          BY <1>t, <1>3, <3>2, <4>1 DEF TypeOK
        <4>3. QED BY <4>1, <4>2 DEF HasSinfo
      <3>3. QED BY <3>1, <3>2
    <2>2. {v \in VP : HasSinfo(v)}' = {v \in VP : HasSinfo(v)} BY <2>1
    <2>3. QED BY <1>3, <2>2 DEF IInv, SinfoPool
  <1>16. TlbCoherent'
    <2>1. ASSUME NEW v \in VP, tlb'[v] # None PROVE pte'[v] = tlb'[v]
      <3>1. v \notin Registered(p) /\ tlb'[v] = tlb[v] BY <1>t, <1>3, <2>1, InvalidateDrops
      <3>2. QED BY <1>3, <2>1, <3>1 DEF IInv, TlbCoherent
    <2>2. QED BY <2>1 DEF TlbCoherent
  <1>17. NoOrphans' BY <1>3, <1>5, <1>d DEF IInv, NoOrphans, Table, Alive
  <1>18. NoPanic' /\ HandlerOp'
    <2>1. pc # "panic" BY <1>1 DEF Evicting, NeedsPage, NeedsSwapBack, NeedsTable, Walking
    <2>2. QED BY <1>3, <2>1 DEF IInv, NoPanic, HandlerOp
  <1>19. HandlerLocals'
    <2>1. NeedsPage BY <1>1 DEF Evicting
    <2>2. Operand' = Operand BY <1>3 DEF Operand
    <2>3. Walking => Operand \in VP
      BY DEF IInv, HandlerOp, HandlerLocals, Walking, Operand
    <2>4. pc = "insert" => dst \in VP BY DEF IInv, HandlerOp, HandlerLocals
    <2>5. NeedsPage'
      BY <1>3, <1>5, <1>d, <2>1, <2>2, <2>3, <2>4
         DEF NeedsPage, NeedsSwapBack, NeedsTable, Walking, Table
    <2>6. QED BY <1>3, <2>5 DEF IInv, HandlerLocals, Alive
  <1>20. HeldPage'
    <2>1. SUFFICES ASSUME pc = "insert", op \in {"map", "ipc"} PROVE HeldPage'
      BY <1>3 DEF HeldPage
    <2>2. src \in VP /\ dst \in VP /\ pp \in Page BY <2>1 DEF IInv, HandlerLocals
    <2>3. Mapped(pp)' = Mapped(pp) BY <1>1, <1>3, <1>6, <1>d, <2>2
    <2>4. pte'[src] = pte[src] /\ (pte[dst] # pp => pte'[dst] # pp)
      BY <1>1, <1>5, <1>d, <2>1, <2>2 DEF IInv, HeldPage
    <2>5. pp \in page_swap_queue' <=> pp \in page_swap_queue BY <1>1, <1>3
    <2>6. HeldPage BY DEF IInv
    <2>7. Copying(src)' <=> Copying(src) BY <1>3, <1>c, <2>2
    <2>8. QED BY <1>3, <2>1, <2>3, <2>4, <2>5, <2>6, <2>7 DEF HeldPage
  <1>21. CallerKept'
    <2>1. \A v \in VP : Swappable(v)' <=> Swappable(v)
      <3>1. \A v \in VP : Swappable(v) <=> pte[v] \in page_swap_queue \union Block
        BY RegisteredIs DEF IInv
      <3>2. \A v \in VP : Swappable(v)' <=> pte'[v] \in page_swap_queue' \union Block
        BY <1>9, <1>12, <1>13, SwappableNext
      <3>3. QED BY <1>1, <1>3, <1>5, <1>d, <3>1, <3>2
    <2>2. /\ \A v, w \in VP : LibMap(v, w)' <=> LibMap(v, w)
          /\ \A v, w \in VP : LibIpc(v, w)' <=> LibIpc(v, w)
      BY <1>s, <2>1, CallerSame
    <2>3. pc \in {"lookup_dst", "lookup_src"} => src \in VP /\ dst \in VP
      BY DEF IInv, HandlerOp, HandlerLocals
    <2>4. QED BY <1>3, <2>2, <2>3 DEF IInv, CallerKept
  <1>22. QED
    BY <1>9, <1>10, <1>11, <1>c, <1>12, <1>13, <1>14, <1>15, <1>16, <1>17, <1>18, <1>19, <1>20, <1>21
       DEF IInv

\* Bringing a block back moves its mappings to a free page: the reverse of
\* an eviction.
LEMMA SwapBackKeeps ==
  ASSUME IInv, NEW p \in Page, swap_back(p)
  PROVE  IInv'
  <1> USE DEF HandlerInv
  <1>t. TypeOK BY DEF IInv
  <1>d. /\ None \notin Page /\ None \notin Block /\ Page \intersect Block = {}
    BY PmapDisjoint DEF PmapDisjoint
  <1>1. NeedsSwapBack /\ p \in page_free_list BY DEF swap_back
  <1>2. PICK b \in Block : b = pte[Operand] /\ Operand \in VP /\ Operand \in Mapped(b)
    BY <1>1 DEF IInv, HandlerOp, HandlerLocals, NeedsSwapBack, Walking, Operand, Mapped
  <1>3. Registered(b) = Mapped(b) BY <1>2, RegisteredIs DEF IInv
  <1>4. /\ Mapped(p) = {} /\ Tables(p) = {} /\ Directories(p) = {} /\ p \notin InFlight
    BY <1>1 DEF IInv, FreeList
  <1>5. pp_ref[p] = 0 /\ p \notin page_swap_queue
    BY <1>4, ZeroRef, QueuedIs DEF IInv
  <1>6. ~BackBroken(p, b)
    <2>1. \A v \in VP : ~(ste[b][v] > 1 \/ (ste[b][v] = 1 /\ pte[v] \notin Block))
      BY <1>2 DEF IInv, SwapTable
    <2>2. QED BY <1>5, <2>1 DEF BackBroken
  <1>7. /\ page_free_list' = page_free_list \ {p}
        /\ evict' = 0
        /\ mem' = [mem EXCEPT ![p] = sd[b]]
        /\ sd_bitmap' = sd_bitmap \ {b}
        /\ pte' = [v \in VP |-> IF v \in Registered(b) THEN p ELSE pte[v]]
        /\ pp_ref' = [pp_ref EXCEPT ![p] = Cardinality(Registered(b))]
        /\ page_swap_queue' = page_swap_queue \union {p}
        /\ ste' = [ste EXCEPT ![b] = NoSinfo, ![p] = [v \in VP |-> ste[p][v] + ste[b][v]]]
        /\ UNCHANGED <<pgdir, pde, sinfo_free, sd, tlb, pc, op, src, dst, pp, swappable>>
    BY <1>2, <1>6 DEF swap_back, read_page, sd_block_free, hvars
  <1>b. b \in Block /\ b # p /\ b # None BY <1>2, <1>d
  <1>8. \A v \in VP : /\ pte[v] # p
                      /\ pte'[v] = IF pte[v] = b THEN p ELSE pte[v]
    BY <1>3, <1>4, <1>7 DEF Mapped
  <1>9. /\ Mapped(b)' = {} /\ Mapped(p)' = Mapped(b)
        /\ \A x : x # p /\ x # b => Mapped(x)' = Mapped(x)
    BY <1>8, <1>b DEF Mapped
  <1>s. /\ \A v, w \in VP : pte'[v] = pte'[w] <=> pte[v] = pte[w]
        /\ \A v \in VP : pte'[v] = None <=> pte[v] = None
    BY <1>8, <1>b, <1>d
  <1>c. /\ CowPrivate' /\ \A v \in VP : Copying(v)' <=> Copying(v)
    BY <1>s, SameMappings DEF IInv
  <1>10. /\ \A x : Tables(x)' = Tables(x)
         /\ \A x : Directories(x)' = Directories(x)
    BY <1>7 DEF Tables, Directories
  <1>11. Cardinality(Mapped(b)) \in Nat BY Sizes
  <1>12. TypeOK'
    <2>1. pte' \in [VP -> Place \union {None}] BY <1>t, <1>7 DEF TypeOK, Place
    <2>2. ste' \in [Place -> [VP -> Nat]]
      <3>1. NoSinfo \in [VP -> Nat] BY DEF NoSinfo
      <3>2. [v \in VP |-> ste[p][v] + ste[b][v]] \in [VP -> Nat] BY <1>t, <1>b DEF TypeOK, Place
      <3>3. QED BY <1>t, <1>7, <3>1, <3>2 DEF TypeOK
    <2>3. pp_ref' \in [Page -> Nat] BY <1>t, <1>3, <1>7, <1>11 DEF TypeOK
    <2>4. mem' \in [Page -> Data] BY <1>t, <1>b, <1>7 DEF TypeOK
    <2>5. evict' \in 0..NSWAP BY <1>7, PmapBounds DEF PmapBounds
    <2>6. /\ page_free_list' \subseteq Page /\ page_swap_queue' \subseteq Page
          /\ sd_bitmap' \subseteq Block
      BY <1>t, <1>7 DEF TypeOK
    <2>7. UNCHANGED <<pgdir, pde, sinfo_free, sd, tlb, pc, op, src, dst, pp, swappable>> BY <1>7
    <2>8. QED BY <1>t, <2>1, <2>2, <2>3, <2>4, <2>5, <2>6, <2>7 DEF TypeOK
  <1>13. RefCount'
    <2>1. ASSUME NEW q \in Page
          PROVE  pp_ref'[q] = Cardinality(Mapped(q)') + Cardinality(Tables(q)')
                                                      + Cardinality(Directories(q)')
      <3>1. CASE q = p
        <4>1. pp_ref'[q] = Cardinality(Mapped(b)) BY <1>t, <1>3, <1>7, <3>1 DEF TypeOK
        <4>2. QED BY <1>4, <1>9, <1>10, <1>11, <3>1, <4>1, FS_EmptySet
      <3>2. CASE q # p
        <4>1. pp_ref'[q] = pp_ref[q] BY <1>t, <1>7, <3>2 DEF TypeOK
        <4>2. q # b BY <1>d, <1>b
        <4>3. QED BY <1>9, <1>10, <3>2, <4>1, <4>2 DEF IInv, RefCount
      <3>3. QED BY <3>1, <3>2
    <2>2. QED BY <2>1 DEF RefCount
  <1>14. \A q \in Page : q # p => Mapped(q)' = Mapped(q) BY <1>9, <1>d, <1>b
  <1>15. FreeList' /\ NewPage'
    <2>1. InFlight' = InFlight BY <1>7 DEF InFlight
    <2>2. Mapped(p)' # {} BY <1>2, <1>9
    <2>3. FreeList' BY <1>7, <1>10, <1>14, <2>1, <2>2 DEF IInv, FreeList
    <2>4. NewPage' BY <1>4, <1>10, <1>14, <2>1 DEF IInv, NewPage, InFlight
    <2>5. QED BY <2>3, <2>4
  <1>16. SwapTable'
    <2>1. ASSUME NEW v \in VP, NEW q \in Page
          PROVE  /\ ste'[q][v] \in {0, 1}
                 /\ ste'[q][v] = 1 => q \in page_swap_queue' /\ pte'[v] = q
                 /\ q \in page_swap_queue' /\ pte'[v] = q /\ ste'[q][v] = 0 => Copying(v)'
      <3>1. CASE q = p
        <4>1. ste'[q][v] = ste[p][v] + ste[b][v]
          BY <1>t, <1>7, <1>b, <3>1 DEF TypeOK, Place
        <4>2. ste[p][v] = 0 BY <1>8 DEF IInv, SwapTable
        <4>3. ste[b][v] = IF pte[v] = b THEN 1 ELSE 0 BY <1>b DEF IInv, SwapTable
        <4>4. QED BY <1>7, <1>8, <3>1, <4>1, <4>2, <4>3
      <3>2. CASE q # p
        <4>1. ste'[q] = ste[q] BY <1>t, <1>7, <1>d, <1>b, <3>2 DEF TypeOK, Place
        <4>2. pte'[v] = q <=> pte[v] = q BY <1>8, <1>d, <1>b, <3>2
        <4>3. QED BY <1>7, <1>c, <3>2, <4>1, <4>2, EntryIs DEF IInv
      <3>3. QED BY <3>1, <3>2
    <2>2. ASSUME NEW v \in VP, NEW c \in Block
          PROVE  ste'[c][v] = IF pte'[v] = c THEN 1 ELSE 0
      <3>1. CASE c = b
        <4>1. ste'[c][v] = 0 BY <1>t, <1>7, <1>b, <3>1 DEF TypeOK, Place, NoSinfo
        <4>2. QED BY <1>8, <1>b, <3>1, <4>1
      <3>2. CASE c # b
        <4>1. ste'[c] = ste[c] BY <1>t, <1>7, <1>d, <1>b, <3>2 DEF TypeOK, Place
        <4>2. pte'[v] = c <=> pte[v] = c BY <1>8, <1>d, <1>b, <3>2
        <4>3. QED BY <4>1, <4>2 DEF IInv, SwapTable
      <3>3. QED BY <3>1, <3>2
    <2>3. page_swap_queue' \subseteq Page BY <1>12 DEF TypeOK
    <2>4. QED BY <2>1, <2>2, <2>3, SwapTableNext
  <1>17. QueuedData'
    <2>1. ASSUME NEW q \in page_swap_queue'
          PROVE  Registered(q)' # {} /\ Tables(q)' = {} /\ Directories(q)' = {}
      <3>1. CASE q = p
        <4>1. ste'[p] = [v \in VP |-> ste[p][v] + ste[b][v]] BY <1>t, <1>7, <1>b DEF TypeOK, Place
        <4>2. ste[p][Operand] = 0 /\ ste[b][Operand] = 1
          BY <1>2, <1>5, <1>8 DEF IInv, SwapTable
        <4>3. ste'[p][Operand] = 1 BY <1>2, <4>1, <4>2
        <4>4. Operand \in {v \in VP : ste'[q][v] > 0} BY <1>2, <3>1, <4>3
        <4>5. QED BY <1>4, <1>10, <3>1, <4>4 DEF Registered
      <3>2. CASE q # p
        <4>1. q \in page_swap_queue /\ q \in Page BY <1>t, <1>7, <2>1, <3>2 DEF TypeOK
        <4>2. ste'[q] = ste[q] BY <1>t, <1>7, <1>d, <1>b, <3>2, <4>1 DEF TypeOK, Place
        <4>3. Registered(q)' = Registered(q) BY <4>2 DEF Registered
        <4>4. QED BY <1>10, <4>1, <4>3 DEF IInv, QueuedData
      <3>3. QED BY <3>1, <3>2
    <2>2. QED BY <2>1 DEF QueuedData
  <1>18. Bitmap'
    <2>1. ASSUME NEW c \in Block PROVE c \in sd_bitmap' <=> Mapped(c)' # {}
      <3>1. CASE c = b BY <1>7, <1>9, <3>1
      <3>2. CASE c # b BY <1>7, <1>9, <1>d, <3>2 DEF IInv, Bitmap
      <3>3. QED BY <3>1, <3>2
    <2>2. QED BY <2>1 DEF Bitmap
  <1>20. SinfoPool'
    <2>1. ASSUME NEW v \in VP PROVE HasSinfo(v)' <=> HasSinfo(v)
      <3>1. CASE pte[v] = b
        <4>1. ste[b][v] = 1 /\ ste[p][v] = 0 BY <1>b, <1>8, <3>1 DEF IInv, SwapTable
        <4>2. pte'[v] = p /\ ste'[p][v] = ste[p][v] + ste[b][v]
          BY <1>t, <1>7, <1>8, <1>b, <3>1 DEF TypeOK, Place
        <4>3. QED BY <1>b, <1>d, <3>1, <4>1, <4>2 DEF HasSinfo
      <3>2. CASE pte[v] # b
        <4>1. pte'[v] = pte[v] /\ pte[v] # p BY <1>8, <3>2
        <4>2. pte[v] # None => ste'[pte[v]] = ste[pte[v]]
          BY <1>t, <1>7, <3>2, <4>1 DEF TypeOK
        <4>3. QED BY <4>1, <4>2 DEF HasSinfo
      <3>3. QED BY <3>1, <3>2
    <2>2. {v \in VP : HasSinfo(v)}' = {v \in VP : HasSinfo(v)} BY <2>1
    <2>3. QED BY <1>7, <2>2 DEF IInv, SinfoPool
  <1>21. TlbCoherent' BY <1>t, <1>7, <1>8, <1>b, <1>d DEF IInv, TlbCoherent, TypeOK
  <1>22. NoOrphans' BY <1>7, <1>8, <1>b, <1>d DEF IInv, NoOrphans, Table, Alive
  <1>23. NoPanic' /\ HandlerOp'
    <2>1. pc # "panic" BY <1>1 DEF NeedsSwapBack, Walking
    <2>2. QED BY <1>7, <2>1 DEF IInv, NoPanic, HandlerOp
  <1>24. HandlerLocals' BY <1>7 DEF IInv, HandlerLocals, Alive
  <1>25. HeldPage'
    <2>1. SUFFICES ASSUME pc = "insert", op \in {"map", "ipc"} PROVE HeldPage'
      BY <1>7 DEF HeldPage
    <2>2. src \in VP /\ dst \in VP /\ pp \in Page BY <2>1 DEF IInv, HandlerLocals
    <2>3. pte[src] = pp BY <2>1 DEF IInv, HeldPage
    <2>4. pp # p /\ pp # b BY <1>8, <1>b, <1>d, <2>2, <2>3
    <2>5. Mapped(pp)' = Mapped(pp) BY <1>7, <1>9, <2>4
    <2>6. pte'[src] = pte[src] /\ (pte[dst] # pp => pte'[dst] # pp)
      BY <1>8, <2>2, <2>3, <2>4
    <2>7. pp \in page_swap_queue' <=> pp \in page_swap_queue BY <1>7, <2>4
    <2>8. HeldPage BY DEF IInv
    <2>9. Copying(src)' <=> Copying(src) BY <1>7, <1>c, <2>2
    <2>10. QED BY <1>7, <2>1, <2>5, <2>6, <2>7, <2>8, <2>9 DEF HeldPage
  <1>26. CallerKept'
    <2>1. \A v \in VP : Swappable(v)' <=> Swappable(v)
      <3>1. \A v \in VP : Swappable(v) <=> pte[v] \in page_swap_queue \union Block
        BY RegisteredIs DEF IInv
      <3>2. \A v \in VP : Swappable(v)' <=> pte'[v] \in page_swap_queue' \union Block
        BY <1>12, <1>16, <1>17, SwappableNext
      <3>3. QED BY <1>5, <1>7, <1>8, <1>b, <1>d, <3>1, <3>2
    <2>2. /\ \A v, w \in VP : LibMap(v, w)' <=> LibMap(v, w)
          /\ \A v, w \in VP : LibIpc(v, w)' <=> LibIpc(v, w)
      BY <1>s, <2>1, CallerSame
    <2>3. pc \in {"lookup_dst", "lookup_src"} => src \in VP /\ dst \in VP
      BY DEF IInv, HandlerOp, HandlerLocals
    <2>4. QED BY <1>7, <2>2, <2>3 DEF IInv, CallerKept
  <1>27. QED
    BY <1>c, <1>12, <1>13, <1>15, <1>16, <1>17, <1>18, <1>20, <1>21, <1>22, <1>23, <1>24, <1>25, <1>26
       DEF IInv

-----------------------------------------------------------------------------
(* Page tables and page directories: the virtual pages stay as they are *)

\* What depends on the virtual pages only.
LEMMA PteFrame ==
  ASSUME SwapTable, CowPrivate, Bitmap, SinfoPool,
         UNCHANGED <<pte, page_swap_queue, ste, sinfo_free, sd_bitmap>>
  PROVE  /\ SwapTable' /\ CowPrivate' /\ Bitmap' /\ SinfoPool'
         /\ \A x : Mapped(x)' = Mapped(x)
         /\ \A x : Registered(x)' = Registered(x)
  <1>1. /\ \A x : Mapped(x)' = Mapped(x)
        /\ \A x : Registered(x)' = Registered(x)
    BY DEF Mapped, Registered
  <1>2. {v \in VP : HasSinfo(v)}' = {v \in VP : HasSinfo(v)} BY DEF HasSinfo
  <1>3. SwapTable' BY DEF SwapTable, Bare, Copying
  <1>4. Bitmap' BY <1>1 DEF Bitmap
  <1>5. SinfoPool' BY <1>2 DEF SinfoPool
  <1>6. CowPrivate' BY <1>1 DEF CowPrivate
  <1>7. QED BY <1>1, <1>3, <1>4, <1>5, <1>6

\* page_alloc for a page of data: the page is in flight until page_insert.
LEMMA TakeDataKeeps ==
  ASSUME IInv, NEW p \in Page, TakePage(p), op # "exofork"
  PROVE  IInv'
  <1> USE DEF HandlerInv
  <1>1. /\ p \in page_free_list /\ page_free_list' = page_free_list \ {p}
        /\ mem' = [mem EXCEPT ![p] = Zero] /\ evict' = 0
        /\ pp' = p /\ pc = "page_alloc" /\ pc' = "insert"
        /\ UNCHANGED <<pgdir, pp_ref, op, src, dst, swappable, pde, pte, page_swap_queue,
                       ste, sinfo_free, sd_bitmap, sd, tlb>>
    BY DEF TakePage
  <1>2. op \in {"alloc", "touch"} /\ pp = None BY <1>1 DEF IInv, HandlerOp, HandlerLocals
  <1>3. /\ SwapTable' /\ CowPrivate' /\ Bitmap' /\ SinfoPool'
        /\ \A x : Mapped(x)' = Mapped(x)
        /\ \A x : Registered(x)' = Registered(x)
    BY <1>1, PteFrame DEF IInv
  <1>4. /\ \A x : Tables(x)' = Tables(x)
        /\ \A x : Directories(x)' = Directories(x)
    BY <1>1 DEF Tables, Directories
  <1>5. RefCount' BY <1>1, <1>3, <1>4 DEF IInv, RefCount
  <1>6. QueuedData' BY <1>1, <1>3, <1>4 DEF IInv, QueuedData
  <1>7. NoOrphans' BY <1>1 DEF IInv, NoOrphans, Table, Alive
  <1>8. InFlight = {} /\ InFlight' = {p}
    BY <1>1, <1>2, PmapDisjoint DEF InFlight, PmapDisjoint
  <1>9. FreeList' BY <1>1, <1>3, <1>4, <1>8 DEF IInv, FreeList
  <1>10. NewPage' BY <1>1, <1>3, <1>4, <1>8 DEF IInv, FreeList, NewPage
  <1>11. TypeOK'
    <2>1. mem' \in [Page -> Data] BY <1>1, PmapLayout DEF IInv, TypeOK, PmapLayout
    <2>2. evict' \in 0..NSWAP BY <1>1, PmapBounds DEF PmapBounds
    <2>3. QED BY <1>1, <2>1, <2>2 DEF IInv, TypeOK
  <1>12. TlbCoherent' BY <1>1 DEF IInv, TlbCoherent
  <1>13. NoPanic' /\ HandlerOp' BY <1>1, <1>2 DEF NoPanic, HandlerOp
  <1>14. HandlerLocals' BY <1>1, <1>2 DEF IInv, HandlerLocals, Alive
  <1>15. HeldPage' /\ CallerKept' BY <1>1, <1>2 DEF HeldPage, CallerKept
  <1>16. QED BY <1>3, <1>5, <1>6, <1>7, <1>9, <1>10, <1>11, <1>12, <1>13, <1>14, <1>15 DEF IInv

\* env_setup_vm: the page becomes a page directory.
LEMMA TakeDirKeeps ==
  ASSUME IInv, NEW p \in Page, TakePage(p), op = "exofork"
  PROVE  IInv'
  <1> USE DEF HandlerInv
  <1>1. /\ p \in page_free_list /\ page_free_list' = page_free_list \ {p}
        /\ mem' = [mem EXCEPT ![p] = Zero] /\ evict' = 0
        /\ pgdir' = [pgdir EXCEPT ![dst[1]] = p]
        /\ pp_ref' = [pp_ref EXCEPT ![p] = @ + 1]
        /\ Done /\ pc = "page_alloc"
        /\ UNCHANGED <<pde, pte, page_swap_queue, ste, sinfo_free, sd_bitmap, sd, tlb>>
    BY DEF TakePage
  <1>2. PICK e \in Env : e = dst[1]
    BY DEF IInv, HandlerLocals, VP
  <1>3. pgdir[e] = None BY <1>1, <1>2 DEF IInv, HandlerLocals, Alive
  <1>4. /\ SwapTable' /\ CowPrivate' /\ Bitmap' /\ SinfoPool'
        /\ \A x : Mapped(x)' = Mapped(x)
        /\ \A x : Registered(x)' = Registered(x)
    BY <1>1, PteFrame DEF IInv
  <1>5. \A x : Tables(x)' = Tables(x) BY <1>1 DEF Tables
  <1>6. /\ Mapped(p) = {} /\ Tables(p) = {} /\ Directories(p) = {} /\ p \notin page_swap_queue
    BY <1>1, QueuedIs DEF IInv, FreeList
  <1>7. \A q \in Page : q # p => Directories(q)' = Directories(q)
    BY <1>1, <1>2, <1>3, PmapDisjoint DEF Directories, PmapDisjoint, IInv, TypeOK
  <1>8. Cardinality(Directories(p)') = 1
    <2>1. Directories(p)' = Directories(p) \union {e} /\ e \notin Directories(p)
      BY <1>1, <1>2, <1>3, PmapDisjoint DEF Directories, IInv, TypeOK, PmapDisjoint
    <2>2. Cardinality(Directories(p)') = Cardinality(Directories(p)) + 1
      BY <2>1, Sizes, OneMore
    <2>3. QED BY <1>6, <2>2, FS_EmptySet
  <1>9. TypeOK'
    <2>1. mem' \in [Page -> Data] BY <1>1, PmapLayout DEF IInv, TypeOK, PmapLayout
    <2>2. evict' \in 0..NSWAP BY <1>1, PmapBounds DEF PmapBounds
    <2>3. pgdir' \in [Env -> Page \union {None}] BY <1>1 DEF IInv, TypeOK
    <2>4. pp_ref' \in [Page -> Nat] BY <1>1 DEF IInv, TypeOK
    <2>5. QED BY <1>1, <2>1, <2>2, <2>3, <2>4 DEF IInv, TypeOK, Done
  <1>10. pp_ref[p] = 0 BY <1>6, ZeroRef DEF IInv
  <1>11. RefCount'
    <2>1. ASSUME NEW q \in Page
          PROVE  pp_ref'[q] = Cardinality(Mapped(q)') + Cardinality(Tables(q)')
                                                      + Cardinality(Directories(q)')
      <3>1. CASE q = p
        <4>1. pp_ref'[q] = 1 BY <1>1, <1>10, <3>1 DEF IInv, TypeOK
        <4>2. QED BY <1>4, <1>5, <1>6, <1>8, <3>1, <4>1, FS_EmptySet
      <3>2. CASE q # p
        <4>1. pp_ref'[q] = pp_ref[q] BY <1>1, <3>2 DEF IInv, TypeOK
        <4>2. QED BY <1>4, <1>5, <1>7, <3>2, <4>1 DEF IInv, RefCount
      <3>3. QED BY <3>1, <3>2
    <2>2. QED BY <2>1 DEF RefCount
  <1>12. InFlight = {} /\ InFlight' = {} BY <1>1 DEF InFlight, Done
  <1>13. FreeList'
    <2>1. ASSUME NEW q \in Page
          PROVE  q \in page_free_list' <=> pp_ref'[q] = 0 /\ q \notin InFlight'
      BY <1>1, <1>10, <1>12, FreeIsZero DEF IInv, TypeOK
    <2>2. QED BY <1>11, <2>1, ZeroIsFree
  <1>14. NewPage' BY <1>12 DEF NewPage
  <1>15. QueuedData' BY <1>1, <1>4, <1>5, <1>6, <1>7 DEF IInv, TypeOK, QueuedData
  <1>16. NoOrphans'
    <2>1. \A f \in Env : Alive(f) => Alive(f)'
      BY <1>1, <1>2, PmapDisjoint DEF Alive, IInv, TypeOK, PmapDisjoint
    <2>2. \A d \in Pd : d[1] \in Env BY DEF Pd
    <2>3. QED BY <1>1, <2>1, <2>2 DEF IInv, NoOrphans, Table
  <1>17. TlbCoherent' BY <1>1 DEF IInv, TlbCoherent
  <1>18. NoPanic' /\ HandlerOp' BY <1>1 DEF NoPanic, HandlerOp, Done
  <1>19. HandlerLocals' BY <1>1 DEF HandlerLocals, Done
  <1>20. HeldPage' /\ CallerKept' BY <1>1 DEF HeldPage, CallerKept, Done
  <1>21. QED
    BY <1>4, <1>9, <1>11, <1>13, <1>14, <1>15, <1>16, <1>17, <1>18, <1>19, <1>20 DEF IInv

\* pgdir_walk: the page becomes a page table of the handler's operand.
LEMMA TakeTableKeeps ==
  ASSUME IInv, NEW p \in Page, TakeTable(p)
  PROVE  IInv'
  <1> USE DEF HandlerInv
  <1>1. /\ p \in page_free_list /\ page_free_list' = page_free_list \ {p}
        /\ mem' = [mem EXCEPT ![p] = Zero] /\ evict' = 0
        /\ pde' = [pde EXCEPT ![<<dst[1], Pdx[dst[2]]>>] = p]
        /\ pp_ref' = [pp_ref EXCEPT ![p] = @ + 1]
        /\ NeedsTable
        /\ UNCHANGED <<pgdir, pte, page_swap_queue, ste, sinfo_free, sd_bitmap, sd, tlb,
                       pc, op, src, dst, pp, swappable>>
    BY DEF TakeTable, hvars
  <1>2. dst \in VP /\ Alive(dst[1]) /\ pc = "insert"
    BY <1>1 DEF IInv, HandlerOp, HandlerLocals, NeedsTable
  <1>3. PICK d \in Pd : d = <<dst[1], Pdx[dst[2]]>>
    <2>1. dst[1] \in Env /\ Pdx[dst[2]] \in Region BY <1>2, PmapLayout DEF VP, PmapLayout
    <2>2. <<dst[1], Pdx[dst[2]]>> \in Pd BY <2>1 DEF Pd
    <2>3. QED BY <2>2
  <1>4. pde[d] = None BY <1>1, <1>3 DEF NeedsTable, Table
  <1>5. /\ SwapTable' /\ CowPrivate' /\ Bitmap' /\ SinfoPool'
        /\ \A x : Mapped(x)' = Mapped(x)
        /\ \A x : Registered(x)' = Registered(x)
    BY <1>1, PteFrame DEF IInv
  <1>6. \A x : Directories(x)' = Directories(x) BY <1>1 DEF Directories
  <1>7. /\ Mapped(p) = {} /\ Tables(p) = {} /\ Directories(p) = {} /\ p \notin page_swap_queue
        /\ p \notin InFlight
    BY <1>1, QueuedIs DEF IInv, FreeList
  <1>8. \A q \in Page : q # p => Tables(q)' = Tables(q)
    BY <1>1, <1>3, <1>4, PmapDisjoint DEF Tables, PmapDisjoint, IInv, TypeOK
  <1>9. Cardinality(Tables(p)') = 1
    <2>0. pde \in [Pd -> Page \union {None}] /\ pde' = [pde EXCEPT ![d] = p] /\ None # p
      BY <1>1, <1>3, PmapDisjoint DEF IInv, TypeOK, PmapDisjoint
    <2>1. Tables(p)' = Tables(p) \union {d} /\ d \notin Tables(p)
      BY <1>4, <2>0 DEF Tables
    <2>2. Cardinality(Tables(p)') = Cardinality(Tables(p)) + 1
      BY <2>1, Sizes, OneMore
    <2>3. QED BY <1>7, <2>2, FS_EmptySet
  <1>10. TypeOK'
    <2>1. mem' \in [Page -> Data] BY <1>1, PmapLayout DEF IInv, TypeOK, PmapLayout
    <2>2. evict' \in 0..NSWAP BY <1>1, PmapBounds DEF PmapBounds
    <2>3. pde' \in [Pd -> Page \union {None}] BY <1>1 DEF IInv, TypeOK
    <2>4. pp_ref' \in [Page -> Nat] BY <1>1 DEF IInv, TypeOK
    <2>5. QED BY <1>1, <2>1, <2>2, <2>3, <2>4 DEF IInv, TypeOK
  <1>11. pp_ref[p] = 0 BY <1>7, ZeroRef DEF IInv
  <1>12. RefCount'
    <2>1. ASSUME NEW q \in Page
          PROVE  pp_ref'[q] = Cardinality(Mapped(q)') + Cardinality(Tables(q)')
                                                      + Cardinality(Directories(q)')
      <3>1. CASE q = p
        <4>1. pp_ref'[q] = 1 BY <1>1, <1>11, <3>1 DEF IInv, TypeOK
        <4>2. QED BY <1>5, <1>6, <1>7, <1>9, <3>1, <4>1, FS_EmptySet
      <3>2. CASE q # p
        <4>1. pp_ref'[q] = pp_ref[q] BY <1>1, <3>2 DEF IInv, TypeOK
        <4>2. QED BY <1>5, <1>6, <1>8, <3>2, <4>1 DEF IInv, RefCount
      <3>3. QED BY <3>1, <3>2
    <2>2. QED BY <2>1 DEF RefCount
  <1>13. InFlight' = InFlight BY <1>1 DEF InFlight
  <1>14. FreeList'
    <2>1. ASSUME NEW q \in Page
          PROVE  q \in page_free_list' <=> pp_ref'[q] = 0 /\ q \notin InFlight'
      BY <1>1, <1>11, <1>13, FreeIsZero DEF IInv, TypeOK
    <2>2. QED BY <1>12, <2>1, ZeroIsFree
  <1>15. NewPage' BY <1>5, <1>6, <1>7, <1>8, <1>13 DEF IInv, NewPage, InFlight
  <1>16. QueuedData' BY <1>1, <1>5, <1>6, <1>7, <1>8 DEF IInv, TypeOK, QueuedData
  <1>17. NoOrphans'
    <2>1. ASSUME NEW v \in VP, pte[v] # None PROVE Table(v)' # None
      <3>1. pde[<<v[1], Pdx[v[2]]>>] # None BY <2>1 DEF IInv, NoOrphans, Table
      <3>2. <<v[1], Pdx[v[2]]>> \in Pd BY PmapLayout DEF VP, Pd, PmapLayout
      <3>3. QED BY <1>1, <1>3, <3>1, <3>2, PmapDisjoint DEF Table, IInv, TypeOK, PmapDisjoint
    <2>2. ASSUME NEW c \in Pd, pde'[c] # None PROVE Alive(c[1])'
      <3>1. CASE c = d BY <1>1, <1>2, <1>3, <3>1 DEF Alive
      <3>2. CASE c # d
        <4>1. pde[c] # None BY <1>1, <1>3, <2>2, <3>2 DEF IInv, TypeOK
        <4>2. QED BY <1>1, <4>1 DEF IInv, NoOrphans, Alive
      <3>3. QED BY <3>1, <3>2
    <2>3. QED BY <1>1, <2>1, <2>2 DEF NoOrphans
  <1>18. TlbCoherent' BY <1>1 DEF IInv, TlbCoherent
  <1>19. NoPanic' /\ HandlerOp' BY <1>1, <1>2 DEF IInv, NoPanic, HandlerOp
  <1>20. HandlerLocals' BY <1>1 DEF IInv, HandlerLocals, Alive
  <1>21. HeldPage'
    <2>1. Copying(src)' <=> Copying(src) BY <1>1 DEF Copying
    <2>2. Mapped(pp)' = Mapped(pp) BY <1>1 DEF Mapped
    <2>3. QED BY <1>1, <2>1, <2>2 DEF IInv, HeldPage
  <1>22. CallerKept' BY <1>1, <1>2 DEF CallerKept
  <1>23. QED
    BY <1>5, <1>10, <1>12, <1>14, <1>15, <1>16, <1>17, <1>18, <1>19, <1>20, <1>21, <1>22 DEF IInv

\* env_free gives back a page table none of whose entries is in use.
LEMMA FreeTableKeeps ==
  ASSUME IInv, NEW d \in Pd, FreeTable(d)
  PROVE  IInv'
  <1> USE DEF HandlerInv
  <1>1. /\ pc = "free" /\ d[1] = dst[1] /\ pde[d] # None
        /\ \A v \in VP : v[1] = d[1] /\ Pdx[v[2]] = d[2] => pte[v] = None
        /\ pde' = [pde EXCEPT ![d] = None]
        /\ UNCHANGED <<pgdir, pte, page_swap_queue, ste, sinfo_free, sd_bitmap, mem, sd, tlb,
                       pc, op, src, dst, pp, swappable, evict>>
    BY DEF FreeTable, StillMapped, hvars, dvars
  <1>2. PICK p \in Page : p = pde[d] BY <1>1 DEF IInv, TypeOK
  <1>3. /\ pp_ref' = [pp_ref EXCEPT ![p] = @ - 1]
        /\ page_free_list' = page_free_list \union (IF pp_ref[p] = 1 THEN {p} ELSE {})
    BY <1>2 DEF FreeTable, page_decref, FreedBy
  <1>4. op = "free" /\ pp = None BY <1>1 DEF IInv, HandlerOp, HandlerLocals
  <1>5. InFlight = {} /\ InFlight' = {} BY <1>1, <1>4 DEF InFlight
  <1>6. /\ SwapTable' /\ CowPrivate' /\ Bitmap' /\ SinfoPool'
        /\ \A x : Mapped(x)' = Mapped(x)
        /\ \A x : Registered(x)' = Registered(x)
    BY <1>1, PteFrame DEF IInv
  <1>7. \A x : Directories(x)' = Directories(x) BY <1>1 DEF Directories
  <1>8. d \in Tables(p) /\ Tables(p)' = Tables(p) \ {d}
    BY <1>1, <1>2, PmapDisjoint DEF Tables, IInv, TypeOK, PmapDisjoint
  <1>9. \A q \in Page : q # p => Tables(q)' = Tables(q)
    BY <1>1, <1>2, PmapDisjoint DEF Tables, PmapDisjoint, IInv, TypeOK
  <1>10. Cardinality(Tables(p)') = Cardinality(Tables(p)) - 1 BY <1>8, Sizes, OneLess
  <1>11. pp_ref[p] # 0 BY <1>8, ZeroRef DEF IInv
  <1>12. TypeOK'
    <2>1. pde' \in [Pd -> Page \union {None}] BY <1>1 DEF IInv, TypeOK
    <2>2. pp_ref' \in [Page -> Nat]
      <3>1. pp_ref \in [Page -> Nat] /\ pp_ref[p] - 1 \in Nat BY <1>11 DEF IInv, TypeOK
      <3>2. QED BY <1>3, <3>1
    <2>3. QED BY <1>1, <1>3, <2>1, <2>2 DEF IInv, TypeOK
  <1>13. RefCount'
    <2>1. ASSUME NEW q \in Page
          PROVE  pp_ref'[q] = Cardinality(Mapped(q)') + Cardinality(Tables(q)')
                                                      + Cardinality(Directories(q)')
      <3>1. CASE q = p
        <4>1. pp_ref'[q] = pp_ref[p] - 1 BY <1>3, <3>1 DEF IInv, TypeOK
        <4>2. pp_ref[p] = Cardinality(Mapped(p)) + Cardinality(Tables(p))
                                                 + Cardinality(Directories(p))
          BY DEF IInv, RefCount
        <4>3. QED BY <1>6, <1>7, <1>10, <3>1, <4>1, <4>2, Sizes
      <3>2. CASE q # p
        <4>1. pp_ref'[q] = pp_ref[q] BY <1>3, <3>2 DEF IInv, TypeOK
        <4>2. QED BY <1>6, <1>7, <1>9, <3>2, <4>1 DEF IInv, RefCount
      <3>3. QED BY <3>1, <3>2
    <2>2. QED BY <2>1 DEF RefCount
  <1>14. FreeList'
    <2>1. ASSUME NEW q \in Page
          PROVE  q \in page_free_list' <=> pp_ref'[q] = 0 /\ q \notin InFlight'
      BY <1>3, <1>5, <1>11, FreeIsZero DEF IInv, TypeOK
    <2>2. QED BY <1>13, <2>1, ZeroIsFree
  <1>15. NewPage' BY <1>5 DEF NewPage
  <1>16. QueuedData'
    <2>1. p \notin page_swap_queue BY <1>8 DEF IInv, QueuedData
    <2>2. QED BY <1>1, <1>6, <1>7, <1>9, <2>1 DEF IInv, TypeOK, QueuedData
  <1>17. NoOrphans'
    <2>1. ASSUME NEW v \in VP, pte[v] # None PROVE Table(v)' # None
      <3>1. pde[<<v[1], Pdx[v[2]]>>] # None BY <2>1 DEF IInv, NoOrphans, Table
      <3>2. <<v[1], Pdx[v[2]]>> \in Pd BY PmapLayout DEF VP, Pd, PmapLayout
      <3>3. <<v[1], Pdx[v[2]]>> # d BY <1>1, <2>1
      <3>4. QED BY <1>1, <3>1, <3>2, <3>3 DEF Table, IInv, TypeOK
    <2>2. ASSUME NEW c \in Pd, pde'[c] # None PROVE Alive(c[1])'
      BY <1>1, <2>2 DEF IInv, NoOrphans, Alive, TypeOK
    <2>3. QED BY <1>1, <2>1, <2>2 DEF NoOrphans
  <1>18. TlbCoherent' BY <1>1 DEF IInv, TlbCoherent
  <1>19. NoPanic' /\ HandlerOp' BY <1>1 DEF IInv, NoPanic, HandlerOp
  <1>20. HandlerLocals'
    <2>1. evict = 0
      <3>1. ~NeedsPage BY <1>1 DEF NeedsPage, NeedsSwapBack, NeedsTable, Walking
      <3>2. QED BY <1>1, <3>1 DEF IInv, TypeOK, HandlerLocals
    <2>2. QED BY <1>1, <2>1 DEF IInv, HandlerLocals, Alive
  <1>21. HeldPage' /\ CallerKept' BY <1>1 DEF HeldPage, CallerKept
  <1>22. QED
    BY <1>6, <1>12, <1>13, <1>14, <1>15, <1>16, <1>17, <1>18, <1>19, <1>20, <1>21 DEF IInv

\* env_free ends with the page directory, which has no page table left.
LEMMA FreeDirKeeps ==
  ASSUME IInv, FreeDir
  PROVE  IInv'
  <1> USE DEF HandlerInv
  <1>1. /\ pc = "free" /\ Done
        /\ \A r \in Region : pde[<<dst[1], r>>] = None
        /\ pgdir' = [pgdir EXCEPT ![dst[1]] = None]
        /\ UNCHANGED <<pde, pte, page_swap_queue, ste, sinfo_free, sd_bitmap, mem, sd, tlb, evict>>
    BY DEF FreeDir, dvars
  <1>2. op = "free" /\ dst \in VP /\ Alive(dst[1]) BY <1>1 DEF IInv, HandlerOp, HandlerLocals
  <1>3. PICK e \in Env : e = dst[1] BY <1>2 DEF VP
  <1>4. PICK p \in Page : p = pgdir[e] BY <1>2, <1>3 DEF IInv, TypeOK, Alive
  <1>5. /\ pp_ref' = [pp_ref EXCEPT ![p] = @ - 1]
        /\ page_free_list' = page_free_list \union (IF pp_ref[p] = 1 THEN {p} ELSE {})
    BY <1>3, <1>4 DEF FreeDir, page_decref, FreedBy
  <1>6. InFlight = {} /\ InFlight' = {} BY <1>1, <1>2 DEF InFlight, Done
  <1>7. /\ SwapTable' /\ CowPrivate' /\ Bitmap' /\ SinfoPool'
        /\ \A x : Mapped(x)' = Mapped(x)
        /\ \A x : Registered(x)' = Registered(x)
    BY <1>1, PteFrame DEF IInv
  <1>8. \A x : Tables(x)' = Tables(x) BY <1>1 DEF Tables
  <1>9. e \in Directories(p) /\ Directories(p)' = Directories(p) \ {e}
    BY <1>1, <1>3, <1>4, PmapDisjoint DEF Directories, IInv, TypeOK, PmapDisjoint
  <1>10. \A q \in Page : q # p => Directories(q)' = Directories(q)
    BY <1>1, <1>3, <1>4, PmapDisjoint DEF Directories, PmapDisjoint, IInv, TypeOK
  <1>11. Cardinality(Directories(p)') = Cardinality(Directories(p)) - 1 BY <1>9, Sizes, OneLess
  <1>12. pp_ref[p] # 0 BY <1>9, ZeroRef DEF IInv
  <1>13. TypeOK'
    <2>1. pgdir' \in [Env -> Page \union {None}] BY <1>1 DEF IInv, TypeOK
    <2>2. pp_ref' \in [Page -> Nat]
      <3>1. pp_ref \in [Page -> Nat] /\ pp_ref[p] - 1 \in Nat BY <1>12 DEF IInv, TypeOK
      <3>2. QED BY <1>5, <3>1
    <2>3. QED BY <1>1, <1>5, <2>1, <2>2 DEF IInv, TypeOK, Done
  <1>14. RefCount'
    <2>1. ASSUME NEW q \in Page
          PROVE  pp_ref'[q] = Cardinality(Mapped(q)') + Cardinality(Tables(q)')
                                                      + Cardinality(Directories(q)')
      <3>1. CASE q = p
        <4>1. pp_ref'[q] = pp_ref[p] - 1 BY <1>5, <3>1 DEF IInv, TypeOK
        <4>2. pp_ref[p] = Cardinality(Mapped(p)) + Cardinality(Tables(p))
                                                 + Cardinality(Directories(p))
          BY DEF IInv, RefCount
        <4>3. QED BY <1>7, <1>8, <1>11, <3>1, <4>1, <4>2, Sizes
      <3>2. CASE q # p
        <4>1. pp_ref'[q] = pp_ref[q] BY <1>5, <3>2 DEF IInv, TypeOK
        <4>2. QED BY <1>7, <1>8, <1>10, <3>2, <4>1 DEF IInv, RefCount
      <3>3. QED BY <3>1, <3>2
    <2>2. QED BY <2>1 DEF RefCount
  <1>15. FreeList'
    <2>1. ASSUME NEW q \in Page
          PROVE  q \in page_free_list' <=> pp_ref'[q] = 0 /\ q \notin InFlight'
      BY <1>5, <1>6, <1>12, FreeIsZero DEF IInv, TypeOK
    <2>2. QED BY <1>14, <2>1, ZeroIsFree
  <1>16. NewPage' BY <1>6 DEF NewPage
  <1>17. QueuedData'
    <2>1. p \notin page_swap_queue BY <1>9 DEF IInv, QueuedData
    <2>2. QED BY <1>1, <1>7, <1>8, <1>10, <2>1 DEF IInv, TypeOK, QueuedData
  <1>18. NoOrphans'
    <2>1. ASSUME NEW c \in Pd, pde[c] # None PROVE Alive(c[1])'
      <3>1. Alive(c[1]) BY <2>1 DEF IInv, NoOrphans
      <3>2. c[1] \in Env /\ c[2] \in Region /\ c = <<c[1], c[2]>> BY DEF Pd
      <3>3. c[1] # e BY <1>1, <1>3, <2>1, <3>2
      <3>4. QED BY <1>1, <1>3, <3>1, <3>2, <3>3 DEF Alive, IInv, TypeOK
    <2>2. QED BY <1>1, <2>1 DEF IInv, NoOrphans, Table
  <1>19. TlbCoherent' BY <1>1 DEF IInv, TlbCoherent
  <1>20. NoPanic' /\ HandlerOp' BY <1>1 DEF NoPanic, HandlerOp, Done
  <1>21. HandlerLocals'
    <2>1. evict = 0
      <3>1. ~NeedsPage BY <1>1 DEF NeedsPage, NeedsSwapBack, NeedsTable, Walking
      <3>2. QED BY <1>1, <3>1 DEF IInv, TypeOK, HandlerLocals
    <2>2. QED BY <1>1, <2>1 DEF HandlerLocals, Done
  <1>22. HeldPage' /\ CallerKept' BY <1>1 DEF HeldPage, CallerKept, Done
  <1>23. QED
    BY <1>7, <1>13, <1>14, <1>15, <1>16, <1>17, <1>18, <1>19, <1>20, <1>21, <1>22 DEF IInv

-----------------------------------------------------------------------------
(* page_remove and page_insert *)

\* page_remove takes one mapping away: its reference, its SwapInfo, its TLB
\* entry, and the page itself if it was the last one.
LEMMA PageRemoveKeeps ==
  ASSUME IInv, NEW v \in VP, pte[v] \in Page, page_remove(v),
         UNCHANGED <<pgdir, pde, sd_bitmap, mem, sd, evict>>, InFlight' = InFlight,
         pc' \in {"user", "free", "insert"}, src' \in VP \union {None}, dst' \in VP \union {None},
         op' \in {"none", "alloc", "map", "ipc", "unmap", "touch", "exofork", "free"},
         pp' \in Page \union {None}, swappable' \in BOOLEAN
  PROVE  /\ TypeOK' /\ RefCount' /\ FreeList' /\ SwapTable' /\ QueuedData' /\ CowPrivate' /\ Bitmap'
         /\ SinfoPool' /\ TlbCoherent' /\ NoOrphans' /\ NoPanic' /\ NewPage'
         /\ \A w \in VP : pte'[w] = IF w = v THEN None ELSE pte[w]
         /\ \A q \in Page : q # pte[v] => (q \in page_swap_queue' <=> q \in page_swap_queue)
  <1> USE DEF HandlerInv
  <1>t. TypeOK BY DEF IInv
  <1>d. /\ None \notin Page /\ None \notin Block /\ Page \intersect Block = {}
    BY PmapDisjoint DEF PmapDisjoint
  <1>1. PICK p \in Page : p = pte[v] OBVIOUS
  <1>2. PICK left : left = Unregistered(p, v) OBVIOUS
  <1>3. /\ pp_ref' = [pp_ref EXCEPT ![p] = @ - 1]
        /\ page_free_list' = page_free_list \union (IF pp_ref[p] = 1 THEN {p} ELSE {})
        /\ ste' = [ste EXCEPT ![p] = left]
        /\ sinfo_free' = sinfo_free + (IF ste[p][v] > 0 THEN 1 ELSE 0)
        /\ page_swap_queue' = IF left = NoSinfo THEN page_swap_queue \ {p} ELSE page_swap_queue
        /\ pte' = [pte EXCEPT ![v] = None]
        /\ tlb' = tlb_invalidate({v})
    BY <1>1, <1>2 DEF page_remove, page_decref, FreedBy, SinfoBack, Dequeue
  <1>4. \A w \in VP : pte'[w] = IF w = v THEN None ELSE pte[w]
    BY <1>t, <1>3 DEF TypeOK
  <1>5. /\ left \in [VP -> Nat]
        /\ \A w \in VP : left[w] = IF w = v THEN 0 ELSE ste[p][w]
    <2>1. ste[p] \in [VP -> Nat] BY <1>t DEF TypeOK, Place
    <2>2. ste[p][v] \in {0, 1} BY EntryIs DEF IInv
    <2>3. left = [ste[p] EXCEPT ![v] = IF @ > 0 THEN @ - 1 ELSE 0] BY <1>2 DEF Unregistered
    <2>4. QED BY <2>1, <2>2, <2>3
  <1>6. left = NoSinfo <=> \A w \in VP : left[w] = 0 BY <1>5 DEF NoSinfo
  <1>7. /\ p \in page_swap_queue' <=> \E w \in VP : w # v /\ ste[p][w] = 1
        /\ \A q \in Page : q # p => (q \in page_swap_queue' <=> q \in page_swap_queue)
        /\ page_swap_queue' \subseteq page_swap_queue
    <2>1. \A w \in VP : ste[p][w] \in {0, 1} /\ (ste[p][w] = 1 => p \in page_swap_queue)
      BY EntryIs DEF IInv
    <2>2. p \in page_swap_queue => \E w \in VP : ste[p][w] > 0 BY DEF IInv, QueuedData, Registered
    <2>3. left = NoSinfo <=> \A w \in VP : w # v => ste[p][w] = 0 BY <1>5, <1>6
    <2>4. QED BY <1>3, <2>1, <2>3
  <1>8. /\ v \in Mapped(p) /\ Mapped(p)' = Mapped(p) \ {v}
        /\ \A x : x # p /\ x # None => Mapped(x)' = Mapped(x)
    BY <1>1, <1>4, <1>d DEF Mapped
  <1>9. /\ \A x : Tables(x)' = Tables(x)
        /\ \A x : Directories(x)' = Directories(x)
    BY DEF Tables, Directories
  <1>10. Cardinality(Mapped(p)') = Cardinality(Mapped(p)) - 1 BY <1>8, Sizes, OneLess
  <1>11. pp_ref[p] # 0 BY <1>8, ZeroRef DEF IInv
  <1>12. TypeOK'
    <2>1. pp_ref' \in [Page -> Nat]
      <3>1. pp_ref \in [Page -> Nat] /\ pp_ref[p] - 1 \in Nat BY <1>t, <1>11 DEF TypeOK
      <3>2. QED BY <1>3, <3>1
    <2>2. pte' \in [VP -> Place \union {None}] BY <1>t, <1>3 DEF TypeOK
    <2>3. ste' \in [Place -> [VP -> Nat]] BY <1>t, <1>3, <1>5 DEF TypeOK
    <2>4. tlb' \in [VP -> Page \union {None}] BY <1>t, <1>3, InvalidateDrops
    <2>5. sinfo_free' \in Nat BY <1>t, <1>3 DEF TypeOK
    <2>6. QED BY <1>t, <1>3, <1>7, <2>1, <2>2, <2>3, <2>4, <2>5 DEF TypeOK
  <1>13. RefCount'
    <2>1. ASSUME NEW q \in Page
          PROVE  pp_ref'[q] = Cardinality(Mapped(q)') + Cardinality(Tables(q)')
                                                      + Cardinality(Directories(q)')
      <3>1. CASE q = p
        <4>1. pp_ref'[q] = pp_ref[p] - 1 BY <1>t, <1>3, <3>1 DEF TypeOK
        <4>2. pp_ref[p] = Cardinality(Mapped(p)) + Cardinality(Tables(p))
                                                 + Cardinality(Directories(p))
          BY DEF IInv, RefCount
        <4>3. QED BY <1>9, <1>10, <3>1, <4>1, <4>2, Sizes
      <3>2. CASE q # p
        <4>1. pp_ref'[q] = pp_ref[q] BY <1>t, <1>3, <3>2 DEF TypeOK
        <4>2. Mapped(q)' = Mapped(q) BY <1>8, <1>d, <3>2
        <4>3. QED BY <1>9, <4>1, <4>2 DEF IInv, RefCount
      <3>3. QED BY <3>1, <3>2
    <2>2. QED BY <2>1 DEF RefCount
  <1>14. p \notin InFlight BY <1>8 DEF IInv, NewPage
  <1>15. FreeList'
    <2>1. ASSUME NEW q \in Page
          PROVE  q \in page_free_list' <=> pp_ref'[q] = 0 /\ q \notin InFlight'
      BY <1>t, <1>3, <1>11, <1>14, FreeIsZero DEF IInv, TypeOK
    <2>2. QED BY <1>13, <2>1, ZeroIsFree
  <1>16. NewPage'
    <2>1. \A q \in InFlight : Mapped(q)' = Mapped(q) BY <1>8, <1>14, <1>d DEF InFlight
    <2>2. QED BY <1>9, <2>1 DEF IInv, NewPage
  <1>17. SwapTable'
    <2>1. ASSUME NEW w \in VP, NEW q \in Page
          PROVE  /\ ste'[q][w] \in {0, 1}
                 /\ ste'[q][w] = 1 => q \in page_swap_queue' /\ pte'[w] = q
                 /\ q \in page_swap_queue' /\ pte'[w] = q /\ ste'[q][w] = 0 => Copying(w)'
      <3>0. /\ ste[q][w] \in {0, 1}
            /\ ste[q][w] = 1 => q \in page_swap_queue /\ pte[w] = q
            /\ q \in page_swap_queue /\ pte[w] = q /\ ste[q][w] = 0 => Copying(w)
        BY EntryIs DEF IInv
      <3>1. ste'[q][w] = IF q = p /\ w = v THEN 0 ELSE ste[q][w]
        BY <1>t, <1>3, <1>5 DEF TypeOK, Place
      <3>2. ste'[q][w] = 1 => q \in page_swap_queue' /\ pte'[w] = q
        <4>1. SUFFICES ASSUME ste'[q][w] = 1 PROVE q \in page_swap_queue' /\ pte'[w] = q OBVIOUS
        <4>2. ste[q][w] = 1 /\ pte[w] = q /\ q \in page_swap_queue BY <3>0, <3>1, <4>1
        <4>3. w # v BY <1>1, <3>1, <4>1, <4>2
        <4>4. QED BY <1>4, <1>7, <4>2, <4>3
      <3>3. ASSUME q \in page_swap_queue', pte'[w] = q, ste'[q][w] = 0 PROVE Copying(w)'
        <4>1. w # v /\ pte[w] = q BY <1>4, <1>d, <3>3
        <4>2. ste[q][w] = 0 BY <3>1, <3>3, <4>1
        <4>3. Copying(w) BY <1>7, <3>0, <3>3, <4>1, <4>2
        <4>4. PICK u \in VP : u = <<w[1], Ucow>> BY PmapLayout DEF VP, PmapLayout
        <4>5. pte[u] = q /\ u[2] = Ucow /\ w[2] # Ucow BY <4>1, <4>3, <4>4 DEF Copying
        <4>6. CASE u # v
          <5>1. pte'[u] = q /\ pte'[w] = q /\ q # None BY <1>4, <1>d, <3>3, <4>5, <4>6
          <5>2. QED BY <4>4, <4>5, <5>1 DEF Copying
        <4>7. CASE u = v
          <5>1. q = p BY <1>1, <4>5, <4>7
          <5>2. PICK x \in VP : x # v /\ ste[p][x] = 1 BY <1>7, <3>3, <5>1
          <5>3. pte[x] = p BY <5>2, EntryIs DEF IInv
          <5>4. w \in Mapped(pte[u]) \ {u} /\ x \in Mapped(pte[u]) \ {u}
            BY <4>1, <4>5, <4>7, <5>1, <5>2, <5>3 DEF Mapped
          <5>5. w = x BY <1>d, <4>5, <5>4 DEF IInv, CowPrivate
          <5>6. QED BY <4>2, <5>1, <5>2, <5>5
        <4>8. QED BY <4>6, <4>7
      <3>4. QED BY <3>0, <3>1, <3>2, <3>3
    <2>2. ASSUME NEW w \in VP, NEW c \in Block
          PROVE  ste'[c][w] = IF pte'[w] = c THEN 1 ELSE 0
      <3>1. ste'[c] = ste[c] BY <1>t, <1>3, <1>d DEF TypeOK, Place
      <3>2. pte'[w] = c <=> pte[w] = c BY <1>1, <1>4, <1>d
      <3>3. QED BY <3>1, <3>2 DEF IInv, SwapTable
    <2>3. page_swap_queue' \subseteq Page BY <1>12 DEF TypeOK
    <2>4. QED BY <2>1, <2>2, <2>3, SwapTableNext
  <1>18. QueuedData'
    <2>1. ASSUME NEW q \in page_swap_queue'
          PROVE  Registered(q)' # {} /\ Tables(q)' = {} /\ Directories(q)' = {}
      <3>1. q \in page_swap_queue /\ q \in Page BY <1>t, <1>7, <2>1 DEF TypeOK
      <3>2. CASE q = p
        <4>1. PICK w \in VP : w # v /\ ste[p][w] = 1 BY <1>7, <2>1, <3>2
        <4>2. ste'[q][w] = 1 BY <1>t, <1>3, <1>5, <3>2, <4>1 DEF TypeOK, Place
        <4>3. w \in {x \in VP : ste'[q][x] > 0} BY <4>2
        <4>4. QED BY <1>9, <3>1, <4>3 DEF IInv, QueuedData, Registered
      <3>3. CASE q # p
        <4>1. ste'[q] = ste[q] BY <1>t, <1>3, <3>1, <3>3 DEF TypeOK, Place
        <4>2. Registered(q)' = Registered(q) BY <4>1 DEF Registered
        <4>3. QED BY <1>9, <3>1, <4>2 DEF IInv, QueuedData
      <3>4. QED BY <3>2, <3>3
    <2>2. QED BY <2>1 DEF QueuedData
  <1>c. CowPrivate'
    <2>1. ASSUME NEW u \in VP, u[2] = Ucow, pte'[u] # None
          PROVE  \A w, x \in Mapped(pte[u])' \ {u} : w = x /\ w[1] = u[1]
      <3>1. u # v /\ pte'[u] = pte[u] BY <1>4, <2>1
      <3>2. Mapped(pte[u])' \subseteq Mapped(pte[u])
        <4>1. \A w \in VP : pte'[w] = pte'[u] => pte[w] = pte[u] BY <1>4, <2>1, <3>1
        <4>2. QED BY <4>1 DEF Mapped
      <3>3. QED BY <2>1, <3>1, <3>2 DEF IInv, CowPrivate
    <2>2. QED BY <2>1 DEF CowPrivate
  <1>19. Bitmap' BY <1>8, <1>d DEF IInv, Bitmap
  <1>20. SinfoPool'
    <2>1. IsFiniteSet(Pooled) /\ Cardinality(Pooled) \in Nat
      <3>1. Pooled \subseteq VP BY DEF Pooled
      <3>2. QED BY <3>1, CardVP
    <2>2. sinfo_free + Cardinality(Pooled) = MAX_SWAPINFO BY DEF IInv, SinfoPool, Pooled
    <2>3. sinfo_free \in Nat /\ MAX_SWAPINFO \in Nat BY <1>t, PmapBounds DEF TypeOK, PmapBounds
    <2>4. ASSUME NEW w \in VP PROVE HasSinfo(w)' <=> HasSinfo(w) /\ w # v
      <3>1. CASE w = v BY <1>4, <3>1 DEF HasSinfo
      <3>2. CASE w # v
        <4>1. pte'[w] = pte[w] BY <1>4, <3>2
        <4>2. pte[w] # None => ste'[pte[w]][w] = ste[pte[w]][w]
          BY <1>t, <1>3, <1>5, <3>2 DEF TypeOK
        <4>3. QED BY <3>2, <4>1, <4>2 DEF HasSinfo
      <3>3. QED BY <3>1, <3>2
    <2>5. Pooled' = Pooled \ {v} BY <2>4 DEF Pooled
    <2>6. ste[p][v] \in {0, 1} BY EntryIs DEF IInv
    <2>7. CASE ste[p][v] = 1
      <3>1. v \in Pooled BY <1>1, <1>d, <2>7 DEF Pooled, HasSinfo
      <3>2. Cardinality(Pooled') = Cardinality(Pooled) - 1 BY <2>1, <2>5, <3>1, OneLess
      <3>3. sinfo_free' + Cardinality(Pooled') = MAX_SWAPINFO
        BY <1>3, <2>1, <2>2, <2>3, <2>7, <3>2
      <3>4. QED BY <3>3 DEF SinfoPool, Pooled
    <2>8. CASE ste[p][v] = 0
      <3>1. v \notin Pooled BY <1>1, <2>8 DEF Pooled, HasSinfo
      <3>2. Pooled' = Pooled BY <2>5, <3>1
      <3>3. sinfo_free' + Cardinality(Pooled') = MAX_SWAPINFO
        BY <1>3, <2>1, <2>2, <2>3, <2>8, <3>2
      <3>4. QED BY <3>3 DEF SinfoPool, Pooled
    <2>9. QED BY <2>6, <2>7, <2>8
  <1>21. TlbCoherent'
    <2>1. ASSUME NEW w \in VP, tlb'[w] # None PROVE pte'[w] = tlb'[w]
      <3>1. w # v /\ tlb'[w] = tlb[w] BY <1>t, <1>3, <2>1, InvalidateDrops
      <3>2. QED BY <1>4, <2>1, <3>1 DEF IInv, TlbCoherent
    <2>2. QED BY <2>1 DEF TlbCoherent
  <1>22. NoOrphans' BY <1>4 DEF IInv, NoOrphans, Table, Alive
  <1>23. NoPanic' BY DEF NoPanic
  <1>24. QED
    BY <1>1, <1>4, <1>7, <1>12, <1>13, <1>15, <1>16, <1>17, <1>18, <1>c, <1>19, <1>20, <1>21, <1>22,
       <1>23

\* sys_mem_unmap and env_free's loop body.
LEMMA RemoveKeeps ==
  ASSUME IInv, Remove
  PROVE  IInv'
  <1> USE DEF HandlerInv
  <1>1. /\ pc = "remove" /\ pte[dst] \notin Block /\ op \in {"unmap", "free"} /\ pp = None
        /\ src \in VP /\ dst \in VP /\ Alive(dst[1])
        /\ UNCHANGED <<pgdir, pde, sd_bitmap, mem, sd, evict>>
    BY DEF Remove, dvars, IInv, HandlerOp, HandlerLocals
  <1>2. \/ /\ op = "free" /\ pc' = "free" /\ UNCHANGED <<op, src, dst, pp, swappable>>
        \/ op = "unmap" /\ Done
    BY <1>1 DEF Remove, Return, hvars
  <1>3. evict = 0
    <2>1. ~NeedsPage BY <1>1 DEF NeedsPage, NeedsSwapBack, NeedsTable, Walking, Operand
    <2>2. QED BY <1>1, <2>1 DEF IInv, TypeOK, HandlerLocals
  <1>4. InFlight = {} /\ InFlight' = {} BY <1>1, <1>2 DEF InFlight, Done
  <1>5. HandlerOp' BY <1>2 DEF HandlerOp, Done
  <1>6. HandlerLocals' BY <1>1, <1>2, <1>3 DEF HandlerLocals, Done, Alive
  <1>7. HeldPage' /\ CallerKept' BY <1>2 DEF HeldPage, CallerKept, Done
  <1>8. /\ pc' \in {"user", "free"} /\ op' \in {"none", "free"} /\ swappable' \in BOOLEAN
        /\ src' \in VP \union {None} /\ dst' \in VP \union {None} /\ pp' = None
    BY <1>1, <1>2 DEF Done, IInv, TypeOK
  <1>9. CASE pte[dst] = None
    <2>1. UNCHANGED <<pp_ref, page_free_list, ste, sinfo_free, page_swap_queue, pte, tlb>>
      BY <1>9 DEF Remove
    <2>2. UNCHANGED kvars BY <1>1, <2>1 DEF kvars
    <2>3. KInv' BY <2>2, KFrame DEF IInv, KInv
    <2>4. FreeList' /\ NewPage' BY <1>4, <2>2, FreeFrame DEF IInv
    <2>5. TypeOK' BY <1>1, <1>8, <2>1 DEF IInv, TypeOK
    <2>6. TlbCoherent' BY <2>1 DEF IInv, TlbCoherent
    <2>7. NoPanic' BY <1>8 DEF NoPanic
    <2>8. QED BY <1>5, <1>6, <1>7, <2>3, <2>4, <2>5, <2>6, <2>7 DEF IInv, KInv
  <1>10. CASE pte[dst] # None
    <2>1. page_remove(dst) BY <1>10 DEF Remove
    <2>2. pte[dst] \in Page BY <1>1, <1>10 DEF IInv, TypeOK, Place
    <2>3. /\ TypeOK' /\ RefCount' /\ FreeList' /\ SwapTable' /\ QueuedData' /\ CowPrivate' /\ Bitmap'
          /\ SinfoPool' /\ TlbCoherent' /\ NoOrphans' /\ NoPanic' /\ NewPage'
      BY <1>1, <1>4, <1>8, <2>1, <2>2, PageRemoveKeeps
    <2>4. QED BY <1>5, <1>6, <1>7, <2>3 DEF IInv
  <1>11. QED BY <1>9, <1>10

\* page_insert over another page: the page that is being inserted, and what
\* is known of it, stay.
LEMMA InsertRemoveKeeps ==
  ASSUME IInv, InsertRemove
  PROVE  IInv'
  <1> USE DEF HandlerInv
  <1>1. /\ pc = "insert" /\ pte[dst] \in Page \ {pp} /\ page_remove(dst)
        /\ src \in VP /\ dst \in VP /\ Alive(dst[1]) /\ pp \in Page
        /\ op \in {"alloc", "touch", "map", "ipc"}
        /\ UNCHANGED <<pgdir, pde, sd_bitmap, mem, sd, pc, op, src, dst, pp, swappable, evict>>
    BY DEF InsertRemove, dvars, hvars, IInv, HandlerOp, HandlerLocals
  <1>2. InFlight' = InFlight BY <1>1 DEF InFlight
  <1>3. /\ TypeOK' /\ RefCount' /\ FreeList' /\ SwapTable' /\ QueuedData' /\ CowPrivate' /\ Bitmap'
        /\ SinfoPool' /\ TlbCoherent' /\ NoOrphans' /\ NoPanic' /\ NewPage'
        /\ \A w \in VP : pte'[w] = IF w = dst THEN None ELSE pte[w]
        /\ \A q \in Page : q # pte[dst] => (q \in page_swap_queue' <=> q \in page_swap_queue)
    <2>1. swappable' \in BOOLEAN BY <1>1 DEF IInv, TypeOK
    <2>2. QED BY <1>1, <1>2, <2>1, PageRemoveKeeps
  <1>4. evict = 0
    <2>1. pte[dst] # None /\ pte[dst] \notin Block BY <1>1, PmapDisjoint DEF PmapDisjoint
    <2>2. ~NeedsPage
      BY <1>1, <2>1 DEF NeedsPage, NeedsSwapBack, NeedsTable, Walking, Operand
    <2>3. QED BY <1>1, <2>2 DEF IInv, TypeOK, HandlerLocals
  <1>5. HandlerOp' BY <1>1 DEF IInv, HandlerOp
  <1>6. HandlerLocals' BY <1>1, <1>4 DEF HandlerLocals, Alive
  <1>7. HeldPage'
    <2>1. SUFFICES ASSUME op \in {"map", "ipc"} PROVE HeldPage' BY <1>1 DEF HeldPage
    <2>2. pte[src] = pp /\ src # dst BY <1>1, <2>1 DEF IInv, HeldPage
    <2>3. pp # None BY <1>1, PmapDisjoint DEF PmapDisjoint
    <2>4. HeldPage /\ pte[dst] # pp BY <1>1 DEF IInv
    <2>5. pp \in page_swap_queue' <=> pp \in page_swap_queue BY <1>1, <1>3
    <2>6. pte'[src] = pp /\ pte'[dst] = None BY <1>1, <1>3, <2>2
    <2>7. Copying(src)' => Copying(src)
      <3>1. <<src[1], Ucow>> \in VP BY <1>1, PmapLayout DEF VP, PmapLayout
      <3>2. QED BY <1>1, <1>3, <2>2, <2>3, <2>6, <3>1 DEF Copying
    <2>8. Mapped(pp)' = Mapped(pp)
      <3>1. \A w \in VP : pte'[w] = pp <=> pte[w] = pp BY <1>1, <1>3, <2>3
      <3>2. QED BY <1>1, <3>1 DEF Mapped
    <2>9. QED BY <1>1, <2>1, <2>2, <2>3, <2>4, <2>5, <2>6, <2>7, <2>8 DEF HeldPage
  <1>8. CallerKept' BY <1>1 DEF CallerKept
  <1>9. QED BY <1>3, <1>5, <1>6, <1>7, <1>8 DEF IInv

\* The end of page_insert for a page that is already there (sys_mem_map of a
\* virtual page onto itself): only the TLB entry goes.
LEMMA InsertSameKeeps ==
  ASSUME IInv, Insert, pte[dst] = pp
  PROVE  IInv'
  <1> USE DEF HandlerInv
  <1>1. /\ pc = "insert" /\ src \in VP /\ dst \in VP /\ Alive(dst[1]) /\ pp \in Page
        /\ op \in {"alloc", "touch", "map", "ipc"}
    BY DEF Insert, IInv, HandlerOp, HandlerLocals
  <1>2. op \in {"map", "ipc"}
    <2>1. dst \in Mapped(pp) BY <1>1 DEF Mapped
    <2>2. QED BY <1>1, <2>1 DEF IInv, NewPage, InFlight
  <1>3. src = dst BY <1>1, <1>2 DEF IInv, HeldPage
  <1>4. ~ToRegister BY <1>2, <1>3 DEF ToRegister
  <1>5. /\ pte' = [pte EXCEPT ![dst] = pp] /\ pp_ref' = pp_ref
        /\ tlb' = tlb_invalidate({dst}) /\ Done
        /\ UNCHANGED <<sinfo_free, page_swap_queue, ste, page_free_list, pgdir, pde, sd_bitmap,
                       mem, sd, evict>>
    BY <1>2, <1>4 DEF Insert, Return, dvars
  <1>6. pte' = pte BY <1>1, <1>5 DEF IInv, TypeOK
  <1>7. UNCHANGED kvars BY <1>5, <1>6 DEF kvars
  <1>8. KInv' BY <1>7, KFrame DEF IInv, KInv
  <1>9. InFlight = {} /\ InFlight' = {} BY <1>2, <1>5 DEF InFlight, Done
  <1>10. FreeList' /\ NewPage' BY <1>7, <1>9, FreeFrame DEF IInv
  <1>11. /\ tlb' \in [VP -> Page \union {None}]
         /\ \A v \in VP : tlb'[v] # None => tlb'[v] = tlb[v]
    BY <1>5, InvalidateDrops DEF IInv
  <1>12. TypeOK' BY <1>5, <1>6, <1>11 DEF IInv, TypeOK, Done
  <1>13. TlbCoherent' BY <1>6, <1>11 DEF IInv, TlbCoherent
  <1>14. evict = 0
    <2>1. pte[dst] # None /\ pte[dst] \notin Block BY <1>1, PmapDisjoint DEF PmapDisjoint
    <2>2. ~NeedsPage
      BY <1>1, <2>1 DEF NeedsPage, NeedsSwapBack, NeedsTable, Walking, Operand
    <2>3. QED BY <1>1, <2>2 DEF IInv, TypeOK, HandlerLocals
  <1>15. NoPanic' /\ HandlerOp' BY <1>5 DEF NoPanic, HandlerOp, Done
  <1>16. HandlerLocals' BY <1>5, <1>14 DEF HandlerLocals, Done
  <1>17. HeldPage' /\ CallerKept' BY <1>5 DEF HeldPage, CallerKept, Done
  <1>18. QED BY <1>8, <1>10, <1>12, <1>13, <1>15, <1>16, <1>17 DEF IInv, KInv

\* A new mapping at the end of page_insert, with or without swap_register: a
\* page that is registered gets one that is not from cow_entry only.
LEMMA InsertNewKeeps ==
  ASSUME IInv, Insert, pte[dst] # pp, ~(ToRegister /\ sinfo_free = 0)
  PROVE  IInv'
  <1> USE DEF HandlerInv
  <1>t. TypeOK BY DEF IInv
  <1>d. /\ None \notin Page /\ None \notin Block /\ Page \intersect Block = {}
    BY PmapDisjoint DEF PmapDisjoint
  <1>1. /\ pc = "insert" /\ src \in VP /\ dst \in VP /\ Alive(dst[1])
        /\ op \in {"alloc", "touch", "map", "ipc"}
        /\ pte[dst] = None /\ Table(dst) # None /\ pp \in Page
    BY DEF Insert, IInv, HandlerOp, HandlerLocals
  <1>2. PICK q \in Page : q = pp BY <1>1
  <1>3. /\ pte' = [pte EXCEPT ![dst] = q]
        /\ pp_ref' = [pp_ref EXCEPT ![q] = @ + 1]
        /\ tlb' = tlb_invalidate({dst})
        /\ IF ToRegister THEN swap_register(q, dst) ELSE UNCHANGED <<sinfo_free, page_swap_queue, ste>>
        /\ Return
        /\ UNCHANGED <<page_free_list, pgdir, pde, sd_bitmap, mem, sd, evict>>
    BY <1>2 DEF Insert, dvars
  <1>4. \/ /\ op = "touch" /\ pc' = "refill" /\ pp' = None /\ UNCHANGED <<op, src, dst, swappable>>
        \/ Done
    BY <1>1, <1>3 DEF Return
  <1>5. /\ op \in {"alloc", "touch"} => Mapped(q) = {} /\ q \notin page_swap_queue /\ q \in InFlight
        /\ op \in {"map", "ipc"} => pte[src] = q /\ src # dst /\ dst[2] # Ucow
        /\ op \in {"map", "ipc"} /\ src[2] = Ucow =>
             src[1] = dst[1] /\ q \in page_swap_queue /\ Mapped(q) = {src}
        /\ op \in {"map", "ipc"} /\ src[2] # Ucow =>
             ~Copying(src) /\ (swappable <=> q \in page_swap_queue)
        /\ (Tables(q) = {} /\ Directories(q) = {}) \/ op \in {"map", "ipc"}
    BY <1>1, <1>2, <1>d, QueuedIs DEF IInv, NewPage, InFlight, HeldPage
  <1>6. /\ ToRegister => q \in page_swap_queue \/ Mapped(q) = {}
        /\ ~ToRegister /\ q \in page_swap_queue =>
             op \in {"map", "ipc"} /\ src[2] = Ucow /\ src[1] = dst[1]
        /\ ToRegister => Tables(q) = {} /\ Directories(q) = {}
    BY <1>1, <1>5 DEF ToRegister, IInv, QueuedData
  <1>7. q \notin page_free_list
    <2>1. CASE op \in {"alloc", "touch"} BY <1>5, <2>1 DEF IInv, FreeList
    <2>2. CASE op \in {"map", "ipc"}
      <3>1. src \in Mapped(q) BY <1>1, <1>5, <2>2 DEF Mapped
      <3>2. QED BY <3>1 DEF IInv, FreeList
    <2>3. QED BY <1>1, <2>1, <2>2
  <1>8. page_swap_queue' = page_swap_queue \union (IF ToRegister THEN {q} ELSE {})
    <2>1. ste[q] # NoSinfo => q \in page_swap_queue
      <3>1. SUFFICES ASSUME q \notin page_swap_queue PROVE ste[q] = NoSinfo OBVIOUS
      <3>2. ste[q] \in [VP -> Nat] BY <1>t DEF TypeOK, Place
      <3>3. \A w \in VP : ste[q][w] = 0 BY <3>1 DEF IInv, SwapTable
      <3>4. QED BY <3>2, <3>3 DEF NoSinfo
    <2>2. QED BY <1>3, <2>1 DEF swap_register
  <1>9. /\ sinfo_free' = sinfo_free - (IF ToRegister THEN 1 ELSE 0)
        /\ ste' = IF ToRegister THEN [ste EXCEPT ![q][dst] = @ + 1] ELSE ste
    <2>1. sinfo_free \in Nat BY <1>t DEF TypeOK
    <2>2. QED BY <1>3, <2>1 DEF swap_register
  <1>10. \A w \in VP : pte'[w] = IF w = dst THEN q ELSE pte[w] BY <1>t, <1>3 DEF TypeOK
  <1>e. /\ \A w \in VP : \A p \in Page :
             ste'[p][w] = IF ToRegister /\ p = q /\ w = dst THEN 1 ELSE ste[p][w]
        /\ \A x \in Place : x # q => ste'[x] = ste[x]
        /\ ste[q][dst] = 0
    <2>1. ste[q][dst] = 0 BY <1>1, <1>d DEF IInv, SwapTable
    <2>2. ste[q] \in [VP -> Nat] /\ q \in Place BY <1>t DEF TypeOK, Place
    <2>3. CASE ToRegister
      <3>1. ste' = [ste EXCEPT ![q] = [ste[q] EXCEPT ![dst] = 1]]
        BY <1>9, <2>1, <2>3
      <3>2. \A x \in Place : ste'[x] = IF x = q THEN [ste[q] EXCEPT ![dst] = 1] ELSE ste[x]
        BY <1>t, <3>1 DEF TypeOK
      <3>3. \A w \in VP : ste'[q][w] = IF w = dst THEN 1 ELSE ste[q][w] BY <2>2, <3>2
      <3>4. QED BY <2>1, <2>3, <3>2, <3>3 DEF Place
    <2>4. CASE ~ToRegister BY <1>9, <2>1, <2>4
    <2>5. QED BY <2>3, <2>4
  <1>11. /\ dst \notin Mapped(q) /\ Mapped(q)' = Mapped(q) \union {dst}
         /\ \A x : x # q /\ x # None => Mapped(x)' = Mapped(x)
    BY <1>1, <1>10, <1>d DEF Mapped
  <1>12. /\ \A x : Tables(x)' = Tables(x)
         /\ \A x : Directories(x)' = Directories(x)
    BY <1>3 DEF Tables, Directories
  <1>13. TypeOK'
    <2>1. pp_ref' \in [Page -> Nat] BY <1>t, <1>3 DEF TypeOK
    <2>2. pte' \in [VP -> Place \union {None}] BY <1>t, <1>3 DEF TypeOK, Place
    <2>3. ste' \in [Place -> [VP -> Nat]]
      <3>1. ste[q] \in [VP -> Nat] /\ q \in Place BY <1>t DEF TypeOK, Place
      <3>2. [ste[q] EXCEPT ![dst] = @ + 1] \in [VP -> Nat] BY <1>1, <3>1
      <3>3. QED BY <1>t, <1>9, <3>1, <3>2 DEF TypeOK
    <2>4. tlb' \in [VP -> Page \union {None}] BY <1>t, <1>3, InvalidateDrops
    <2>5. sinfo_free' \in Nat
      <3>1. sinfo_free \in Nat BY <1>t DEF TypeOK
      <3>2. CASE ToRegister
        <4>1. sinfo_free # 0 BY <3>2
        <4>2. sinfo_free' = sinfo_free - 1 BY <1>9, <3>2
        <4>3. QED BY <3>1, <4>1, <4>2
      <3>3. CASE ~ToRegister
        <4>1. sinfo_free' = sinfo_free - 0 BY <1>9, <3>3
        <4>2. QED BY <3>1, <4>1
      <3>4. QED BY <3>2, <3>3
    <2>6. page_swap_queue' \subseteq Page BY <1>t, <1>8 DEF TypeOK
    <2>7. QED BY <1>t, <1>3, <1>4, <2>1, <2>2, <2>3, <2>4, <2>5, <2>6 DEF TypeOK, Done
  <1>14. RefCount'
    <2>1. ASSUME NEW p \in Page
          PROVE  pp_ref'[p] = Cardinality(Mapped(p)') + Cardinality(Tables(p)')
                                                      + Cardinality(Directories(p)')
      <3>1. CASE p = q
        <4>1. pp_ref'[p] = pp_ref[q] + 1 BY <1>t, <1>3, <3>1 DEF TypeOK
        <4>2. pp_ref[q] = Cardinality(Mapped(q)) + Cardinality(Tables(q))
                                                 + Cardinality(Directories(q))
          BY DEF IInv, RefCount
        <4>3. Cardinality(Mapped(q)') = Cardinality(Mapped(q)) + 1 BY <1>11, Sizes, OneMore
        <4>4. QED BY <1>12, <3>1, <4>1, <4>2, <4>3, Sizes
      <3>2. CASE p # q
        <4>1. pp_ref'[p] = pp_ref[p] BY <1>t, <1>3, <3>2 DEF TypeOK
        <4>2. Mapped(p)' = Mapped(p) BY <1>11, <1>d, <3>2
        <4>3. QED BY <1>12, <4>1, <4>2 DEF IInv, RefCount
      <3>3. QED BY <3>1, <3>2
    <2>2. QED BY <2>1 DEF RefCount
  <1>15. InFlight \subseteq {q} /\ InFlight' = {} BY <1>2, <1>4, <1>d DEF InFlight, Done
  <1>16. FreeList'
    <2>1. ASSUME NEW p \in Page
          PROVE  p \in page_free_list' <=> pp_ref'[p] = 0 /\ p \notin InFlight'
      BY <1>t, <1>3, <1>7, <1>15, FreeIsZero DEF IInv, TypeOK
    <2>2. QED BY <1>14, <2>1, ZeroIsFree
  <1>17. NewPage' BY <1>15 DEF NewPage
  <1>18. SwapTable'
    <2>1. ASSUME NEW w \in VP, NEW p \in Page
          PROVE  /\ ste'[p][w] \in {0, 1}
                 /\ ste'[p][w] = 1 => p \in page_swap_queue' /\ pte'[w] = p
                 /\ p \in page_swap_queue' /\ pte'[w] = p /\ ste'[p][w] = 0 => Copying(w)'
      <3>0. /\ ste[p][w] \in {0, 1}
            /\ ste[p][w] = 1 => p \in page_swap_queue /\ pte[w] = p
            /\ p \in page_swap_queue /\ pte[w] = p /\ ste[p][w] = 0 => Copying(w)
        BY EntryIs DEF IInv
      <3>1. ste'[p][w] = IF ToRegister /\ p = q /\ w = dst THEN 1 ELSE ste[p][w] BY <1>e
      <3>2. ste'[p][w] = 1 => p \in page_swap_queue' /\ pte'[w] = p
        BY <1>1, <1>8, <1>10, <1>d, <3>0, <3>1
      <3>3. ASSUME p \in page_swap_queue', pte'[w] = p, ste'[p][w] = 0 PROVE Copying(w)'
        <4>u. PICK u \in VP : u = <<w[1], Ucow>> BY PmapLayout DEF VP, PmapLayout
        <4>1. CASE w = dst
          <5>1. p = q /\ ~ToRegister BY <1>10, <3>1, <3>3, <4>1
          <5>2. q \in page_swap_queue BY <1>8, <3>3, <5>1
          <5>3. /\ op \in {"map", "ipc"} /\ src[2] = Ucow /\ src[1] = dst[1]
                /\ pte[src] = q /\ src # dst /\ dst[2] # Ucow
            BY <1>5, <1>6, <5>1, <5>2
          <5>4. u = src BY <1>1, <4>1, <4>u, <5>3 DEF VP
          <5>5. pte'[u] = q BY <1>10, <5>3, <5>4
          <5>6. QED BY <1>d, <3>3, <4>1, <4>u, <5>1, <5>3, <5>5 DEF Copying
        <4>2. CASE w # dst
          <5>1. pte[w] = p /\ ste[p][w] = 0 BY <1>10, <3>1, <3>3, <4>2
          <5>2. p \in page_swap_queue
            <6>1. CASE p # q BY <1>8, <3>3, <6>1
            <6>2. CASE p = q
              <7>1. w \in Mapped(q) BY <5>1, <6>2 DEF Mapped
              <7>2. QED BY <1>6, <1>8, <3>3, <6>2, <7>1
            <6>3. QED BY <6>1, <6>2
          <5>3. Copying(w) BY <3>0, <5>1, <5>2
          <5>4. pte[u] = p /\ w[2] # Ucow BY <4>u, <5>1, <5>3 DEF Copying
          <5>5. u # dst BY <1>1, <1>d, <5>4
          <5>6. pte'[u] = p /\ pte'[w] = p /\ p # None BY <1>10, <1>d, <3>3, <5>4, <5>5
          <5>7. QED BY <4>u, <5>4, <5>6 DEF Copying
        <4>3. QED BY <4>1, <4>2
      <3>4. QED BY <3>0, <3>1, <3>2, <3>3
    <2>2. ASSUME NEW w \in VP, NEW c \in Block
          PROVE  ste'[c][w] = IF pte'[w] = c THEN 1 ELSE 0
      <3>1. ste'[c] = ste[c] BY <1>t, <1>9, <1>d DEF TypeOK, Place
      <3>2. pte'[w] = c <=> pte[w] = c BY <1>1, <1>10, <1>d
      <3>3. QED BY <3>1, <3>2 DEF IInv, SwapTable
    <2>3. page_swap_queue' \subseteq Page BY <1>13 DEF TypeOK
    <2>4. QED BY <2>1, <2>2, <2>3, SwapTableNext
  <1>19. QueuedData'
    <2>1. ASSUME NEW p \in page_swap_queue'
          PROVE  Registered(p)' # {} /\ Tables(p)' = {} /\ Directories(p)' = {}
      <3>0. p \in Page BY <1>13, <2>1 DEF TypeOK
      <3>1. CASE p = q /\ ToRegister
        <4>1. ste'[q][dst] = 1 BY <1>1, <1>e, <3>1
        <4>2. dst \in {w \in VP : ste'[p][w] > 0} BY <1>1, <3>1, <4>1
        <4>3. QED BY <1>6, <1>12, <3>1, <4>2 DEF Registered
      <3>2. CASE ~(p = q /\ ToRegister)
        <4>1. p \in page_swap_queue BY <1>8, <2>1, <3>2
        <4>2. \A w \in VP : ste'[p][w] = ste[p][w] BY <1>e, <3>0, <3>2
        <4>3. Registered(p)' = Registered(p) BY <4>2 DEF Registered
        <4>4. QED BY <1>12, <4>1, <4>3 DEF IInv, QueuedData
      <3>3. QED BY <3>1, <3>2
    <2>2. QED BY <2>1 DEF QueuedData
  <1>c. CowPrivate'
    <2>1. ASSUME NEW u \in VP, u[2] = Ucow, pte'[u] # None
          PROVE  \A w, x \in Mapped(pte[u])' \ {u} : w = x /\ w[1] = u[1]
      <3>1. CASE u = dst
        <4>1. op \in {"alloc", "touch"} BY <1>1, <1>5, <2>1, <3>1
        <4>2. Mapped(q)' = {dst} BY <1>5, <1>11, <4>1
        <4>3. Mapped(pte[u])' = Mapped(q)' BY <1>10, <3>1 DEF Mapped
        <4>4. QED BY <3>1, <4>2, <4>3
      <3>2. CASE u # dst /\ pte[u] # q
        <4>1. pte'[u] = pte[u] BY <1>10, <3>2
        <4>2. Mapped(pte[u])' = Mapped(pte[u])
          BY <1>1, <1>10, <2>1, <3>2, <4>1 DEF Mapped
        <4>3. QED BY <2>1, <4>1, <4>2 DEF IInv, CowPrivate
      <3>3. CASE u # dst /\ pte[u] = q
        <4>1. u \in Mapped(q) BY <3>3 DEF Mapped
        <4>2. op \in {"map", "ipc"} BY <1>1, <1>5, <4>1
        <4>3. src[2] = Ucow
          <5>1. SUFFICES ASSUME src[2] # Ucow PROVE FALSE OBVIOUS
          <5>2. src \in Mapped(pte[u]) \ {u} BY <1>1, <1>5, <2>1, <3>3, <4>2, <5>1 DEF Mapped
          <5>3. src[1] = u[1] BY <1>d, <2>1, <3>3, <5>2 DEF IInv, CowPrivate
          <5>4. u = <<src[1], Ucow>> BY <2>1, <5>3 DEF VP
          <5>5. Copying(src) BY <1>5, <1>d, <3>3, <4>2, <5>1, <5>4 DEF Copying
          <5>6. QED BY <1>5, <4>2, <5>1, <5>5
        <4>4. Mapped(q) = {src} /\ src[1] = dst[1] BY <1>5, <4>2, <4>3
        <4>5. u = src BY <4>1, <4>4
        <4>6. Mapped(q)' = {src, dst} BY <1>11, <4>4
        <4>7. Mapped(pte[u])' = Mapped(q)' BY <1>10, <3>3 DEF Mapped
        <4>8. QED BY <4>4, <4>5, <4>6, <4>7
      <3>4. QED BY <3>1, <3>2, <3>3
    <2>2. QED BY <2>1 DEF CowPrivate
  <1>20. Bitmap' BY <1>3, <1>11, <1>d DEF IInv, Bitmap
  <1>21. SinfoPool'
    <2>1. IsFiniteSet(Pooled) /\ Cardinality(Pooled) \in Nat
      <3>1. Pooled \subseteq VP BY DEF Pooled
      <3>2. QED BY <3>1, CardVP
    <2>2. sinfo_free + Cardinality(Pooled) = MAX_SWAPINFO BY DEF IInv, SinfoPool, Pooled
    <2>3. sinfo_free \in Nat /\ MAX_SWAPINFO \in Nat BY <1>t, PmapBounds DEF TypeOK, PmapBounds
    <2>4. dst \notin Pooled BY <1>1 DEF Pooled, HasSinfo
    <2>5. ASSUME NEW w \in VP, w # dst PROVE HasSinfo(w)' <=> HasSinfo(w)
      <3>1. pte'[w] = pte[w] BY <1>10, <2>5
      <3>2. pte[w] # None => ste'[pte[w]][w] = ste[pte[w]][w]
        BY <1>t, <1>e, <2>5 DEF TypeOK
      <3>3. QED BY <3>1, <3>2 DEF HasSinfo
    <2>6. ASSUME NEW w \in VP, w = dst PROVE HasSinfo(w)' <=> ToRegister
      <3>1. pte'[w] = q /\ q # None BY <1>1, <1>10, <1>d, <2>6
      <3>2. ste'[q][w] = IF ToRegister THEN 1 ELSE 0 BY <1>1, <1>e, <2>6
      <3>3. QED BY <3>1, <3>2 DEF HasSinfo
    <2>7. CASE ToRegister
      <3>1. Pooled' = Pooled \union {dst} BY <1>1, <2>5, <2>6, <2>7 DEF Pooled
      <3>2. Cardinality(Pooled') = Cardinality(Pooled) + 1 BY <2>1, <2>4, <3>1, OneMore
      <3>3. sinfo_free' + Cardinality(Pooled') = MAX_SWAPINFO
        BY <1>9, <2>1, <2>2, <2>3, <2>7, <3>2
      <3>4. QED BY <3>3 DEF SinfoPool, Pooled
    <2>8. CASE ~ToRegister
      <3>1. Pooled' = Pooled BY <2>4, <2>5, <2>6, <2>8 DEF Pooled
      <3>2. sinfo_free' + Cardinality(Pooled') = MAX_SWAPINFO
        BY <1>9, <2>1, <2>2, <2>3, <2>8, <3>1
      <3>3. QED BY <3>2 DEF SinfoPool, Pooled
    <2>9. QED BY <2>7, <2>8
  <1>22. TlbCoherent'
    <2>1. ASSUME NEW w \in VP, tlb'[w] # None PROVE pte'[w] = tlb'[w]
      <3>1. w # dst /\ tlb'[w] = tlb[w] BY <1>t, <1>3, <2>1, InvalidateDrops
      <3>2. QED BY <1>10, <2>1, <3>1 DEF IInv, TlbCoherent
    <2>2. QED BY <2>1 DEF TlbCoherent
  <1>23. NoOrphans' BY <1>1, <1>3, <1>10 DEF IInv, NoOrphans, Table, Alive
  <1>24. evict = 0
    <2>1. ~NeedsPage
      BY <1>1, <1>d DEF NeedsPage, NeedsSwapBack, NeedsTable, Walking, Operand
    <2>2. QED BY <1>1, <2>1 DEF IInv, TypeOK, HandlerLocals
  <1>25. NoPanic' /\ HandlerOp' BY <1>4 DEF NoPanic, HandlerOp, Done
  <1>26. HandlerLocals' BY <1>1, <1>3, <1>4, <1>24 DEF HandlerLocals, Done, Alive
  <1>27. HeldPage' /\ CallerKept' BY <1>4 DEF HeldPage, CallerKept, Done
  <1>28. QED
    BY <1>13, <1>14, <1>16, <1>17, <1>18, <1>19, <1>c, <1>20, <1>21, <1>22, <1>23, <1>25, <1>26, <1>27
       DEF IInv

-----------------------------------------------------------------------------
(* The theorems *)

\* Every step of a handler keeps the invariant.
LEMMA KernelKeeps ==
  ASSUME IInv, LibKernel
  PROVE  IInv'
  <1>1. ASSUME Kernel PROVE IInv'
    <2>1. ASSUME DiskFull PROVE IInv' BY <2>1, PanicKeeps DEF DiskFull
    <2>2. ASSUME NoPageLeft PROVE IInv' BY <2>2, PanicKeeps DEF NoPageLeft
    <2>3. ASSUME NEW p \in Page, TakePage(p) PROVE IInv'
      BY <2>3, TakeDataKeeps, TakeDirKeeps
    <2>4. ASSUME Insert PROVE IInv'
      <3>1. CASE ToRegister /\ sinfo_free = 0
        <4>1. Panic("nosinfo") BY <2>4, <3>1 DEF Insert
        <4>2. QED BY <4>1, PanicKeeps
      <3>2. CASE ~(ToRegister /\ sinfo_free = 0)
        BY <2>4, <3>2, InsertSameKeeps, InsertNewKeeps
      <3>3. QED BY <3>1, <3>2
    <2>5. ASSUME Halted PROVE IInv' BY <2>5, StutterKeeps DEF Halted
    <2>6. QED
      BY <1>1, <2>1, <2>2, <2>3, <2>4, <2>5, TakeTableKeeps, SwapBackKeeps, LookupDstKeeps,
         LookupSrcKeeps, RemoveKeeps, InsertRemoveKeeps, RefillKeeps, FreeVaKeeps,
         FreeTableKeeps, FreeDirKeeps
      DEF Kernel
  <1>2. ASSUME HeldEvicted PROVE IInv' BY <1>2, PanicKeeps DEF HeldEvicted
  <1>3. QED BY <1>1, <1>2, SwapKeeps, SwapPanicKeeps DEF LibKernel

\* The state page_init and swap_init leave satisfies the invariant.
LEMMA InitHolds ==
  ASSUME Init
  PROVE  IInv
  <1>d. /\ None \notin Page /\ None \notin Block BY PmapDisjoint DEF PmapDisjoint
  <1>1. /\ \A x \in Place : Mapped(x) = {}
        /\ \A x \in Page : Tables(x) = {} /\ Directories(x) = {}
    BY <1>d DEF Init, Mapped, Tables, Directories, Place
  <1>2. TypeOK
    <2>1. NoSinfo \in [VP -> Nat] BY DEF NoSinfo
    <2>2. ste \in [Place -> [VP -> Nat]] BY <2>1 DEF Init
    <2>3. /\ sinfo_free \in Nat /\ Zero \in Data /\ NSWAP \in Nat
      BY PmapLayout, PmapBounds DEF Init, PmapLayout, PmapBounds
    <2>4. /\ pp_ref \in [Page -> Nat] /\ mem \in [Page -> Data] /\ sd \in [Block -> Data]
          /\ evict \in 0..NSWAP
      BY <2>3 DEF Init
    <2>5. QED BY <2>2, <2>3, <2>4 DEF Init, TypeOK
  <1>3. RefCount
    <2>1. ASSUME NEW p \in Page
          PROVE  pp_ref[p] = Cardinality(Mapped(p)) + Cardinality(Tables(p))
                                                    + Cardinality(Directories(p))
      <3>1. p \in Place BY DEF Place
      <3>2. Cardinality({}) = 0 BY FS_EmptySet
      <3>3. /\ Cardinality(Mapped(p)) = 0 /\ Cardinality(Tables(p)) = 0
            /\ Cardinality(Directories(p)) = 0
        BY <1>1, <3>1, <3>2
      <3>4. pp_ref[p] = 0 BY DEF Init
      <3>5. QED BY <3>3, <3>4
    <2>2. QED BY <2>1 DEF RefCount
  <1>4. InFlight = {} BY DEF Init, InFlight
  <1>5. FreeList BY <1>1, <1>4 DEF Init, FreeList, Place
  <1>6. SwapTable BY <1>d DEF Init, SwapTable, Bare, NoSinfo, Place
  <1>7. QueuedData /\ CowPrivate /\ Bitmap
    BY <1>1 DEF Init, QueuedData, CowPrivate, Bitmap, Place
  <1>8. SinfoPool
    <2>1. {v \in VP : HasSinfo(v)} = {} BY DEF Init, HasSinfo
    <2>2. sinfo_free = MAX_SWAPINFO /\ MAX_SWAPINFO \in Nat BY PmapBounds DEF Init, PmapBounds
    <2>3. Cardinality({v \in VP : HasSinfo(v)}) = 0 BY <2>1, FS_EmptySet
    <2>4. QED BY <2>2, <2>3 DEF SinfoPool
  <1>9. TlbCoherent /\ NoOrphans BY DEF Init, TlbCoherent, NoOrphans
  <1>10. NoPanic /\ HandlerOp /\ HandlerLocals BY DEF Init, NoPanic, HandlerOp, HandlerLocals
  <1>11. NewPage /\ HeldPage /\ CallerKept BY <1>4 DEF Init, NewPage, HeldPage, CallerKept
  <1>12. QED
    BY <1>2, <1>3, <1>5, <1>6, <1>7, <1>8, <1>9, <1>10, <1>11 DEF IInv, HandlerInv

(***************************************************************************)
(* pmap.c, tlbex.c and the memory system calls keep the whole invariant,   *)
(* whatever the programs call (within PmapLib) and whichever pages and     *)
(* blocks swap() picks, for every size of the machine.                     *)
(***************************************************************************)
THEOREM IInvHolds == LibSpec => []IInv
  <1>1. Init => IInv BY InitHolds
  <1>2. IInv /\ [LibNext]_vars => IInv'
    <2>1. SUFFICES ASSUME IInv, [LibNext]_vars PROVE IInv' OBVIOUS
    <2>2. CASE LibUser BY <2>1, <2>2, UserKeeps
    <2>3. CASE LibKernel BY <2>1, <2>3, KernelKeeps
    <2>4. CASE LibHalted BY <2>1, <2>4, StutterKeeps DEF LibHalted
    <2>5. CASE UNCHANGED vars BY <2>1, <2>5, StutterKeeps
    <2>6. QED BY <2>1, <2>2, <2>3, <2>4, <2>5 DEF LibNext
  <1>3. QED BY <1>1, <1>2, PTL DEF LibSpec

\* The kernel structures and the handler locals keep their types; pp_ref and
\* the SwapInfo pool never go below zero.
THEOREM TypesHold == LibSpec => []TypeOK
  <1>1. IInv => TypeOK BY DEF IInv
  <1>2. QED BY <1>1, IInvHolds, PTL

\* pp_ref is the number of pointers to the page, as include/pmap.h says.
THEOREM RefCountHolds == LibSpec => []RefCount
  <1>1. IInv => RefCount BY DEF IInv
  <1>2. QED BY <1>1, IInvHolds, PTL

\* page_free_list holds exactly the pages nothing points to: none is handed
\* out while in use, none leaks.
THEOREM FreeListHolds == LibSpec => []FreeList
  <1>1. IInv => FreeList BY DEF IInv
  <1>2. QED BY <1>1, IInvHolds, PTL

\* swap_tbl and bno_tbl are the reverse of the page tables; only the mapping
\* that cow_entry has made and not yet settled may be missing.
THEOREM SwapTableHolds == LibSpec => []SwapTable
  <1>1. IInv => SwapTable BY DEF IInv
  <1>2. QED BY <1>1, IInvHolds, PTL

\* No struct SwapInfo is lost or handed out twice.
THEOREM SinfoPoolHolds == LibSpec => []SinfoPool
  <1>1. IInv => SinfoPool BY DEF IInv
  <1>2. QED BY <1>1, IInvHolds, PTL

\* The TLB never holds a mapping that the page table no longer has.
THEOREM TlbCoherentHolds == LibSpec => []TlbCoherent
  <1>1. IInv => TlbCoherent BY DEF IInv
  <1>2. QED BY <1>1, IInvHolds, PTL

\* swap() and swap_back() fail an assertion in one place only: an eviction
\* between the sys_mem_map and the sys_mem_unmap of a cow_entry.
THEOREM NoPanicHolds == LibSpec => []NoPanic
  <1>1. IInv => NoPanic BY DEF IInv
  <1>2. QED BY <1>1, IInvHolds, PTL

\* sd_bitmap marks exactly the disk blocks that some entry points to: no
\* block with a page on it is handed out again, none is lost.
THEOREM BitmapHolds == LibSpec => []Bitmap
  <1>1. IInv => Bitmap BY DEF IInv
  <1>2. QED BY <1>1, IInvHolds, PTL

\* An environment without a page directory has no mapping, table or page left.
THEOREM NoOrphansHolds == LibSpec => []NoOrphans
  <1>1. IInv => NoOrphans BY DEF IInv
  <1>2. QED BY <1>1, IInvHolds, PTL

-----------------------------------------------------------------------------
(***************************************************************************)
(* Demand paging and swapping implement VirtualMemory, for every size of   *)
(* the machine: every step of PmapLib is a step of VirtualMemory or leaves *)
(* contents and sharing alone.                                             *)
(*                                                                         *)
(* The argument.  swap() and swap_back() move all mappings of a place at   *)
(* once to a place nobody maps (MoveIsStutter): the reverse map names them *)
(* all, and the free list and the disk bitmap say that the other place is  *)
(* unused.  A new mapping is of a page the handler alone holds, still      *)
(* zeroed (NewZero), or of the page that src maps.                         *)
(***************************************************************************)

\* The new page of sys_mem_alloc and passive_alloc is still zeroed when it is
\* mapped, although page_insert may allocate a page table in between.
NewZero == pc = "insert" /\ op \in {"alloc", "touch"} => mem[pp] = Zero

\* One step of VirtualMemory, or none.
VMStep == VM!VMNext \/ UNCHANGED VM!vmvars

-----------------------------------------------------------------------------
(* The mapping *)

\* A virtual page is mapped exactly when it has contents.
LEMMA MappedHasValue ==
  ASSUME TypeOK, NEW v \in VP
  PROVE  Val[v] # None <=> pte[v] # None
  <1>1. pte[v] \in Page \union Block \union {None} BY DEF TypeOK, Place
  <1>2. CASE pte[v] \in Page
    BY <1>2, PmapDisjoint DEF Val, ValOf, TypeOK
  <1>3. CASE pte[v] \in Block
    BY <1>3, PmapDisjoint DEF Val, ValOf, TypeOK
  <1>4. CASE pte[v] = None
    BY <1>4, PmapDisjoint DEF Val, ValOf
  <1>5. QED BY <1>1, <1>2, <1>3, <1>4

\* The object of a mapped page is the set of all mappings of its place.
LEMMA ObjectIs ==
  ASSUME TypeOK, NEW v \in VP, pte[v] # None
  PROVE  VM!Object(v) = Mapped(pte[v])
  <1>1. pte[v] \in Place BY DEF TypeOK
  <1>2. v \in Mapped(pte[v]) BY DEF Mapped
  <1>3. Mapped(pte[v]) \in Share BY <1>1, <1>2 DEF Share
  <1>4. \A o \in Share : v \in o => o = Mapped(pte[v])
    BY DEF Share, Mapped
  <1>5. QED BY <1>2, <1>3, <1>4 DEF VM!Object

\* Entries and the contents of mapped places stay: so do contents and sharing.
LEMMA SameView ==
  ASSUME pte' = pte,
         \A v \in VP : pte[v] \in Page => mem'[pte[v]] = mem[pte[v]],
         \A v \in VP : pte[v] \in Block => sd'[pte[v]] = sd[pte[v]]
  PROVE  Val' = Val /\ Share' = Share
  <1>1. Share' = Share BY DEF Share, Mapped
  <1>2. \A v \in VP : ValOf(v)' = ValOf(v) BY DEF ValOf
  <1>3. QED BY <1>1, <1>2 DEF Val

\* A page of the free list may change its contents unseen.
LEMMA FreeUnseen ==
  ASSUME FreeList, NEW p \in page_free_list, p \in Page, mem \in [Page -> Data],
         NEW x, mem' = [mem EXCEPT ![p] = x], pte' = pte, sd' = sd
  PROVE  Val' = Val /\ Share' = Share
  <1>1. \A v \in VP : pte[v] # p BY DEF FreeList, Mapped
  <1>2. \A v \in VP : pte[v] \in Page => mem'[pte[v]] = mem[pte[v]] BY <1>1
  <1>3. QED BY <1>2, SameView

\* All mappings of x move to y, which nobody maps, with the contents.
LEMMA MoveIsStutter ==
  ASSUME TypeOK, NEW x \in Place, NEW y \in Place, x # y, Mapped(y) = {},
         pte' = [v \in VP |-> IF v \in Mapped(x) THEN y ELSE pte[v]],
         \A z \in Page : z # y => mem'[z] = mem[z],
         \A z \in Block : z # y => sd'[z] = sd[z],
         (IF y \in Page THEN mem'[y] ELSE sd'[y]) = (IF x \in Page THEN mem[x] ELSE sd[x])
  PROVE  Val' = Val /\ Share' = Share
  <1>1. \A v \in VP : pte[v] # y BY DEF Mapped
  <1>2. Mapped(y)' = Mapped(x) /\ Mapped(x)' = {}
    BY <1>1 DEF Mapped
  <1>3. \A z \in Place : z # x /\ z # y => Mapped(z)' = Mapped(z)
    BY DEF Mapped
  <1>4. Share' = Share
    <2>1. \A z \in Place : Mapped(z)' # {} => Mapped(z)' \in Share
      BY <1>2, <1>3 DEF Share
    <2>2. \A z \in Place : Mapped(z) # {} => Mapped(z) \in Share'
      BY <1>2, <1>3 DEF Share
    <2>3. Share' = {Mapped(z)' : z \in Place} \ {{}} BY DEF Share
    <2>4. Share' \subseteq Share BY <2>1, <2>3
    <2>5. Share \subseteq Share' BY <2>2 DEF Share
    <2>6. QED BY <2>4, <2>5
  <1>5. ASSUME NEW v \in VP PROVE ValOf(v)' = ValOf(v)
    <2>1. CASE pte[v] = x
      <3>1. pte'[v] = y BY <2>1 DEF Mapped
      <3>2. QED BY <2>1, <3>1, PmapDisjoint DEF ValOf, Place
    <2>2. CASE pte[v] # x
      <3>1. pte'[v] = pte[v] /\ pte[v] # y BY <1>1, <2>2 DEF Mapped
      <3>2. QED BY <3>1 DEF ValOf
    <2>3. QED BY <2>1, <2>2
  <1>6. QED BY <1>4, <1>5 DEF Val

-----------------------------------------------------------------------------
(* Steps that only move pages, or enter or leave the kernel *)

\* Contents and sharing stay: a stutter, or the entry into or the return from
\* the kernel.
LEMMA Unseen ==
  ASSUME Val' = Val, Share' = Share
  PROVE  VMStep
  <1>1. CASE Mode' = Mode BY <1>1 DEF VMStep, VM!vmvars
  <1>2. CASE Mode' # Mode
    <2>1. (Mode = "user" /\ Mode' = "kernel") \/ (Mode = "kernel" /\ Mode' = "user")
      BY <1>2 DEF Mode
    <2>2. VM!Trap \/ VM!Leave BY <2>1 DEF VM!Trap, VM!Leave
    <2>3. QED BY <2>2 DEF VMStep, VM!VMNext
  <1>3. QED BY <1>1, <1>2

\* A step that leaves entries and contents alone.
LEMMA UnseenFrame ==
  ASSUME pte' = pte, UNCHANGED dvars
  PROVE  VMStep
  <1>1. mem' = mem /\ sd' = sd BY DEF dvars
  <1>2. QED BY <1>1, SameView, Unseen

\* swap() evicts a page: nobody sees it.
LEMMA SwapUnseen ==
  ASSUME IInv, NEW p \in Page, NEW b \in Block, swap(p, b)
  PROVE  VMStep
  <1>1. CASE Panic("panic") BY <1>1, UnseenFrame DEF Panic, kvars
  <1>2. CASE ~Panic("panic")
    <2>1. /\ p \in page_swap_queue /\ b \notin sd_bitmap
          /\ sd' = [sd EXCEPT ![b] = mem[p]] /\ mem' = mem
          /\ pte' = [v \in VP |-> IF v \in Registered(p) THEN b ELSE pte[v]]
      BY <1>2 DEF swap, write_page
    <2>2. TypeOK /\ Bitmap BY DEF IInv
    <2>3. Registered(p) = Mapped(p)
      <3>1. ~SwapBroken(p) BY <1>2 DEF swap
      <3>2. QED BY <2>1, <3>1, SwapSound
    <2>4. Mapped(b) = {} BY <2>1, <2>2 DEF Bitmap
    <2>5. p \in Place /\ b \in Place /\ p # b /\ b \notin Page BY PmapDisjoint DEF Place
    <2>6. sd'[b] = mem[p] /\ \A z \in Block : z # b => sd'[z] = sd[z]
      BY <2>1, <2>2 DEF TypeOK
    <2>7. Val' = Val /\ Share' = Share
      BY <2>1, <2>2, <2>3, <2>4, <2>5, <2>6, MoveIsStutter
    <2>8. QED BY <2>7, Unseen
  <1>3. QED BY <1>1, <1>2

\* swap_back() fetches it again: nobody sees it.
LEMMA SwapBackUnseen ==
  ASSUME IInv, NEW p \in Page, swap_back(p)
  PROVE  VMStep
  <1> DEFINE b == pte[Operand]
  <1>1. CASE Panic("panic") BY <1>1, UnseenFrame DEF Panic, kvars
  <1>2. CASE ~Panic("panic")
    <2>1. /\ p \in page_free_list /\ b \in Block
          /\ mem' = [mem EXCEPT ![p] = sd[b]] /\ sd' = sd
          /\ pte' = [v \in VP |-> IF v \in Registered(b) THEN p ELSE pte[v]]
      BY <1>2 DEF swap_back, read_page, NeedsSwapBack
    <2> HIDE DEF b
    <2>2. TypeOK /\ SwapTable /\ QueuedData /\ FreeList BY DEF IInv
    <2>3. Registered(b) = Mapped(b) BY <2>1, <2>2, RegisteredIs
    <2>4. Mapped(p) = {} BY <2>1, <2>2 DEF FreeList
    <2>5. p \in Place /\ b \in Place /\ p # b /\ b \notin Page BY <2>1, PmapDisjoint DEF Place
    <2>6. mem'[p] = sd[b] /\ \A z \in Page : z # p => mem'[z] = mem[z]
      BY <2>1, <2>2 DEF TypeOK
    <2>7. Val' = Val /\ Share' = Share
      BY <2>1, <2>2, <2>3, <2>4, <2>5, <2>6, MoveIsStutter
    <2>8. QED BY <2>7, Unseen
  <1>3. QED BY <1>1, <1>2

\* page_alloc zeroes a page nobody maps.
LEMMA TakeUnseen ==
  ASSUME IInv, NEW p \in Page, TakePage(p) \/ TakeTable(p)
  PROVE  VMStep
  <1>1. /\ p \in page_free_list /\ mem' = [mem EXCEPT ![p] = Zero]
        /\ pte' = pte /\ sd' = sd
    BY DEF TakePage, TakeTable
  <1>2. FreeList /\ mem \in [Page -> Data] BY DEF IInv, TypeOK
  <1>3. Val' = Val /\ Share' = Share BY <1>1, <1>2, FreeUnseen
  <1>4. QED BY <1>3, Unseen

-----------------------------------------------------------------------------
(* Steps that programs see *)

\* A store reaches the sharers of its page and nobody else.
LEMMA StoreIsWrite ==
  ASSUME IInv, NEW v \in VP, NEW x \in Data, Store(v, x)
  PROVE  VMStep
  <1>1. TypeOK /\ TlbCoherent BY DEF IInv
  <1>2. /\ pc = "user" /\ UNCHANGED <<pte, pc, sd>>
        /\ tlb[v] # None /\ mem' = [mem EXCEPT ![tlb[v]] = x]
    BY DEF Store, kvars
  <1>3. tlb[v] = pte[v] /\ pte[v] \in Page /\ pte[v] # None
    BY <1>1, <1>2, PmapDisjoint DEF TlbCoherent, TypeOK
  <1>4. VM!Object(v) = Mapped(pte[v]) BY <1>1, <1>3, ObjectIs
  <1>5. Share' = Share BY <1>2 DEF Share, Mapped
  <1>6. ASSUME NEW w \in VP PROVE ValOf(w)' = IF w \in Mapped(pte[v]) THEN x ELSE Val[w]
    <2>1. CASE pte[w] = pte[v]
      BY <1>1, <1>2, <1>3, <2>1 DEF ValOf, Mapped, TypeOK
    <2>2. CASE pte[w] # pte[v]
      BY <1>1, <1>2, <1>3, <2>2 DEF ValOf, Val, Mapped, TypeOK
    <2>3. QED BY <2>1, <2>2
  <1>7. Val' = [w \in VP |-> IF w \in VM!Object(v) THEN x ELSE Val[w]]
    BY <1>4, <1>6 DEF Val
  <1>8. Mode = "user" /\ Mode' = Mode BY <1>2 DEF Mode
  <1>9. Val[v] # None BY <1>1, <1>3, MappedHasValue
  <1>10. VM!Write(v, x) BY <1>5, <1>7, <1>8, <1>9 DEF VM!Write
  <1>11. QED BY <1>10 DEF VMStep, VM!VMNext

\* In the kernel, before and after: KernelStep.
LEMMA KernelMode ==
  ASSUME pc # "user"
  PROVE  VM!KernelStep
  BY DEF VM!KernelStep, Mode

\* page_remove unmaps one virtual page, and its sharers keep theirs.
LEMMA RemoveIsDrop ==
  ASSUME TypeOK, NEW v \in VP, pte[v] # None, pc # "user",
         pte' = [pte EXCEPT ![v] = None], UNCHANGED dvars
  PROVE  VMStep
  <1>1. mem' = mem /\ sd' = sd BY DEF dvars
  <1>2. pte[v] \in Place BY DEF TypeOK
  <1>3. \A w \in VP : w # v => pte'[w] = pte[w] BY DEF TypeOK
  <1>4. pte'[v] = None BY DEF TypeOK
  <1>5. \A x \in Place : Mapped(x)' = Mapped(x) \ {v}
    BY <1>3, <1>4, PmapDisjoint DEF Mapped, Place
  <1>6. Share' = VM!Without(v)
    <2>1. Share' = {Mapped(x) \ {v} : x \in Place} \ {{}} BY <1>5 DEF Share
    <2>2. VM!Without(v) = {o \ {v} : o \in Share} \ {{}} BY DEF VM!Without
    <2>3. ASSUME NEW x \in Place, Mapped(x) \ {v} # {} PROVE Mapped(x) \in Share
      BY <2>3 DEF Share
    <2>4. Share' \subseteq VM!Without(v)
      <3>1. SUFFICES ASSUME NEW x \in Place, Mapped(x) \ {v} # {}
                     PROVE  Mapped(x) \ {v} \in VM!Without(v)
        BY <2>1
      <3>2. Mapped(x) \in Share BY <2>3, <3>1
      <3>3. QED BY <2>2, <3>1, <3>2
    <2>5. VM!Without(v) \subseteq Share'
      <3>1. SUFFICES ASSUME NEW o \in Share, o \ {v} # {} PROVE o \ {v} \in Share'
        BY <2>2
      <3>2. PICK x \in Place : o = Mapped(x) BY <3>1 DEF Share
      <3>3. QED BY <2>1, <3>1, <3>2
    <2>6. QED BY <2>4, <2>5
  <1>7. Val' = [Val EXCEPT ![v] = None]
    <2>1. ValOf(v)' = None BY <1>4, PmapDisjoint DEF ValOf
    <2>2. \A w \in VP : w # v => ValOf(w)' = ValOf(w) BY <1>1, <1>3 DEF ValOf
    <2>3. QED BY <2>1, <2>2 DEF Val
  <1>8. Val[v] # None BY MappedHasValue
  <1>9. VM!Drop(v) BY <1>6, <1>7, <1>8, KernelMode DEF VM!Drop
  <1>10. QED BY <1>9 DEF VMStep, VM!VMNext

\* page_insert of a new page: zeroed memory, shared with nobody.
LEMMA InsertIsFresh ==
  ASSUME TypeOK, NEW v \in VP, pte[v] = None, pc # "user", NEW p \in Page,
         Mapped(p) = {}, mem[p] = Zero,
         pte' = [pte EXCEPT ![v] = p], UNCHANGED dvars
  PROVE  VMStep
  <1>1. mem' = mem /\ sd' = sd BY DEF dvars
  <1>2. \A w \in VP : w # v => pte'[w] = pte[w] BY DEF TypeOK
  <1>3. pte'[v] = p BY DEF TypeOK
  <1>4. \A w \in VP : pte[w] # p BY DEF Mapped
  <1>5. Mapped(p)' = {v} BY <1>2, <1>3, <1>4 DEF Mapped
  <1>6. \A x \in Place : x # p => Mapped(x)' = Mapped(x)
    BY <1>2, <1>3, PmapDisjoint DEF Mapped, Place
  <1>7. Share' = Share \union {{v}}
    <2>1. Share' = {Mapped(x)' : x \in Place} \ {{}} BY DEF Share
    <2>2. p \in Place BY DEF Place
    <2>3. {v} \in Share' BY <1>5, <2>1, <2>2
    <2>4. \A o \in Share : o \in Share'
      <3>1. SUFFICES ASSUME NEW x \in Place, Mapped(x) # {} PROVE Mapped(x) \in Share'
        BY DEF Share
      <3>2. QED BY <1>6, <2>1, <3>1
    <2>5. \A o \in Share' : o \in Share \union {{v}}
      <3>1. SUFFICES ASSUME NEW x \in Place, Mapped(x)' # {}
                     PROVE  Mapped(x)' \in Share \union {{v}}
        BY <2>1
      <3>2. QED BY <1>5, <1>6, <3>1 DEF Share
    <2>6. QED BY <2>3, <2>4, <2>5
  <1>8. Val' = [Val EXCEPT ![v] = Zero]
    <2>1. ValOf(v)' = Zero BY <1>1, <1>3 DEF ValOf
    <2>2. \A w \in VP : w # v => ValOf(w)' = ValOf(w) BY <1>1, <1>2 DEF ValOf
    <2>3. QED BY <2>1, <2>2 DEF Val
  <1>9. Val[v] = None BY MappedHasValue
  <1>10. VM!Fresh(v) BY <1>7, <1>8, <1>9, KernelMode DEF VM!Fresh
  <1>11. QED BY <1>10 DEF VMStep, VM!VMNext

\* page_insert of the page at s: d becomes another name for it.
LEMMA InsertIsJoin ==
  ASSUME TypeOK, NEW s \in VP, NEW d \in VP, pte[d] = None, pc # "user", pte[s] \in Page,
         pte' = [pte EXCEPT ![d] = pte[s]], UNCHANGED dvars
  PROVE  VMStep
  <1>0. PICK p \in Page : p = pte[s] OBVIOUS
  <1>1. mem' = mem /\ sd' = sd BY DEF dvars
  <1>2. \A w \in VP : w # d => pte'[w] = pte[w] BY DEF TypeOK
  <1>3. pte'[d] = p /\ p # None /\ p \in Place BY <1>0, PmapDisjoint DEF TypeOK, Place
  <1>4. VM!Object(s) = Mapped(p) BY <1>0, <1>3, ObjectIs
  <1>5. Mapped(p)' = Mapped(p) \union {d} BY <1>2, <1>3 DEF Mapped
  <1>6. \A x \in Place : x # p => Mapped(x)' = Mapped(x)
    BY <1>2, <1>3, PmapDisjoint DEF Mapped, Place
  <1>7. \A x \in Place : x # p => Mapped(x) # Mapped(p)
    <2>1. s \in Mapped(p) BY <1>0 DEF Mapped
    <2>2. \A x \in Place : x # p => s \notin Mapped(x) BY <1>0 DEF Mapped
    <2>3. QED BY <2>1, <2>2
  <1>8. Share' = (Share \ {Mapped(p)}) \union {Mapped(p) \union {d}}
    <2>1. Share' = {Mapped(x)' : x \in Place} \ {{}} BY DEF Share
    <2>2. Mapped(p) \union {d} \in Share' BY <1>3, <1>5, <2>1
    <2>3. \A o \in Share \ {Mapped(p)} : o \in Share'
      <3>1. SUFFICES ASSUME NEW x \in Place, Mapped(x) # {}, Mapped(x) # Mapped(p)
                     PROVE  Mapped(x) \in Share'
        BY DEF Share
      <3>2. x # p BY <3>1, Zenon
      <3>3. Mapped(x)' = Mapped(x) BY <1>6, <3>2
      <3>4. QED BY <2>1, <3>1, <3>3
    <2>4. \A o \in Share' : o \in (Share \ {Mapped(p)}) \union {Mapped(p) \union {d}}
      <3>1. SUFFICES ASSUME NEW x \in Place, Mapped(x)' # {}
                     PROVE  Mapped(x)' \in (Share \ {Mapped(p)}) \union {Mapped(p) \union {d}}
        BY <2>1
      <3>2. CASE x = p BY <1>5, <3>2
      <3>3. CASE x # p BY <1>6, <1>7, <3>1, <3>3 DEF Share
      <3>4. QED BY <3>2, <3>3
    <2>5. QED BY <2>2, <2>3, <2>4
  <1>9. Val' = [Val EXCEPT ![d] = Val[s]]
    <2>1. ValOf(d)' = ValOf(s) BY <1>0, <1>1, <1>3 DEF ValOf
    <2>2. \A w \in VP : w # d => ValOf(w)' = ValOf(w) BY <1>1, <1>2 DEF ValOf
    <2>3. QED BY <2>1, <2>2 DEF Val
  <1>10. Val[d] = None /\ Val[s] # None BY <1>0, <1>3, MappedHasValue
  <1>11. VM!Join(s, d) BY <1>4, <1>8, <1>9, <1>10, KernelMode DEF VM!Join
  <1>12. QED BY <1>11 DEF VMStep, VM!VMNext

-----------------------------------------------------------------------------
(* Every step *)

\* The end of page_insert: a new page, a shared page, or the same page again.
LEMMA InsertSeen ==
  ASSUME IInv, NewZero, Insert
  PROVE  VMStep
  <1>1. CASE Panic("nosinfo") BY <1>1, UnseenFrame DEF Panic, kvars
  <1>2. CASE ~Panic("nosinfo")
    <2>1. /\ pc = "insert" /\ pte' = [pte EXCEPT ![dst] = pp] /\ UNCHANGED dvars
          /\ pte[dst] = pp \/ pte[dst] = None
      BY <1>2 DEF Insert
    <2>2. TypeOK /\ HandlerOp /\ HandlerLocals /\ NewPage /\ HeldPage
      BY DEF IInv, HandlerInv
    <2>3. op \in {"alloc", "touch", "map", "ipc"} BY <2>1, <2>2 DEF HandlerOp
    <2>4. pp \in Page /\ src \in VP /\ dst \in VP BY <2>1, <2>2, <2>3 DEF HandlerLocals
    <2>5. CASE pte[dst] = pp
      <3>1. pte' = pte BY <2>1, <2>2, <2>4, <2>5 DEF TypeOK
      <3>2. QED BY <2>1, <3>1, UnseenFrame
    <2>6. CASE pte[dst] = None /\ op \in {"alloc", "touch"}
      <3>1. mem[pp] = Zero BY <2>1, <2>6 DEF NewZero
      <3>2. Mapped(pp) = {} BY <2>2, <2>4, <2>6 DEF NewPage, InFlight
      <3>3. QED BY <2>1, <2>2, <2>4, <2>6, <3>1, <3>2, InsertIsFresh
    <2>7. CASE pte[dst] = None /\ op \in {"map", "ipc"}
      <3>1. pte[src] = pp BY <2>1, <2>2, <2>7 DEF HeldPage
      <3>2. QED BY <2>1, <2>2, <2>4, <2>7, <3>1, InsertIsJoin
    <2>8. QED BY <2>1, <2>3, <2>5, <2>6, <2>7
  <1>3. QED BY <1>1, <1>2

\* page_remove, by sys_mem_unmap and env_free, or before a new mapping.
LEMMA RemoveSeen ==
  ASSUME IInv, Remove \/ InsertRemove
  PROVE  VMStep
  <1>1. TypeOK /\ HandlerOp /\ HandlerLocals BY DEF IInv, HandlerInv
  <1>2. pc \in {"remove", "insert"} /\ UNCHANGED dvars BY DEF Remove, InsertRemove
  <1>3. dst \in VP BY <1>1, <1>2 DEF HandlerOp, HandlerLocals
  <1>4. CASE pte' = pte BY <1>2, <1>4, UnseenFrame
  <1>5. CASE pte' # pte
    <2>1. pte[dst] # None /\ pte' = [pte EXCEPT ![dst] = None]
      BY <1>5, PmapDisjoint DEF Remove, InsertRemove, page_remove
    <2>2. QED BY <1>1, <1>2, <1>3, <2>1, RemoveIsDrop
  <1>6. QED BY <1>4, <1>5

\* System calls, exceptions and stores, as programs see them.
LEMMA UserSeen ==
  ASSUME IInv, LibUser
  PROVE  VMStep
  <1>1. CASE \E v \in VP : \E x \in Data : Store(v, x) BY <1>1, StoreIsWrite
  <1>2. CASE ~(\E v \in VP : \E x \in Data : Store(v, x))
    <2>1. pte' = pte /\ UNCHANGED dvars
      BY <1>2 DEF LibUser, sys_mem_alloc, sys_mem_unmap, sys_mem_map, ipc_page, TlbMiss,
                  tlbwr, env_setup_vm, env_free, Enter, kvars
    <2>2. QED BY <2>1, UnseenFrame
  <1>3. QED BY <1>1, <1>2

\* The steps of the kernel, as programs see them.
LEMMA KernelSeen ==
  ASSUME IInv, NewZero, LibKernel
  PROVE  VMStep
  <1>1. CASE \E p \in Page : \E b \in Block : LibSwap(p, b) BY <1>1, SwapUnseen DEF LibSwap
  <1>2. CASE \E p \in Page : TakePage(p) \/ TakeTable(p) BY <1>2, TakeUnseen
  <1>3. CASE \E p \in Page : swap_back(p) BY <1>3, SwapBackUnseen
  <1>4. CASE Remove \/ InsertRemove BY <1>4, RemoveSeen
  <1>5. CASE Insert BY <1>5, InsertSeen
  <1>6. CASE DiskFull \/ NoPageLeft \/ HeldEvicted
    BY <1>6, UnseenFrame DEF DiskFull, NoPageLeft, HeldEvicted, Panic, kvars
  <1>7. CASE LookupDst \/ LookupSrc \/ do_tlb_refill
    BY <1>7, UnseenFrame DEF LookupDst, LookupSrc, do_tlb_refill, kvars
  <1>8. CASE (\E v \in VP : FreeVa(v)) \/ (\E d \in Pd : FreeTable(d)) \/ FreeDir
    BY <1>8, UnseenFrame DEF FreeVa, FreeTable, FreeDir, kvars
  <1>9. CASE Halted BY <1>9, UnseenFrame DEF Halted, vars, kvars
  <1>10. QED
    BY <1>1, <1>2, <1>3, <1>4, <1>5, <1>6, <1>7, <1>8, <1>9 DEF LibKernel, Kernel

\* The new page stays zeroed until it is mapped.
LEMMA NewZeroKeeps ==
  ASSUME IInv, NewZero, [LibNext]_vars
  PROVE  NewZero'
  <1>1. TypeOK /\ FreeList /\ HandlerOp /\ HandlerLocals BY DEF IInv, HandlerInv
  <1>2. SUFFICES ASSUME pc' = "insert", op' \in {"alloc", "touch"} PROVE mem'[pp'] = Zero
    BY DEF NewZero
  <1>3. CASE \E p \in Page : TakePage(p)
    <2>1. PICK p \in Page : TakePage(p) BY <1>3
    <2>2. pp' = p /\ mem' = [mem EXCEPT ![p] = Zero] BY <1>2, <2>1 DEF TakePage, Done
    <2>3. QED BY <1>1, <2>2 DEF TypeOK
  <1>4. ASSUME NEW p \in Page, p \in page_free_list, NEW x, mem' = [mem EXCEPT ![p] = x],
               UNCHANGED <<pc, hvars>>
        PROVE  mem'[pp'] = Zero
    <2>1. pc = "insert" /\ op \in {"alloc", "touch"} /\ pp' = pp BY <1>2, <1>4 DEF hvars
    <2>2. pp \in Page /\ mem[pp] = Zero BY <1>1, <2>1 DEF HandlerLocals, NewZero
    <2>3. pp # p BY <1>1, <1>4, <2>1, <2>2 DEF FreeList, InFlight
    <2>4. QED BY <1>1, <1>4, <2>1, <2>2, <2>3 DEF TypeOK
  <1>5. CASE \E p \in Page : TakeTable(p)
    <2>1. PICK p \in Page : TakeTable(p) BY <1>5
    <2>2. p \in page_free_list /\ mem' = [mem EXCEPT ![p] = Zero] /\ UNCHANGED <<pc, hvars>>
      BY <2>1 DEF TakeTable
    <2>3. QED BY <1>4, <2>2
  <1>6. CASE \E p \in Page : swap_back(p)
    <2>1. PICK p \in Page : swap_back(p) BY <1>6
    <2>2. /\ p \in page_free_list /\ mem' = [mem EXCEPT ![p] = sd[pte[Operand]]]
          /\ UNCHANGED <<pc, hvars>>
      BY <1>2, <2>1 DEF swap_back, read_page, Panic
    <2>3. QED BY <1>4, <2>2
  <1>7. CASE mem' = mem /\ UNCHANGED <<pc, hvars>>
    BY <1>2, <1>7 DEF NewZero, hvars
  <1>8. CASE LibUser
    <2>1. pc' # "insert"
      BY <1>8 DEF LibUser, sys_mem_alloc, sys_mem_unmap, sys_mem_map, ipc_page, TlbMiss, Store,
                  tlbwr, env_setup_vm, env_free, Enter
    <2>2. QED BY <1>2, <2>1
  <1>9. CASE LookupSrc
    <2>1. op \in {"map", "ipc"} BY <1>1, <1>9 DEF LookupSrc, HandlerOp
    <2>2. op' = op BY <1>2, <1>9 DEF LookupSrc, Done
    <2>3. QED BY <1>2, <2>1, <2>2
  <1>10. CASE \E p \in Page : \E b \in Block : LibSwap(p, b)
    <2>1. mem' = mem /\ UNCHANGED <<pc, hvars>>
      BY <1>2, <1>10 DEF LibSwap, swap, Panic, dvars
    <2>2. QED BY <1>7, <2>1
  <1>11. CASE InsertRemove \/ \E d \in Pd : FreeTable(d)
    BY <1>7, <1>11 DEF InsertRemove, FreeTable, dvars
  <1>12. CASE DiskFull \/ NoPageLeft \/ HeldEvicted \/ LookupDst
    BY <1>2, <1>12 DEF DiskFull, NoPageLeft, HeldEvicted, Panic, LookupDst
  <1>13. CASE Remove \/ Insert \/ do_tlb_refill \/ FreeDir \/ \E v \in VP : FreeVa(v)
    <2>1. pc' # "insert"
      BY <1>13 DEF Remove, Insert, Return, Done, Panic, do_tlb_refill, FreeDir, FreeVa
    <2>2. QED BY <1>2, <2>1
  <1>14. CASE UNCHANGED vars BY <1>7, <1>14 DEF vars, dvars
  <1>15. QED
    BY <1>3, <1>5, <1>6, <1>8, <1>9, <1>10, <1>11, <1>12, <1>13, <1>14
    DEF LibNext, LibKernel, Kernel, Halted, LibHalted

(***************************************************************************)
(* SwapTransparent, for every size of the machine: programs cannot tell    *)
(* demand paging, eviction and swapping in from memory that never runs out.*)
(* swap() and swap_back() lose no contents and no sharing, a new page is   *)
(* zeroed, and a store reaches the sharers of its page and nobody else.    *)
(***************************************************************************)
THEOREM SwapTransparentHolds == LibSpec => SwapTransparent
  <1>1. Init => NewZero BY DEF Init, NewZero
  <1>2. Init => VM!VMInit
    <2>1. SUFFICES ASSUME Init PROVE VM!VMInit OBVIOUS
    <2>2. Val = [v \in VP |-> None] BY <2>1, PmapDisjoint DEF Init, Val, ValOf
    <2>3. \A x \in Place : Mapped(x) = {} BY <2>1, PmapDisjoint DEF Init, Mapped, Place
    <2>4. Share = {} BY <2>3 DEF Share
    <2>5. Mode = "user" BY <2>1 DEF Init, Mode
    <2>6. QED BY <2>2, <2>4, <2>5 DEF VM!VMInit
  <1>3. IInv /\ NewZero /\ [LibNext]_vars => NewZero' BY NewZeroKeeps
  <1>4. IInv /\ NewZero /\ [LibNext]_vars => [VM!VMNext]_(VM!vmvars)
    <2>1. SUFFICES ASSUME IInv, NewZero, [LibNext]_vars PROVE VMStep BY DEF VMStep
    <2>2. CASE LibUser BY <2>1, <2>2, UserSeen
    <2>3. CASE LibKernel BY <2>1, <2>3, KernelSeen
    <2>4. CASE UNCHANGED vars BY <2>4, UnseenFrame DEF vars, kvars
    <2>5. QED BY <2>1, <2>2, <2>3, <2>4 DEF LibNext, LibHalted
  <1>5. QED BY <1>1, <1>2, <1>3, <1>4, IInvHolds, PTL DEF LibSpec, SwapTransparent, VM!VMSpec

=============================================================================
