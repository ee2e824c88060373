-------------------------------- MODULE Spawn --------------------------------
(***************************************************************************)
(* How a program gets into memory: lib/elfloader.c with its two callers,   *)
(* spawn (user/lib/spawn.c) and the kernel's load_icode (kern/env.c).      *)
(*                                                                         *)
(* spawn builds the child from outside, one system call at a time, and any *)
(* of them may fail; a page of the child is written through a mapping at   *)
(* UTEMP.  A page holds [off, src, len]: bytes src, src + 1, ... of the    *)
(* program file at off .. off + len - 1, zeros elsewhere.  The file itself *)
(* is open while spawn reads it; a failed read_map stands for a file that  *)
(* is shorter than its header says.                                        *)
(***************************************************************************)
EXTENDS Integers, Sequences

CONSTANTS PAGE_SIZE,  \* bytes in a page, a multiple of 4
          NPAGE,      \* pages below the stack
          Segments,   \* possible programs: sequences of [va, src, filesz, memsz]
          Args,       \* possible lengths of the arguments, sequences
          Library     \* numbers of pages the parent shares (PTE_LIBRARY)

ASSUME SpawnSizes ==
  /\ PAGE_SIZE \in Nat /\ PAGE_SIZE % 4 = 0 /\ PAGE_SIZE > 0 /\ NPAGE \in Nat
  /\ Args \subseteq Seq(Nat) /\ Library \subseteq Nat

FirstPage(seg) == seg.va \div PAGE_SIZE
LastPage(seg) == (seg.va + seg.memsz - 1) \div PAGE_SIZE

\* Segments are not empty and lie below the stack, on pages of their own.  One
\* that does not begin at the page's start has no bss, or bytes of the file up
\* to the end of its first page (user.lds: .data and .bss are aligned).
ASSUME SegmentShapes ==
  /\ Segments \subseteq Seq([va : Nat, src : Nat, filesz : Nat, memsz : Nat \ {0}])
  /\ \A p \in Segments : \A n \in DOMAIN p :
       LET seg == p[n] IN
       /\ seg.filesz <= seg.memsz /\ LastPage(seg) < NPAGE
       /\ \/ seg.va % PAGE_SIZE = 0 \/ seg.filesz = seg.memsz
          \/ seg.filesz >= PAGE_SIZE - (seg.va % PAGE_SIZE)
       /\ \A m \in DOMAIN p \ {n} :
            LastPage(p[m]) < FirstPage(seg) \/ LastPage(seg) < FirstPage(p[m])

VARIABLES
  job,    \* [by, segs, lens, lib]: who loads, what, the arguments, pages shared
  pc,     \* where spawn is
  fd,     \* the program file is open
  child,  \* "none", "ENV_NOT_RUNNABLE", "ENV_RUNNABLE", "ENV_FREE"
  mem,    \* mem[n]: page n of the child, or NoPage
  stack,  \* the child's stack page: the result of init_stack, or NoStack
  lib,    \* shared pages the child has
  utemp,  \* something is mapped at the parent's UTEMP
  ph,     \* the number of the segment that is loaded
  i,      \* how far elf_load_seg has come in it
  r       \* the variable r of spawn, in the end its result

vars == <<job, pc, fd, child, mem, stack, lib, utemp, ph, i, r>>

Page == 0..NPAGE - 1
NoPage == [off |-> -1, src |-> 0, len |-> 0]
ZeroPage == [off |-> 0, src |-> 0, len |-> 0]
NoStack == [argc |-> -1, sp |-> 0, argv |-> 0, args |-> <<>>, strings |-> 0]
E_NO_MEM == -1
E_NOT_EXEC == -2
E_NOT_FOUND == -3
CHILD == 2  \* the child's envid

MIN(a, b) == IF a < b THEN a ELSE b
ROUND(n, m) == ((n + m - 1) \div m) * m
\* tot after n turns of the loop over the arguments.
Totals(lens) ==
  LET tot[k \in 0..Len(lens)] == IF k = 0 THEN 0 ELSE tot[k - 1] + lens[k] + 1 IN tot
SumTo(lens, n) == Totals(lens)[n]

\* A definition with a suffix _... is a slip a programmer could make in the
\* one after it.
-----------------------------------------------------------------------------
(* The calls of map_page that elf_load_seg makes, told by i: the first page *)
(* if it is not whole, the rest of the file's bytes, then pages of zeros.   *)

Before == -1  \* the part of a page at the beginning is still to come

\* The length of that part, and the value of i at which the loop begins.
FirstLen_overruns(seg) == seg.filesz
FirstLen(seg) == MIN(seg.filesz, PAGE_SIZE - (seg.va % PAGE_SIZE))

Begin(seg) == IF seg.va % PAGE_SIZE # 0 THEN Before ELSE 0
More(seg, at) == at = Before \/ at < seg.filesz \/ at < seg.memsz

\* The zeros begin at the end of the last page with bytes of the file.
Advance_filesz(seg, at) ==
  IF at = Before THEN FirstLen(seg)
  ELSE IF at < seg.filesz THEN MIN(at + PAGE_SIZE, seg.filesz) ELSE at + PAGE_SIZE
Advance(seg, at) == IF at = Before THEN FirstLen(seg) ELSE at + PAGE_SIZE

\* Where map_page puts a page, whether it is given bytes, and what is then in
\* the page.
MapAt(seg, at) == IF at = Before THEN FirstPage(seg) ELSE (seg.va + at) \div PAGE_SIZE
HasBytes(seg, at) == at = Before \/ at < seg.filesz
Content(seg, at) ==
  IF at = Before THEN [off |-> seg.va % PAGE_SIZE, src |-> seg.src, len |-> FirstLen(seg)]
  ELSE IF at < seg.filesz
  THEN [off |-> 0, src |-> seg.src + at, len |-> MIN(seg.filesz - at, PAGE_SIZE)]
  ELSE ZeroPage

(* init_stack: the strings at the top of the page, below them args[0..argc] *)
(* and the two words argv and argc; addresses are offsets in the page.      *)
Fits_two_short(lens) == ROUND(SumTo(lens, Len(lens)), 4) + 4 * (Len(lens) + 1) <= PAGE_SIZE
Fits(lens) == ROUND(SumTo(lens, Len(lens)), 4) + 4 * (Len(lens) + 3) <= PAGE_SIZE
StackPage(lens) ==
  LET tot == SumTo(lens, Len(lens))
      strings == PAGE_SIZE - tot
      args == PAGE_SIZE - ROUND(tot, 4) - 4 * (Len(lens) + 1)
  IN  [argc |-> Len(lens), sp |-> args - 8, argv |-> args, strings |-> strings,
       args |-> [n \in 1..Len(lens) + 1 |->
                   IF n <= Len(lens) THEN strings + SumTo(lens, n - 1) ELSE PAGE_SIZE - 1]]

-----------------------------------------------------------------------------
Init ==
  /\ \E by \in {"spawn", "load_icode"} : \E p \in Segments : \E a \in Args : \E n \in Library :
       job = [by |-> by, segs |-> p, lens |-> a, lib |-> n]
  /\ pc = IF job.by = "spawn" THEN "open" ELSE "phdr"
  /\ fd = FALSE /\ utemp = FALSE
  /\ child = IF job.by = "spawn" THEN "none" ELSE "ENV_NOT_RUNNABLE"
  /\ mem = [n \in Page |-> NoPage] /\ stack = NoStack /\ lib = 0
  /\ ph = 1 /\ i = 0 /\ r = 0

At(p) == pc = p
Goto(p) == pc' = p

open ==
  /\ At("open")
  /\ \/ fd' = TRUE /\ Goto("readn") /\ UNCHANGED r
     \/ r' = E_NOT_FOUND /\ Goto("done") /\ UNCHANGED fd
  /\ UNCHANGED <<job, child, mem, stack, lib, utemp, ph, i>>

\* r = readn(..) < 0 gives r the value of the comparison.
Failed == 1

\* readn and elf_from.
read_header ==
  /\ At("readn")
  /\ \/ Goto("exofork") /\ UNCHANGED r
     \/ r' \in {Failed, E_NOT_EXEC} /\ Goto("err")
  /\ UNCHANGED <<job, fd, child, mem, stack, lib, utemp, ph, i>>

\* child is unsigned, so a failure is not noticed here.
exofork ==
  /\ At("exofork") /\ Goto("stack_alloc")
  /\ \/ child' = "ENV_NOT_RUNNABLE"
     \/ UNCHANGED child
  /\ UNCHANGED <<job, fd, mem, stack, lib, utemp, ph, i, r>>

Exists == child = "ENV_NOT_RUNNABLE"

\* init_stack: the page is built at UTEMP, mapped into the child and unmapped.
\* Its error is not assigned to r.
stack_alloc ==
  /\ At("stack_alloc")
  /\ \/ Fits(job.lens) /\ utemp' = TRUE /\ Goto("stack_map")
     \/ Goto("err1") /\ UNCHANGED utemp
  /\ UNCHANGED <<job, fd, child, mem, stack, lib, ph, i, r>>
stack_map_leaky ==
  /\ At("stack_map")
  /\ \/ Exists /\ Goto("phdr") /\ utemp' = FALSE /\ stack' = StackPage(job.lens)
     \/ Goto("err1") /\ UNCHANGED <<stack, utemp>>
  /\ UNCHANGED <<job, fd, child, mem, lib, ph, i, r>>
stack_map ==
  /\ At("stack_map") /\ utemp' = FALSE
  /\ \/ Exists /\ Goto("phdr") /\ stack' = StackPage(job.lens)
     \/ Goto("err1") /\ UNCHANGED stack
  /\ UNCHANGED <<job, fd, child, mem, lib, ph, i, r>>

\* load_icode is the same loop over the program headers, in the kernel, where
\* a failure is a panic and nobody runs before it returns.
ByKernel == job.by = "load_icode"
Seg == job.segs[ph]

\* The next program header: in spawn seek, readn and read_map, any of which may
\* fail.  Only readn's result gets into r.
next_segment ==
  /\ At("phdr")
  /\ \/ ph <= Len(job.segs) /\ i' = Begin(Seg) /\ Goto("load") /\ UNCHANGED <<fd, child, r>>
     \/ ph <= Len(job.segs) /\ ~ByKernel /\ Goto("err1") /\ r' \in {r, Failed} /\ UNCHANGED <<fd, child, i>>
     \/ ph > Len(job.segs) /\ ~ByKernel /\ fd' = FALSE /\ Goto("share") /\ UNCHANGED <<child, i, r>>
     \/ /\ ph > Len(job.segs) /\ ByKernel
        /\ child' = "ENV_RUNNABLE" /\ r' = CHILD /\ Goto("done") /\ UNCHANGED <<fd, i>>
  /\ UNCHANGED <<job, mem, stack, lib, utemp, ph>>

end_segment ==
  /\ At("load") /\ ~More(Seg, i)
  /\ ph' = ph + 1 /\ Goto("phdr")
  /\ UNCHANGED <<job, fd, child, mem, stack, lib, utemp, i, r>>

\* load_icode_mapper: a page with its bytes.
load_icode_mapper ==
  /\ At("load") /\ ByKernel /\ More(Seg, i)
  /\ mem' = [mem EXCEPT ![MapAt(Seg, i)] = Content(Seg, i)]
  /\ i' = Advance(Seg, i)
  /\ UNCHANGED <<job, pc, fd, child, stack, lib, utemp, ph, r>>

\* spawn_mapper: a page for the child, at UTEMP too if there is something to
\* copy; when that mapping fails the page is taken back.
mapper_alloc ==
  /\ At("load") /\ ~ByKernel /\ More(Seg, i)
  /\ \/ /\ mem' = [mem EXCEPT ![MapAt(Seg, i)] = ZeroPage]
        /\ IF HasBytes(Seg, i) THEN Goto("map_utemp") /\ UNCHANGED i
           ELSE i' = Advance(Seg, i) /\ UNCHANGED pc
     \/ Goto("err1") /\ UNCHANGED <<mem, i>>
  /\ UNCHANGED <<job, fd, child, stack, lib, utemp, ph, r>>
mapper_utemp ==
  /\ At("map_utemp")
  /\ \/ utemp' = TRUE /\ Goto("copy") /\ UNCHANGED mem
     \/ Goto("err1") /\ mem' = [mem EXCEPT ![MapAt(Seg, i)] = NoPage] /\ UNCHANGED utemp
  /\ UNCHANGED <<job, fd, child, stack, lib, ph, i, r>>
mapper_copy ==
  /\ At("copy") /\ Goto("load") /\ utemp' = FALSE
  /\ mem' = [mem EXCEPT ![MapAt(Seg, i)] = Content(Seg, i)]
  /\ i' = Advance(Seg, i)
  /\ UNCHANGED <<job, fd, child, stack, lib, ph, r>>

\* After syscall_set_trapframe, which cannot fail here: the pages to share one
\* by one, then the child may run.
share ==
  /\ At("share") /\ lib < job.lib
  /\ \/ lib' = lib + 1 /\ UNCHANGED <<pc, r>>
     \/ r' = E_NO_MEM /\ Goto("err2") /\ UNCHANGED lib
  /\ UNCHANGED <<job, fd, child, mem, stack, utemp, ph, i>>
set_env_status ==
  /\ At("share") /\ lib = job.lib
  /\ child' = "ENV_RUNNABLE" /\ r' = CHILD /\ Goto("done")
  /\ UNCHANGED <<job, fd, mem, stack, lib, utemp, ph, i>>

(***************************************************************************)
(* err2, err1 and err.  syscall_env_destroy fails if there is no child.    *)
(* Else it frees the child with its pages, and last takes it off           *)
(* env_sched_list, where the child never was: in a slot used for the first *)
(* time the store through its null link stops the kernel, in another it    *)
(* goes through an old link (run env_destroy).                             *)
(***************************************************************************)
destroy(next) ==
  IF Exists THEN child' = "ENV_FREE" /\ pc' \in {next, "panic"}
  ELSE UNCHANGED child /\ Goto(next)
err2 ==
  /\ At("err2") /\ destroy("done")
  /\ UNCHANGED <<job, fd, mem, stack, lib, utemp, ph, i, r>>
err1 ==
  /\ At("err1") /\ destroy("err")
  /\ UNCHANGED <<job, fd, mem, stack, lib, utemp, ph, i, r>>
err ==
  /\ At("err") /\ Goto("done") /\ fd' = FALSE
  /\ UNCHANGED <<job, child, mem, stack, lib, utemp, ph, i, r>>

Done == (At("done") \/ At("panic")) /\ UNCHANGED vars

Next ==
  \/ open \/ read_header \/ exofork \/ stack_alloc \/ stack_map \/ next_segment
  \/ end_segment \/ load_icode_mapper \/ mapper_alloc \/ mapper_utemp \/ mapper_copy
  \/ share \/ set_env_status \/ err2 \/ err1 \/ err \/ Done

Spec == Init /\ [][Next]_vars

-----------------------------------------------------------------------------
\* Also: what is copied into a page ends in that page.
TypeOK ==
  /\ pc \in {"open", "readn", "exofork", "stack_alloc", "stack_map", "phdr", "load", "map_utemp",
             "copy", "share", "err2", "err1", "err", "done", "panic"}
  /\ fd \in BOOLEAN /\ utemp \in BOOLEAN
  /\ child \in {"none", "ENV_NOT_RUNNABLE", "ENV_RUNNABLE", "ENV_FREE"}
  /\ mem \in [Page -> [off : Int, src : Int, len : Nat]]
  /\ \A n \in Page : mem[n] = NoPage \/ (mem[n].off >= 0 /\ mem[n].off + mem[n].len <= PAGE_SIZE)
  /\ ph \in 1..Len(job.segs) + 1 /\ i \in Nat \union {Before}
  /\ lib \in 0..job.lib /\ r \in E_NOT_FOUND..CHILD

\* The byte of the file that address v of the child holds, 0 for a zero; the
\* kernel gives a page of zeros where nothing is mapped (passive_alloc).
Byte(v) ==
  LET p == mem[v \div PAGE_SIZE]
      o == v % PAGE_SIZE
  IN  IF p.off >= 0 /\ o >= p.off /\ o < p.off + p.len THEN p.src + o - p.off ELSE 0

\* When a child may run its memory is what the program file says: the bytes of
\* every segment at their addresses, zeros up to memsz, and, from spawn, its
\* stack and all the pages the parent shares with it.
ChildComplete ==
  child = "ENV_RUNNABLE" =>
    /\ \A n \in DOMAIN job.segs : LET s == job.segs[n] IN
         \A k \in 0..s.memsz - 1 : Byte(s.va + k) = IF k < s.filesz THEN s.src + k ELSE 0
    /\ job.by = "spawn" => stack.argc = Len(job.lens) /\ lib = job.lib

\* The words and the strings of the stack page do not meet, none is outside of
\* the page, and every argument begins where its pointer says.
StackFits ==
  stack # NoStack =>
    LET lens == job.lens
    IN  /\ stack.sp >= 0 /\ stack.sp % 4 = 0
        /\ stack.argv + 4 * (stack.argc + 1) <= stack.strings
        /\ \A n \in 1..Len(lens) :
             stack.args[n] + lens[n] + 1 =
               IF n = Len(lens) THEN PAGE_SIZE ELSE stack.args[n + 1]

\* However far spawn came before a call failed, when it returns no file of its
\* own is open, nothing is at UTEMP, and no slot is held by a child that will
\* never run.  It may not return: destroying the child may stop the kernel.
NoLeak ==
  At("done") => ~fd /\ ~utemp /\ child # "ENV_NOT_RUNNABLE"

=============================================================================
