----------------------------- MODULE FileSystem -----------------------------
(***************************************************************************)
(* The file system of the file server, fs/fs.c.                            *)
(*                                                                         *)
(* The server is one environment that serves one request at a time, so a   *)
(* request is a step; but a request is a chain of calls with error returns *)
(* in the middle, and what is done before an error is not undone.  Each    *)
(* function of fs.c is an operator on the state s that returns the new     *)
(* state with its result: [s, v], v negative for an error.  What a         *)
(* function does with the result of a call is a local operator named for   *)
(* what the call has done.                                                 *)
(*                                                                         *)
(* A block in the cache holds struct Files (a directory block), block      *)
(* numbers (an indirect block) or bytes.  Nothing clears the page of a     *)
(* block that was freed and is used again, so its content has all three    *)
(* views; reading bytes as pointers or as Files makes the server's         *)
(* behaviour depend on what users wrote, and the model stops there with    *)
(* status "garbage".  Sizes count blocks.  s.unsaved is the set of blocks  *)
(* whose bytes a client has changed since they were last written.          *)
(***************************************************************************)
EXTENDS Integers, Sequences, FiniteSets, SequencesExt

CONSTANTS NBLOCK,     \* s_nblocks
          NDIRECT,    \* direct pointers of a File
          NINDIRECT,  \* blocks of the largest file
          FILE2BLK,   \* Files in a directory block
          Names       \* file names (non-empty strings)

NoName == ""  \* the name of a File that is not used

ASSUME FsSizes ==
  /\ NBLOCK \in Nat /\ NBLOCK > 3
  /\ NDIRECT \in Nat \ {0} /\ NINDIRECT \in Nat /\ NINDIRECT > NDIRECT
  /\ FILE2BLK \in Nat \ {0}
  /\ NoName \notin Names

Block == 0..NBLOCK - 1
Slot == 0..FILE2BLK - 1
SUPER == 1
BITMAP == 2
Root == <<SUPER, 0>>  \* &super->s_root
NIL == <<0, 0>>       \* a null struct File *

E_NO_DISK == -1
E_NOT_FOUND == -2
E_INVAL == -3
E_FILE_EXISTS == -4

NoFile == [name |-> NoName, type |-> "reg", size |-> 0,
           direct |-> [i \in 0..NDIRECT - 1 |-> 0], indirect |-> 0]
Zero == [files |-> [j \in Slot |-> NoFile],
         ptr |-> [i \in NDIRECT..NINDIRECT - 1 |-> 0],
         bytes |-> FALSE]

File(s, f) == s.blk[f[1]].files[f[2]]
Put(s, f, x) == [s EXCEPT !.blk[f[1]].files[f[2]] = x]

Ret(s, v) == [s |-> s, v |-> v]
Panic(s) == [s EXCEPT !.status = "panic"]
Range0(n) == [i \in 1..n |-> i - 1]

\* An operator with a suffix _... is a slip a programmer could make in the
\* one after it.
-----------------------------------------------------------------------------
(* Blocks and the cache. *)

block_is_free(s, b) == b \in s.free

write_block(s, b) ==
  IF b \notin s.mapped THEN Panic(s)
  ELSE IF b = BITMAP THEN [s EXCEPT !.disk_free = s.free]
  ELSE [s EXCEPT !.unsaved = @ \ {b}]

read_block(s, b) ==
  IF block_is_free(s, b) THEN Panic(s) ELSE [s EXCEPT !.mapped = @ \union {b}]

dirty_block_unchecked(s, b) == Ret([s EXCEPT !.dirty = @ \union {b}], 0)
dirty_block(s, b) ==
  IF b \notin s.mapped THEN Ret(s, E_NOT_FOUND)
  ELSE Ret([s EXCEPT !.dirty = @ \union {b}], 0)

\* A page that is in the cache already keeps its old content.
map_block(s, b) ==
  IF b \in s.mapped THEN s
  ELSE [s EXCEPT !.mapped = @ \union {b}, !.blk[b] = Zero]

free_block(s, b) == IF b = 0 THEN s ELSE [s EXCEPT !.free = @ \union {b}]

\* The lowest free block.
Lowest(S) == CHOOSE x \in S : \A y \in S : x <= y
alloc_block_num_unwritten(s) ==
  LET Take(b) == Ret([s EXCEPT !.free = @ \ {b}], b)
  IN  IF s.free \subseteq 0..2 THEN Ret(s, E_NO_DISK) ELSE Take(Lowest(s.free \ (0..2)))
alloc_block_num(s) ==
  LET Take(b) == Ret(write_block([s EXCEPT !.free = @ \ {b}], BITMAP), b)
  IN  IF s.free \subseteq 0..2 THEN Ret(s, E_NO_DISK) ELSE Take(Lowest(s.free \ (0..2)))

alloc_block(s) ==
  LET Map(a) == IF a.v < 0 THEN a ELSE Ret(map_block(a.s, a.v), a.v)
  IN  Map(alloc_block_num(s))

-----------------------------------------------------------------------------
(* The blocks of a file.  A place <<b, j, i>> is the i'th direct pointer   *)
(* of the File in slot j of block b, <<b, -1, i>> entry i of the indirect  *)
(* block b.                                                                *)

Deref(s, at) ==
  IF at[2] >= 0 THEN File(s, at).direct[at[3]] ELSE s.blk[at[1]].ptr[at[3]]
Assign(s, at, b) ==
  IF at[2] >= 0
  THEN [s EXCEPT !.blk[at[1]].files[at[2]].direct[at[3]] = b]
  ELSE [s EXCEPT !.blk[at[1]].ptr[at[3]] = b]

\* A page used as pointers, or as Files, that holds something else.
AsPointers(s, b) ==
  IF s.blk[b].bytes \/ s.blk[b].files # Zero.files THEN [s EXCEPT !.status = "garbage"] ELSE s
AsFiles(s, b) ==
  IF s.blk[b].bytes \/ s.blk[b].ptr # Zero.ptr THEN [s EXCEPT !.status = "garbage"] ELSE s

file_block_walk(s, f, bno, alloc) ==
  LET Found(t, at) == [s |-> t, v |-> 0, at |-> at]
      Fails(t, e) == [s |-> t, v |-> e, at |-> <<0, 0, 0>>]
      WithNew(a) ==
        IF a.v < 0 THEN Fails(a.s, a.v)
        ELSE Found(AsPointers(Put(a.s, f, [File(a.s, f) EXCEPT !.indirect = a.v]), a.v),
                   <<a.v, -1, bno>>)
      Indirect(b) ==
        IF b # 0 THEN Found(read_block(s, b), <<b, -1, bno>>)
        ELSE IF ~alloc THEN Fails(s, E_NOT_FOUND)
        ELSE WithNew(alloc_block(s))
  IN  IF bno < NDIRECT THEN Found(s, <<f[1], f[2], bno>>)
      ELSE IF bno >= NINDIRECT THEN Fails(s, E_INVAL)
      ELSE Indirect(File(s, f).indirect)

file_map_block(s, f, bno, alloc) ==
  LET WithNew(a, at) == IF a.v < 0 THEN a ELSE Ret(Assign(a.s, at, a.v), a.v)
      At(w) ==
        IF w.v < 0 \/ w.s.status # "ok" THEN Ret(w.s, w.v)
        ELSE IF Deref(w.s, w.at) # 0 THEN Ret(w.s, Deref(w.s, w.at))
        ELSE IF ~alloc THEN Ret(w.s, E_NOT_FOUND)
        ELSE WithNew(alloc_block(w.s), w.at)
  IN  At(file_block_walk(s, f, bno, alloc))

\* The pointer is cleared with the block; a hole is not an error, except past
\* the direct pointers of a file without an indirect block.
file_clear_block_dangling(s, f, bno) ==
  LET At(w) == IF w.v < 0 THEN Ret(w.s, w.v)
               ELSE Ret(free_block(w.s, Deref(w.s, w.at)), 0)
  IN  At(file_block_walk(s, f, bno, FALSE))
file_clear_block(s, f, bno) ==
  LET At(w) == IF w.v < 0 THEN Ret(w.s, w.v)
               ELSE Ret(Assign(free_block(w.s, Deref(w.s, w.at)), w.at, 0), 0)
  IN  At(file_block_walk(s, f, bno, FALSE))

file_get_block(s, f, bno) ==
  LET Read(m) == IF m.v < 0 \/ m.s.status # "ok" THEN m ELSE Ret(read_block(m.s, m.v), m.v)
  IN  Read(file_map_block(s, f, bno, TRUE))

file_dirty(s, f, bno) ==
  LET Dirty(m) == IF m.v < 0 THEN m ELSE dirty_block(m.s, m.v)
  IN  Dirty(file_map_block(s, f, bno, FALSE))

\* Only blocks that somebody called dirty are written.
FlushBlock(s, f, bno) ==
  LET Flush(m) == IF m.v >= 0 /\ m.v \in m.s.dirty THEN write_block(m.s, m.v) ELSE m.s
  IN  Flush(file_map_block(s, f, bno, FALSE))
file_flush(s, f) ==
  FoldLeft(LAMBDA t, bno : FlushBlock(t, f, bno), s, Range0(File(s, f).size))

-----------------------------------------------------------------------------
(* Directories and paths.  A path is a sequence of names.                  *)

DirBlock(s, dir, i) ==
  LET Use(g) == IF g.v < 0 \/ g.s.status # "ok" THEN g ELSE Ret(AsFiles(g.s, g.v), g.v)
  IN  Use(file_get_block(s, dir, i))

\* The first File of dir with this name, block after block.  Reading a block
\* that is missing (see dir_alloc_file) allocates it.
ScanBlock(r, dir, name, i) ==
  LET Hits(g) == {j \in Slot : g.s.blk[g.v].files[j].name = name}
      In(g) ==
        IF g.v < 0 THEN [s |-> g.s, v |-> g.v, f |-> NIL]
        ELSE IF Hits(g) = {} THEN [s |-> g.s, v |-> E_NOT_FOUND, f |-> NIL]
        ELSE [s |-> g.s, v |-> 0, f |-> <<g.v, Lowest(Hits(g))>>]
  IN  IF r.v # E_NOT_FOUND \/ r.s.status # "ok" THEN r ELSE In(DirBlock(r.s, dir, i))
dir_scan(s, dir, name) ==
  FoldLeft(LAMBDA r, i : ScanBlock(r, dir, name, i), [s |-> s, v |-> E_NOT_FOUND, f |-> NIL],
           Range0(File(s, dir).size))

dir_lookup(s, dir, name) == dir_scan(s, dir, name)

\* A File without a name, or the first one of a new block: the directory is
\* made longer before the block is there.
dir_alloc_file(s, dir) ==
  LET n == File(s, dir).size
      InNew(g) == IF g.v < 0 THEN [s |-> g.s, v |-> g.v, f |-> NIL]
                  ELSE [s |-> g.s, v |-> 0, f |-> <<g.v, 0>>]
      Scanned(r) ==
        IF r.v # E_NOT_FOUND \/ r.s.status # "ok" THEN r
        ELSE InNew(DirBlock(Put(r.s, dir, [File(r.s, dir) EXCEPT !.size = n + 1]), dir, n))
  IN  Scanned(dir_scan(s, dir, NoName))

\* dir is set only when the name could be created there.
WalkName(r, path, n) ==
  LET Found(l) ==
        IF l.v < 0
        THEN [s |-> l.s, v |-> l.v, f |-> NIL,
              dir |-> IF l.v = E_NOT_FOUND /\ n = Len(path) THEN r.f ELSE NIL]
        ELSE [s |-> l.s, v |-> 0, f |-> l.f, dir |-> r.f]
  IN  IF r.v < 0 \/ r.s.status # "ok" THEN r
      ELSE IF File(r.s, r.f).type # "dir"
      THEN [s |-> r.s, v |-> E_NOT_FOUND, f |-> NIL, dir |-> NIL]
      ELSE Found(dir_lookup(r.s, r.f, path[n]))
walk_path(s, path) ==
  FoldLeft(LAMBDA r, n : WalkName(r, path, n + 1), [s |-> s, v |-> 0, f |-> Root, dir |-> NIL],
           Range0(Len(path)))

file_open(s, path) == walk_path(s, path)

\* Only the name is written: the rest of the File is what its last owner left.
\* A failure of dir_alloc_file is answered with the result of walk_path.
NewFile(a, r, name) ==
  IF a.v < 0 \/ a.s.status # "ok" THEN Ret(a.s, r)
  ELSE Ret(Put(a.s, a.f, [File(a.s, a.f) EXCEPT !.name = name]), 0)
file_create_again(s, path) ==
  LET In(w) == NewFile(dir_alloc_file(w.s, IF w.v = 0 THEN w.dir ELSE Root), w.v, Last(path))
  IN  In(walk_path(s, path))
file_create(s, path) ==
  LET In(w) ==
        IF w.s.status # "ok" THEN Ret(w.s, w.v)
        ELSE IF w.v = 0 THEN Ret(w.s, E_FILE_EXISTS)
        ELSE IF w.v # E_NOT_FOUND \/ w.dir = NIL THEN Ret(w.s, w.v)
        ELSE NewFile(dir_alloc_file(w.s, w.dir), w.v, Last(path))
  IN  In(walk_path(s, path))

ClearBlock(s, f, bno) ==
  LET Cleared(c) == IF c.v < 0 THEN Panic(c.s) ELSE c.s
  IN  IF s.status # "ok" THEN s ELSE Cleared(file_clear_block(s, f, bno))
ClearBlocks(s, f, from, to) ==
  FoldLeft(LAMBDA t, i : ClearBlock(t, f, from + i), s, Range0(to - from))

file_truncate_keeps_indirect(s, f, n) ==
  LET Cut(c) == IF c.status # "ok" THEN c
                ELSE Put(c, f, [File(c, f) EXCEPT !.size = n, !.indirect = IF n <= NDIRECT THEN 0 ELSE @])
  IN  Cut(ClearBlocks(s, f, n, File(s, f).size))
file_truncate_stale(s, f, n) ==
  LET Cut(c, x) == IF c.status # "ok" THEN c
                   ELSE Put(IF n <= NDIRECT THEN free_block(c, x.indirect) ELSE c, f, [x EXCEPT !.size = n])
      Cleared(c) == Cut(c, File(c, f))
  IN  Cleared(ClearBlocks(s, f, n, File(s, f).size))
file_truncate(s, f, n) ==
  LET Cut(c, x) ==
        IF c.status # "ok" THEN c
        ELSE IF n <= NDIRECT
        THEN Put(free_block(c, x.indirect), f, [x EXCEPT !.size = n, !.indirect = 0])
        ELSE Put(c, f, [x EXCEPT !.size = n])
      Cleared(c) == Cut(c, File(c, f))
  IN  Cleared(ClearBlocks(s, f, n, File(s, f).size))

\* The directory of f is flushed after it; dir is what dir_lookup left in
\* f_dir when f was opened.
file_set_size(s, f, n, dir) ==
  LET Sized(t) == IF t.status # "ok" THEN t
                  ELSE file_flush(Put(t, f, [File(t, f) EXCEPT !.size = n]), dir)
  IN  Sized(IF File(s, f).size > n THEN file_truncate(s, f, n) ELSE s)

\* serve_open on the file system: a failed file_create is answered unless the
\* file was there; then file_open and, with O_TRUNC, file_set_size.
open_file(s, path, creat, trunc) ==
  LET Opened(o) ==
        IF o.v < 0 \/ o.s.status # "ok" \/ ~trunc THEN o
        ELSE [o EXCEPT !.s = file_set_size(o.s, o.f, 0, o.dir)]
      Created(c) ==
        IF c.s.status # "ok" \/ (c.v < 0 /\ c.v # E_FILE_EXISTS)
        THEN [s |-> c.s, v |-> c.v, f |-> NIL, dir |-> NIL]
        ELSE Opened(file_open(c.s, path))
  IN  Created(IF creat THEN file_create(s, path) ELSE Ret(s, 0))

file_close(s, f, dir) == file_flush(file_flush(s, f), dir)

file_remove(s, path) ==
  LET Cut(t, w) ==
        IF t.status # "ok" THEN t
        ELSE file_close(Put(t, w.f, [File(t, w.f) EXCEPT !.name = NoName]), w.f, w.dir)
      At(w) == IF w.v < 0 \/ w.s.status # "ok" THEN Ret(w.s, w.v)
               ELSE Ret(Cut(file_truncate(w.s, w.f, 0), w), 0)
  IN  At(walk_path(s, path))

SyncBlock(s, b) == IF b \in s.dirty THEN write_block(s, b) ELSE s
fs_sync(s) == FoldLeft(SyncBlock, s, Range0(NBLOCK))

=============================================================================
