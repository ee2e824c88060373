----------------------------- MODULE FsRequests -----------------------------
(***************************************************************************)
(* The requests of fs/serv.c on the file system: what each handler does to *)
(* the disk and its cache.  Who may send them is the subject of FileServer;*)
(* here a client works on files that have a name and are not directories,  *)
(* truncates and removes no directory, and maps only blocks below the size *)
(* of the file.                                                            *)
(***************************************************************************)
EXTENDS Fsformat, FsLayout

CONSTANTS Images,   \* sets of files fsformat is called with
          Paths,    \* the paths clients use
          MaxSize   \* the largest size they ask for

ASSUME RequestSizes == MaxSize \in 0..NINDIRECT
ASSUME PathShape == Paths \subseteq Seq(Names)

\* What fsformat writes is a sound file system.
ASSUME ImagesSound == \A image \in Images : Formatted(fs_init(image))

VARIABLE fs

Init == \E image \in Images : fs = fs_init(image)

\* The server has not panicked, and has not read a page of clients' bytes as
\* Files or as pointers; fs.c goes on when it does, with what they say.
Alive == fs.status = "ok"

\* The directories, and pairs <<File, its directory>> of files with a name.
Files(s, dir) ==
  LET x == File(s, dir)
      bs == {x.direct[i] : i \in 0..NDIRECT - 1} \union
            (IF x.indirect = 0 THEN {} ELSE {s.blk[x.indirect].ptr[i] : i \in NDIRECT..NINDIRECT - 1})
  IN  {<<<<b, j>>, dir>> : b \in bs \ {0}, j \in Slot}
Subdirs(s) == {p[1] : p \in {q \in Files(s, Root) : File(s, q[1]).type = "dir"}}
Dirs(s) == {Root} \union Subdirs(s)
AllFiles(s) == UNION {Files(s, d) : d \in Dirs(s)}
Opened == {p \in AllFiles(fs) : File(fs, p[1]).name # NoName /\ File(fs, p[1]).type = "reg"}

\* serve_open passes any path; clients truncate files, not directories.
serve_open(path, creat, trunc) ==
  /\ Alive
  /\ LET o == open_file(fs, path, creat, FALSE) IN trunc /\ o.v = 0 => File(o.s, o.f).type = "reg"
  /\ fs' = open_file(fs, path, creat, trunc).s

serve_map(f, bno) ==
  Alive /\ bno < File(fs, f).size /\ fs' = file_get_block(fs, f, bno).s

serve_set_size(f, dir, n) == Alive /\ fs' = file_set_size(fs, f, n, dir)

serve_dirty(f, bno) == Alive /\ fs' = file_dirty(fs, f, bno).s

serve_close(f, dir) == Alive /\ fs' = file_close(fs, f, dir)

\* serve_remove passes any path; clients remove files, not directories.
serve_remove(path) ==
  /\ Alive
  /\ LET w == walk_path(fs, path) IN w.v = 0 => File(w.s, w.f).type = "reg"
  /\ fs' = file_remove(fs, path).s

serve_sync == Alive /\ fs' = fs_sync(fs)

\* A client stores into a page of a file that it has mapped.
Store(f, bno) ==
  LET m == file_map_block(fs, f, bno, FALSE)
  IN  /\ Alive /\ bno < File(fs, f).size /\ m.v > 0 /\ m.v \in fs.mapped
      /\ fs' = [fs EXCEPT !.blk[m.v].bytes = TRUE, !.unsaved = @ \union {m.v}]

\* user_panic ends the server; with garbage nothing more can be said.
Stopped == ~Alive /\ UNCHANGED fs

Next ==
  \/ \E path \in Paths : \E creat \in BOOLEAN : \E trunc \in BOOLEAN : serve_open(path, creat, trunc)
  \/ \E path \in Paths : serve_remove(path)
  \/ \E p \in Opened : \E n \in 0..MaxSize : serve_set_size(p[1], p[2], n)
  \/ \E p \in Opened : \E bno \in 0..MaxSize - 1 : serve_map(p[1], bno) \/ Store(p[1], bno)
  \/ \E p \in Opened : \E bno \in 0..MaxSize - 1 : serve_dirty(p[1], bno)
  \/ \E p \in Opened : serve_close(p[1], p[2])
  \/ serve_sync
  \/ Stopped

Spec == Init /\ [][Next]_fs

-----------------------------------------------------------------------------
TypeOK == fs \in State /\ Bounded(fs)

\* The pointers of a File, as pairs <<place, block>>.
Pointers(s, f) ==
  LET x == File(s, f)
      d == {<<<<f[1], f[2], i>>, x.direct[i]>> : i \in 0..NDIRECT - 1}
      n == {<<<<f[1], f[2], -1>>, x.indirect>>}
      p == IF x.indirect = 0 THEN {}
           ELSE {<<<<x.indirect, -1, i>>, s.blk[x.indirect].ptr[i]>> : i \in NDIRECT..NINDIRECT - 1}
  IN  {q \in d \union n \union p : q[2] # 0}
AllPointers(s) == UNION {Pointers(s, f) : f \in {Root} \union {p[1] : p \in AllFiles(s)}}

\* No block belongs to two files, or twice to one: after any growth, truncation
\* and removal, and after requests that failed for want of space.
NoSharedBlock ==
  Alive => \A p \in AllPointers(fs) : \A q \in AllPointers(fs) : p[2] = q[2] => p = q

\* The bitmap says of every block whether something points to it: no block of
\* a file can be handed out again or make read_block panic, and none is lost
\* when a request fails half way.
BitmapExact ==
  Alive => Block \ fs.free = 0..2 \union {p[2] : p \in AllPointers(fs)}

\* The bitmap on the disk is behind, but on the safe side: after a restart no
\* block that holds something now is taken for free (alloc_block_num writes
\* the bitmap before the block is used).
BitmapOnDisk == fs.disk_free \subseteq fs.free

\* As long as no directory block comes from a page of clients' bytes: a File
\* without a name, never used or removed, has no size and no blocks; and two
\* Files of a directory never have the same name.
DirectoriesSound ==
  Alive => \A p \in AllFiles(fs) :
    IF File(fs, p[1]).name = NoName THEN File(fs, p[1]) = NoFile
    ELSE \A q \in AllFiles(fs) : p[2] = q[2] /\ File(fs, q[1]).name = File(fs, p[1]).name => p = q

\* A request changes the size and the blocks of the file it names and of no
\* other: serve_open and serve_remove of the file that their path leads to,
\* serve_set_size and serve_map of the open file; the others of none.
Shape(s, f) == <<File(s, f).size, Pointers(s, f)>>
Touched == {p[1] : p \in {q \in Opened : Shape(fs, q[1]) # Shape(fs', q[1])}}
Isolated ==
  [][fs'.status = "ok" /\ Touched # {} =>
       /\ \A path \in Paths : \A creat \in BOOLEAN : \A trunc \in BOOLEAN :
            serve_open(path, creat, trunc) => Touched = {open_file(fs, path, creat, FALSE).f}
       /\ \A path \in Paths : serve_remove(path) => Touched = {walk_path(fs, path).f}
       /\ \A p \in Opened : \A n \in 0..MaxSize : serve_set_size(p[1], p[2], n) => Touched = {p[1]}
       /\ \A p \in Opened : \A bno \in 0..MaxSize - 1 :
            /\ serve_map(p[1], bno) => Touched = {p[1]}
            /\ ~serve_dirty(p[1], bno) /\ ~Store(p[1], bno)
       /\ \A p \in Opened : ~serve_close(p[1], p[2])
       /\ ~serve_sync]_fs

(***************************************************************************)
(* fs/fs.c, file_clear_block: "Remove a block from file f. If it's not     *)
(* there, just silently succeed."                                          *)
(***************************************************************************)
NoPanic == fs.status # "panic"

=============================================================================
