------------------------------ MODULE FsLayout ------------------------------
(***************************************************************************)
(* What a sound file system of fs/fs.c looks like, as a property of one    *)
(* state s of FileSystem.  The state is seen as an array of Files and an   *)
(* array of pointers, one at each place where a block number is stored:    *)
(* <<b, j, i>>, i >= 0, is the i'th direct pointer of the File in slot j   *)
(* of block b, <<b, j, -1>> the pointer to its indirect block, and         *)
(* <<b, -1, i>> entry i of the block b used as an indirect block.  Every   *)
(* block has all these places, whatever it is used for: a block that holds *)
(* no Files has none with a name, one that holds no pointers only zeros.   *)
(***************************************************************************)
EXTENDS FileSystem

FilePlace == Block \X Slot
Place == (Block \X Slot \X (-1..NDIRECT - 1)) \union (Block \X {-1} \X (NDIRECT..NINDIRECT - 1))

FileType ==
  [name : Names \union {NoName, "/"}, type : {"reg", "dir"}, size : Nat,
   direct : [0..NDIRECT - 1 -> Block], indirect : Block]
Content ==
  [files : [Slot -> FileType], ptr : [NDIRECT..NINDIRECT - 1 -> Block], bytes : BOOLEAN]

\* The states the functions of fs.c work on, after an error too.
State ==
  {s \in [free : SUBSET Block, disk_free : SUBSET Block, mapped : SUBSET Block,
          dirty : SUBSET Block, unsaved : SUBSET Block, blk : [Block -> Content],
          status : {"ok", "panic", "garbage"}] : s.dirty \subseteq s.mapped}

\* The super block and the bitmap stay in the cache, and the bitmap on the disk
\* has no block free that is in use.
OnDisk(s) == 0..2 \subseteq s.mapped /\ s.disk_free \subseteq s.free

Name(s, f) == File(s, f).name
Type(s, f) == File(s, f).type
Size(s, f) == File(s, f).size
Ptr(s, p) ==
  IF p[2] = -1 THEN s.blk[p[1]].ptr[p[3]]
  ELSE IF p[3] = -1 THEN File(s, p).indirect ELSE File(s, p).direct[p[3]]

Ind(f) == <<f[1], f[2], -1>>

\* The places where block numbers of the contents of f are stored: p[3] is
\* the number of the block in the file.
Data(s, f, p) ==
  /\ p \in Place /\ p[3] >= 0
  /\ \/ p[1] = f[1] /\ p[2] = f[2]
     \/ p[2] = -1 /\ p[1] = Ptr(s, Ind(f)) /\ p[1] # 0

\* The File f is in a block of d.
InDir(s, d, f) == f[1] # 0 /\ \E p \in Place : Data(s, d, p) /\ Ptr(s, p) = f[1]

-----------------------------------------------------------------------------
\* A block is pointed to once, and never one of the first three; the others
\* are free if they are not pointed to.
OnePointer(s) ==
  \A p \in Place : \A q \in Place : Ptr(s, p) = Ptr(s, q) /\ Ptr(s, p) # 0 => p = q
FreeExact(s) ==
  \A b \in Block : b \in s.free <=> b \notin 0..2 /\ \A p \in Place : Ptr(s, p) # b
Above(s) == \A p \in Place : Ptr(s, p) \notin {1, 2}

\* Files with a name are in a block of a directory, directories in one of the
\* root, and only the indirect block of a File holds pointers.
NamedInDir(s) ==
  \A f \in FilePlace : Name(s, f) # NoName =>
    f = Root \/ \E d \in FilePlace : Type(s, d) = "dir" /\ InDir(s, d, f)
DirsInRoot(s) ==
  /\ Type(s, Root) = "dir"
  /\ \A d \in FilePlace : Type(s, d) = "dir" => d = Root \/ InDir(s, Root, d)
PointersInIndirect(s) ==
  \A p \in Place : p[2] = -1 /\ Ptr(s, p) # 0 =>
    p[1] # 0 /\ \E f \in FilePlace : Ptr(s, Ind(f)) = p[1]

\* A file has no block past its end, and a File without a name has none.
WithinSize(s) ==
  \A f \in FilePlace : \A p \in Place : Data(s, f, p) /\ p[3] >= Size(s, f) => Ptr(s, p) = 0
UnnamedEmpty(s) ==
  \A f \in FilePlace : Name(s, f) = NoName =>
    /\ Type(s, f) = "reg" /\ Size(s, f) = 0
    /\ \A i \in -1..NDIRECT - 1 : Ptr(s, <<f[1], f[2], i>>) = 0

NamesDiffer(s) ==
  \A d \in FilePlace : \A f \in FilePlace : \A g \in FilePlace :
    /\ Type(s, d) = "dir" /\ InDir(s, d, f) /\ InDir(s, d, g)
    /\ Name(s, f) = Name(s, g) /\ Name(s, f) # NoName
    => f = g

Sound(s) ==
  /\ OnePointer(s) /\ FreeExact(s) /\ Above(s)
  /\ NamedInDir(s) /\ DirsInRoot(s) /\ PointersInIndirect(s)
  /\ WithinSize(s) /\ UnnamedEmpty(s) /\ NamesDiffer(s)

\* A directory is made one block longer before its last block is there.
Bounded(s) == \A f \in FilePlace : Size(s, f) <= NINDIRECT + 1

\* A disk to start from.
Formatted(s) == s \in State /\ OnDisk(s) /\ Bounded(s) /\ Sound(s)

=============================================================================
