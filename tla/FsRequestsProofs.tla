------------------------- MODULE FsRequestsProofs ---------------------------
(***************************************************************************)
(* Whatever requests the file server gets, on a disk of any size and from  *)
(* any sound image: no block belongs to two files, the bitmap is exact,    *)
(* directories are sound and a request changes only the file it names.     *)
(* These end when the server panics or reads a page of clients' bytes as   *)
(* Files or pointers (Alive).                                              *)
(*                                                                         *)
(* The argument.  FsInv adds to the properties what they rest on: that     *)
(* Files and pointers are found only where the layout has them, that no    *)
(* file has a block past its end, and that a File without a name has none. *)
(* The lemmas of FileSystemProofs say that each request keeps it.          *)
(***************************************************************************)
EXTENDS FileSystemProofs, FsRequests

-----------------------------------------------------------------------------
(* The files and pointers that the requests reach. *)

\* The blocks of a File, and the Files in the blocks of a directory.
LEMMA FilesIs ==
  ASSUME NEW s \in Saved, NEW d \in FilePlace
  PROVE  \A x : x \in Files(s, d) <=> \E f \in FilePlace : x = <<f, d>> /\ InDir(s, d, f)
  <1> DEFINE x == File(s, d)
             bs == {x.direct[i] : i \in 0..NDIRECT - 1} \union
                   (IF x.indirect = 0 THEN {} ELSE {s.blk[x.indirect].ptr[i] : i \in NDIRECT..NINDIRECT - 1})
  <1>1. Files(s, d) = {<<<<b, j>>, d>> : b \in bs \ {0}, j \in Slot}
    BY DEF Files
  <1>2. /\ x.indirect = Ptr(s, Ind(d)) /\ x.indirect \in Block /\ Ind(d) \in Place
        /\ \A i \in 0..NDIRECT - 1 : x.direct[i] = Ptr(s, <<d[1], d[2], i>>)
        /\ \A b \in Block : \A i \in NDIRECT..NINDIRECT - 1 : Ptr(s, <<b, -1, i>>) = s.blk[b].ptr[i]
    BY PtrIs, IndPlace
  <1>3. \A b : b \in bs <=> \E p \in Place : Data(s, d, p) /\ Ptr(s, p) = b
    <2> HIDE DEF x
    <2> TAKE b
    <2>1. ASSUME NEW p \in Place, Data(s, d, p), Ptr(s, p) = b PROVE b \in bs
      <3>0. p = <<p[1], p[2], p[3]>>
        BY PlaceIs
      <3>1. CASE p[1] = d[1] /\ p[2] = d[2]
        <4>1. p[3] \in 0..NDIRECT - 1
          BY <2>1, <3>1, PlaceIs, FileIs DEF Slot, Data
        <4>2. b = x.direct[p[3]]
          BY <1>2, <2>1, <3>0, <3>1, <4>1
        <4> QED BY <4>1, <4>2
      <3>2. CASE p[2] = -1 /\ p[1] = Ptr(s, Ind(d)) /\ p[1] # 0
        <4>1. p[3] \in NDIRECT..NINDIRECT - 1
          BY <3>2, PlaceIs DEF Slot
        <4>2. b = s.blk[x.indirect].ptr[p[3]] /\ x.indirect # 0
          BY <1>2, <2>1, <3>0, <3>2, <4>1
        <4> QED BY <4>1, <4>2
      <3> QED BY <2>1, <3>1, <3>2 DEF Data
    <2>2. ASSUME NEW i \in 0..NDIRECT - 1, b = x.direct[i]
          PROVE  \E p \in Place : Data(s, d, p) /\ Ptr(s, p) = b
      <3> DEFINE p == <<d[1], d[2], i>>
      <3>1. p \in Place /\ i \in -1..NDIRECT - 1
        BY PlaceOf, FsSizes
      <3>2. Data(s, d, p) /\ Ptr(s, p) = b
        BY <1>2, <2>2, <3>1 DEF Data
      <3> QED BY <3>1, <3>2
    <2>3. ASSUME NEW i \in NDIRECT..NINDIRECT - 1, x.indirect # 0, b = s.blk[x.indirect].ptr[i]
          PROVE  \E p \in Place : Data(s, d, p) /\ Ptr(s, p) = b
      <3> DEFINE p == <<x.indirect, -1, i>>
      <3>1. p \in Place /\ i >= 0
        BY <1>2, PlaceOf, FsSizes
      <3>2. Data(s, d, p) /\ Ptr(s, p) = b
        BY <1>2, <2>3, <3>1 DEF Data
      <3> QED BY <3>1, <3>2
    <2> QED BY <2>1, <2>2, <2>3
  <1>4. \A b \in bs : b \in Block
    BY <1>3, PtrIs
  <1> HIDE DEF bs
  <1> TAKE y
  <1>5. ASSUME y \in Files(s, d) PROVE \E f \in FilePlace : y = <<f, d>> /\ InDir(s, d, f)
    <2>1. PICK b \in bs \ {0}, j \in Slot : y = <<<<b, j>>, d>>
      BY <1>1, <1>5
    <2> DEFINE f == <<b, j>>
    <2>2. f \in FilePlace
      BY <1>4, <2>1 DEF FilePlace
    <2>3. InDir(s, d, f)
      BY <1>3, <2>1 DEF InDir
    <2> QED BY <2>1, <2>2, <2>3
  <1>6. ASSUME NEW f \in FilePlace, y = <<f, d>>, InDir(s, d, f) PROVE y \in Files(s, d)
    <2>1. f[1] \in bs \ {0} /\ f[2] \in Slot /\ f = <<f[1], f[2]>>
      BY <1>3, <1>6 DEF InDir, FilePlace
    <2>2. y = <<<<f[1], f[2]>>, d>>
      BY <1>6, <2>1
    <2> QED BY <1>1, <2>1, <2>2
  <1> QED BY <1>5, <1>6

\* The directories are the Files of that type.
LEMMA DirsIs ==
  ASSUME NEW s \in Saved
  PROVE  /\ \A d \in Dirs(s) : d \in FilePlace
         /\ Sound(s) => \A d \in FilePlace : d \in Dirs(s) <=> Type(s, d) = "dir"
  <1>1. \A x : x \in Files(s, Root) <=> \E f \in FilePlace : x = <<f, Root>> /\ InDir(s, Root, f)
    BY FilesIs, RootPlace
  <1>2. \A d : d \in Dirs(s) <=> d = Root \/ \E x \in Files(s, Root) : Type(s, x[1]) = "dir" /\ d = x[1]
    <2> DEFINE F == Files(s, Root)
               G == {q \in F : File(s, q[1]).type = "dir"}
    <2>1. Dirs(s) = {Root} \union {p[1] : p \in G}
      BY DEF Dirs, Subdirs
    <2>2. \A x : x \in G <=> x \in F /\ Type(s, x[1]) = "dir"
      BY DEF Type
    <2> HIDE DEF F, G
    <2>3. \A d : d \in Dirs(s) <=> d = Root \/ \E x \in G : d = x[1]
      BY <2>1, Zenon
    <2> QED BY <2>2, <2>3, Zenon DEF F
  <1>3. \A d : d \in Dirs(s) <=> d = Root \/ (d \in FilePlace /\ InDir(s, Root, d) /\ Type(s, d) = "dir")
    <2> TAKE d
    <2>1. ASSUME NEW x \in Files(s, Root), d = x[1]
          PROVE  d \in FilePlace /\ InDir(s, Root, d)
      <3>1. PICK f \in FilePlace : x = <<f, Root>> /\ InDir(s, Root, f)
        BY <1>1
      <3>2. d = f
        BY <2>1, <3>1
      <3> QED BY <3>1, <3>2
    <2>2. ASSUME d \in FilePlace, InDir(s, Root, d)
          PROVE  \E x \in Files(s, Root) : d = x[1]
      <3>1. <<d, Root>> \in Files(s, Root) /\ <<d, Root>>[1] = d
        BY <1>1, <2>2
      <3> QED BY <3>1
    <2> QED BY <1>2, <2>1, <2>2
  <1> QED BY <1>3, RootPlace DEF Sound, DirsInRoot

LEMMA AllFilesIs ==
  ASSUME NEW s \in Saved
  PROVE  /\ \A x \in AllFiles(s) :
              /\ x[1] \in FilePlace /\ x[2] \in FilePlace /\ x = <<x[1], x[2]>>
              /\ x[2] \in Dirs(s) /\ InDir(s, x[2], x[1])
         /\ \A d \in Dirs(s) : \A f \in FilePlace : InDir(s, d, f) => <<f, d>> \in AllFiles(s)
  <1>1. \A x : x \in AllFiles(s) <=> \E d \in Dirs(s) : x \in Files(s, d)
    BY DEF AllFiles
  <1>2. \A d \in Dirs(s) : d \in FilePlace
    BY DirsIs
  <1>3. \A x : x \in AllFiles(s) <=> \E d \in Dirs(s) : \E f \in FilePlace : x = <<f, d>> /\ InDir(s, d, f)
    BY <1>1, <1>2, FilesIs
  <1>4. ASSUME NEW x \in AllFiles(s)
        PROVE  /\ x[1] \in FilePlace /\ x[2] \in FilePlace /\ x = <<x[1], x[2]>>
               /\ x[2] \in Dirs(s) /\ InDir(s, x[2], x[1])
    <2>1. PICK d \in Dirs(s), f \in FilePlace : x = <<f, d>> /\ InDir(s, d, f)
      BY <1>3, <1>4
    <2>2. x[1] = f /\ x[2] = d
      BY <2>1
    <2> QED BY <1>2, <2>1, <2>2
  <1>5. \A d \in Dirs(s) : \A f \in FilePlace : InDir(s, d, f) => <<f, d>> \in AllFiles(s)
    BY <1>3
  <1> QED BY <1>4, <1>5

\* The pointer at p belongs to f.
Owned(s, f, p) == p = Ind(f) \/ Data(s, f, p)

LEMMA PointersIs ==
  ASSUME NEW s \in Saved, NEW f \in FilePlace
  PROVE  \A q : q \in Pointers(s, f) <=>
           \E p \in Place : Owned(s, f, p) /\ Ptr(s, p) # 0 /\ q = <<p, Ptr(s, p)>>
  <1> DEFINE x == File(s, f)
             d == {<<<<f[1], f[2], i>>, x.direct[i]>> : i \in 0..NDIRECT - 1}
             n == {<<<<f[1], f[2], -1>>, x.indirect>>}
             e == IF x.indirect = 0 THEN {}
                  ELSE {<<<<x.indirect, -1, i>>, s.blk[x.indirect].ptr[i]>> : i \in NDIRECT..NINDIRECT - 1}
  <1>1. Pointers(s, f) = {q \in d \union n \union e : q[2] # 0}
    BY DEF Pointers
  <1>2. /\ x.indirect = Ptr(s, Ind(f)) /\ x.indirect \in Block /\ Ind(f) \in Place
        /\ \A i \in 0..NDIRECT - 1 : x.direct[i] = Ptr(s, <<f[1], f[2], i>>)
        /\ \A b \in Block : \A i \in NDIRECT..NINDIRECT - 1 : Ptr(s, <<b, -1, i>>) = s.blk[b].ptr[i]
    BY PtrIs, IndPlace
  <1> HIDE DEF x
  <1>3. \A q \in d \union n \union e : \E p \in Place : Owned(s, f, p) /\ q = <<p, Ptr(s, p)>>
    <2> TAKE q \in d \union n \union e
    <2>1. CASE q \in d
      <3>1. PICK i \in 0..NDIRECT - 1 : q = <<<<f[1], f[2], i>>, x.direct[i]>>
        BY <2>1
      <3> DEFINE p == <<f[1], f[2], i>>
      <3>2. p \in Place
        BY PlaceOf, FsSizes
      <3>3. Data(s, f, p) /\ q = <<p, Ptr(s, p)>>
        BY <1>2, <3>1, <3>2 DEF Data
      <3> QED BY <3>2, <3>3 DEF Owned
    <2>2. CASE q \in n
      <3>1. q = <<Ind(f), Ptr(s, Ind(f))>>
        BY <1>2, <2>2 DEF Ind
      <3> QED BY <1>2, <3>1 DEF Owned
    <2>3. CASE q \in e
      <3>0. x.indirect # 0
        BY <2>3
      <3>1. PICK i \in NDIRECT..NINDIRECT - 1 : q = <<<<x.indirect, -1, i>>, s.blk[x.indirect].ptr[i]>>
        BY <2>3, <3>0
      <3> DEFINE p == <<x.indirect, -1, i>>
      <3>2. p \in Place /\ i >= 0
        BY <1>2, PlaceOf, FsSizes
      <3>3. Data(s, f, p) /\ q = <<p, Ptr(s, p)>>
        BY <1>2, <3>0, <3>1, <3>2 DEF Data
      <3> QED BY <3>2, <3>3 DEF Owned
    <2> QED BY <2>1, <2>2, <2>3
  <1>4. ASSUME NEW p \in Place, Owned(s, f, p)
        PROVE  <<p, Ptr(s, p)>> \in d \union n \union e
    <2>0. p = <<p[1], p[2], p[3]>>
      BY PlaceIs
    <2>1. CASE p = Ind(f)
      <3>1. <<p, Ptr(s, p)>> \in n
        BY <1>2, <2>1 DEF Ind
      <3> QED BY <3>1
    <2>2. CASE Data(s, f, p) /\ p[1] = f[1] /\ p[2] = f[2]
      <3>1. p[3] \in 0..NDIRECT - 1
        BY <2>2, PlaceIs, FileIs DEF Slot, Data
      <3>2. p = <<f[1], f[2], p[3]>> /\ Ptr(s, p) = x.direct[p[3]]
        BY <1>2, <2>0, <2>2, <3>1
      <3>3. <<p, Ptr(s, p)>> \in d
        BY <3>1, <3>2
      <3> QED BY <3>3
    <2>3. CASE Data(s, f, p) /\ p[2] = -1 /\ p[1] = Ptr(s, Ind(f)) /\ p[1] # 0
      <3>1. p[3] \in NDIRECT..NINDIRECT - 1
        BY <2>3, PlaceIs DEF Slot
      <3>2. p = <<x.indirect, -1, p[3]>> /\ Ptr(s, p) = s.blk[x.indirect].ptr[p[3]] /\ x.indirect # 0
        BY <1>2, <2>0, <2>3, <3>1
      <3>3. <<p, Ptr(s, p)>> \in e
        BY <3>1, <3>2
      <3> QED BY <3>3
    <2> QED BY <1>4, <2>1, <2>2, <2>3 DEF Owned, Data
  <1> HIDE DEF d, n, e
  <1> TAKE q
  <1>5. ASSUME q \in Pointers(s, f)
        PROVE  \E p \in Place : Owned(s, f, p) /\ Ptr(s, p) # 0 /\ q = <<p, Ptr(s, p)>>
    <2>1. q \in d \union n \union e /\ q[2] # 0
      BY <1>1, <1>5
    <2>2. PICK p \in Place : Owned(s, f, p) /\ q = <<p, Ptr(s, p)>>
      BY <1>3, <2>1
    <2> QED BY <2>1, <2>2
  <1>6. ASSUME NEW p \in Place, Owned(s, f, p), Ptr(s, p) # 0, q = <<p, Ptr(s, p)>>
        PROVE  q \in Pointers(s, f)
    <2>1. q \in d \union n \union e /\ q[2] # 0
      BY <1>4, <1>6
    <2> QED BY <1>1, <2>1
  <1> QED BY <1>5, <1>6

\* In a sound file system every pointer is one of a file that can be reached.
LEMMA AllPointersIs ==
  ASSUME NEW s \in Saved, Sound(s)
  PROVE  \A q : q \in AllPointers(s) <=> \E p \in Place : Ptr(s, p) # 0 /\ q = <<p, Ptr(s, p)>>
  <1> DEFINE F == {Root} \union {p[1] : p \in AllFiles(s)}
  <1>1. \A q : q \in AllPointers(s) <=> \E f \in F : q \in Pointers(s, f)
    BY DEF AllPointers
  <1>2. /\ \A f : f \in F <=> f = Root \/ \E x \in AllFiles(s) : f = x[1]
        /\ \A f \in F : f \in FilePlace
    <2>1. \A x \in AllFiles(s) : x[1] \in FilePlace
      BY AllFilesIs
    <2> QED BY <2>1, RootPlace
  <1> HIDE DEF F
  <1>3. ASSUME NEW p \in Place, Ptr(s, p) # 0 PROVE \E f \in F : Owned(s, f, p)
    <2>1. PICK f \in FilePlace : Owned(s, f, p) /\ Name(s, f) # NoName
      <3>0. p = <<p[1], p[2], p[3]>>
        BY PlaceIs
      <3>1. CASE p[2] = -1
        <4>1. PICK f \in FilePlace : Ptr(s, Ind(f)) = p[1] /\ p[1] # 0
          BY <1>3, <3>1 DEF Sound, PointersInIndirect
        <4>2. p[3] >= 0
          BY <3>1, PlaceIs, FsSizes DEF Slot
        <4>3. Data(s, f, p)
          BY <3>1, <4>1, <4>2 DEF Data
        <4>4. -1 \in -1..NDIRECT - 1
          BY FsSizes
        <4>5. Name(s, f) # NoName
          BY <4>1, <4>4 DEF Sound, UnnamedEmpty, Ind
        <4> QED BY <4>3, <4>5 DEF Owned
      <3>2. CASE p[2] # -1
        <4> DEFINE f == <<p[1], p[2]>>
        <4>1. f \in FilePlace /\ p[3] \in -1..NDIRECT - 1
          BY <3>2, PlaceIs DEF FilePlace
        <4>2. p = <<f[1], f[2], p[3]>>
          BY <3>0
        <4> HIDE DEF f
        <4>3. Name(s, f) # NoName
          BY <1>3, <4>1, <4>2 DEF Sound, UnnamedEmpty
        <4>4. CASE p[3] = -1
          BY <4>1, <4>2, <4>3, <4>4 DEF Owned, Ind
        <4>5. CASE p[3] # -1
          <5>1. p[3] >= 0
            BY <4>1, <4>5
          <5>2. p[1] = f[1] /\ p[2] = f[2]
            BY <4>2
          <5>3. Data(s, f, p)
            BY <5>1, <5>2 DEF Data
          <5> QED BY <4>1, <4>3, <5>3 DEF Owned
        <4> QED BY <4>4, <4>5
      <3> QED BY <3>1, <3>2
    <2>2. CASE f = Root
      BY <1>2, <2>1, <2>2
    <2>3. CASE f # Root
      <3>1. PICK d \in FilePlace : Type(s, d) = "dir" /\ InDir(s, d, f)
        BY <2>1, <2>3 DEF Sound, NamedInDir
      <3>2. d \in Dirs(s)
        BY <3>1, DirsIs
      <3>3. <<f, d>> \in AllFiles(s) /\ <<f, d>>[1] = f
        BY <3>1, <3>2, AllFilesIs
      <3> QED BY <1>2, <2>1, <3>3
    <2> QED BY <2>2, <2>3
  <1> TAKE q
  <1>4. ASSUME q \in AllPointers(s) PROVE \E p \in Place : Ptr(s, p) # 0 /\ q = <<p, Ptr(s, p)>>
    <2>1. PICK f \in F : q \in Pointers(s, f)
      BY <1>1, <1>4
    <2> QED BY <1>2, <2>1, PointersIs
  <1>5. ASSUME NEW p \in Place, Ptr(s, p) # 0, q = <<p, Ptr(s, p)>> PROVE q \in AllPointers(s)
    <2>1. PICK f \in F : Owned(s, f, p)
      BY <1>3, <1>5
    <2>2. q \in Pointers(s, f)
      BY <1>2, <1>5, <2>1, PointersIs
    <2> QED BY <1>1, <2>2
  <1> QED BY <1>4, <1>5

-----------------------------------------------------------------------------
(* The requests. *)

\* A client stores into the page of a block.
LEMMA StoreIs ==
  ASSUME NEW s \in Saved, NEW b \in Block
  PROVE  LET t == [s EXCEPT !.blk[b].bytes = TRUE, !.unsaved = @ \union {b}]
         IN  t \in Saved /\ t.free = s.free /\ t.status = s.status /\ SameView(s, t)
  <1> DEFINE c == s.blk[b]
             d == [c EXCEPT !.bytes = TRUE]
             blk == [s.blk EXCEPT ![b] = d]
             t == [s EXCEPT !.blk[b].bytes = TRUE, !.unsaved = @ \union {b}]
  <1>1. /\ s.blk \in [Block -> Content] /\ c \in Content
        /\ s = Rec(s.free, s.disk_free, s.mapped, s.dirty, s.unsaved, s.blk, s.status)
    BY SavedIs
  <1>2. d \in Content /\ d.files = c.files /\ d.ptr = c.ptr
    <2> HIDE DEF c
    <2> QED BY <1>1 DEF Content
  <1> HIDE DEF d
  <1>3. /\ blk \in [Block -> Content]
        /\ \A x \in Block : blk[x].files = s.blk[x].files /\ blk[x].ptr = s.blk[x].ptr
    BY <1>1, <1>2
  <1>4. t = [s EXCEPT !.blk = blk, !.unsaved = s.unsaved \union {b}]
    BY DEF d
  <1> HIDE DEF blk, t
  <1>5. t = Rec(s.free, s.disk_free, s.mapped, s.dirty, s.unsaved \union {b}, blk, s.status)
    <2> DEFINE u == s.unsaved \union {b}
               v == [s EXCEPT !.blk = blk]
    <2>1. v = Rec(s.free, s.disk_free, s.mapped, s.dirty, s.unsaved, blk, s.status)
      BY <1>1 DEF Rec
    <2>2. t = [v EXCEPT !.unsaved = u]
      BY <1>4
    <2> HIDE DEF u, v
    <2>3. t = Rec(s.free, s.disk_free, s.mapped, s.dirty, u, blk, s.status)
      BY <2>1, <2>2 DEF Rec
    <2> QED BY <2>3 DEF u
  <1>6. t \in Saved
    BY <1>3, <1>5, SavedIs, IsSaved
  <1>7. t.free = s.free /\ t.status = s.status /\ t.blk = blk
    BY <1>5 DEF Rec
  <1>8. ASSUME NEW x \in Block PROVE t.blk[x].files = s.blk[x].files /\ t.blk[x].ptr = s.blk[x].ptr
    BY <1>3, <1>7
  <1>9. \A f \in FilePlace : File(t, f) = File(s, f)
    BY <1>8 DEF File, FilePlace
  <1>10. ASSUME NEW p \in Place PROVE Ptr(t, p) = Ptr(s, p)
    <2>1. p[1] \in Block
      BY PlaceIs
    <2>2. t.blk[p[1]].files = s.blk[p[1]].files /\ t.blk[p[1]].ptr = s.blk[p[1]].ptr
      BY <1>8, <2>1
    <2> QED BY <2>2 DEF Ptr, File
  <1> QED BY <1>6, <1>7, <1>9, <1>10 DEF SameView, Name, Type, Size, t

LEMMA OpenedIs ==
  ASSUME fs \in Saved, NEW p \in Opened
  PROVE  p[1] \in FilePlace /\ p[2] \in FilePlace /\ Name(fs, p[1]) # NoName /\ Type(fs, p[1]) = "reg"
  BY AllFilesIs DEF Opened, Name, Type

\* The inductive invariant.
FsInv == fs \in Saved /\ Bounded(fs) /\ (Alive => Sound(fs))

\* A request changes the file it names, and directories.
LEMMA OpenSafe ==
  ASSUME FsInv, Alive, NEW path \in Paths, NEW creat \in BOOLEAN, NEW trunc \in BOOLEAN,
         serve_open(path, creat, trunc)
  PROVE  Safe(fs, fs', open_file(fs, path, creat, FALSE).f)
  <1> DEFINE o == open_file(fs, path, creat, FALSE)
  <1>1. path \in Seq(Names) /\ fs \in Saved
    BY PathShape DEF FsInv
  <1>2. trunc /\ o.v = 0 => Type(o.s, o.f) = "reg"
    BY DEF serve_open, Type
  <1>3. fs' = open_file(fs, path, creat, trunc).s
    BY DEF serve_open
  <1>4. Safe(fs, open_file(fs, path, creat, trunc).s, open_file(fs, path, creat, FALSE).f)
    BY <1>1, <1>2, OpenIs
  <1> QED BY <1>3, <1>4

LEMMA RemoveSafe ==
  ASSUME FsInv, Alive, NEW path \in Paths, serve_remove(path)
  PROVE  Safe(fs, fs', walk_path(fs, path).f)
  <1>1. path \in Seq(Names) /\ fs \in Saved
    BY PathShape DEF FsInv
  <1>2. walk_path(fs, path).v = 0 => Type(walk_path(fs, path).s, walk_path(fs, path).f) = "reg"
    BY DEF serve_remove, Type
  <1>3. fs' = file_remove(fs, path).s
    BY DEF serve_remove
  <1>4. Safe(fs, file_remove(fs, path).s, walk_path(fs, path).f)
    BY <1>1, <1>2, RemoveIs
  <1> QED BY <1>3, <1>4

LEMMA SetSizeSafe ==
  ASSUME FsInv, Alive, NEW p \in Opened, NEW n \in 0..MaxSize, serve_set_size(p[1], p[2], n)
  PROVE  Safe(fs, fs', p[1])
  <1>1. p[1] \in FilePlace /\ p[2] \in FilePlace /\ Name(fs, p[1]) # NoName /\ Type(fs, p[1]) = "reg"
    BY OpenedIs DEF FsInv
  <1>2. n \in Nat /\ n <= NINDIRECT + 1
    BY RequestSizes, FsSizes
  <1>3. fs' = file_set_size(fs, p[1], n, p[2])
    BY DEF serve_set_size
  <1>4. Typed(fs, fs') /\ Serves(fs, fs', p[1], n)
    BY <1>1, <1>2, <1>3, SetSizeIs DEF FsInv
  <1> QED BY <1>1, <1>4 DEF Safe, Serves

LEMMA MapSafe ==
  ASSUME FsInv, Alive, NEW p \in Opened, NEW bno \in 0..MaxSize - 1, serve_map(p[1], bno)
  PROVE  Safe(fs, fs', p[1])
  <1>1. fs \in Saved /\ p[1] \in FilePlace
    BY OpenedIs DEF FsInv
  <1>2. bno \in Nat
    OBVIOUS
  <1>3. fs' = file_get_block(fs, p[1], bno).s /\ bno < Size(fs, p[1])
    BY DEF serve_map, Size
  <1>4. Got(fs, p[1], bno, file_get_block(fs, p[1], bno))
    BY <1>1, <1>2, GetIs
  <1> QED BY <1>3, <1>4 DEF Got, Grown, Safe

\* The requests that change no file.
Quiet ==
  \/ \E p \in Opened : \E bno \in 0..MaxSize - 1 : Store(p[1], bno) \/ serve_dirty(p[1], bno)
  \/ \E p \in Opened : serve_close(p[1], p[2])
  \/ serve_sync

LEMMA QuietSafe ==
  ASSUME FsInv, Alive, Quiet, NEW f
  PROVE  Safe(fs, fs', f)
  <1>0. fs \in Saved /\ Bounded(fs) /\ Sound(fs) /\ fs.status = "ok"
    BY DEF FsInv, Alive
  <1>1. ASSUME NEW p \in Opened, NEW bno \in 0..MaxSize - 1, Store(p[1], bno)
        PROVE  Safe(fs, fs', f)
    <2> DEFINE m == file_map_block(fs, p[1], bno, FALSE)
    <2>1. p[1] \in FilePlace /\ bno \in Nat
      BY <1>0, OpenedIs
    <2>2. m.v >= 0 => m.v \in Block
      BY <1>0, <2>1, LookUp
    <2>3. m.v \in fs.mapped /\ fs' = [fs EXCEPT !.blk[m.v].bytes = TRUE, !.unsaved = @ \union {m.v}]
      BY <1>1 DEF Store
    <2>4. m.v \in Block
      BY <1>0, <2>3, SavedIs
    <2> HIDE DEF m
    <2>5. fs' \in Saved /\ fs'.free = fs.free /\ fs'.status = fs.status /\ SameView(fs, fs')
      BY <1>0, <2>3, <2>4, StoreIs
    <2>6. Sound(fs') /\ Others(fs, fs', f) /\ (Bounded(fs) => Bounded(fs'))
      BY <1>0, <2>5, SameSound, ViewGrown
    <2> QED BY <1>0, <2>5, <2>6 DEF Safe, Typed
  <1>2. ASSUME Frame(fs, fs') PROVE Safe(fs, fs', f)
    BY <1>0, <1>2, FrameGrown DEF Grown
  <1>3. ASSUME NEW p \in Opened, NEW bno \in 0..MaxSize - 1, serve_dirty(p[1], bno)
        PROVE  Frame(fs, fs')
    <2>1. p[1] \in FilePlace /\ bno \in Nat
      BY <1>0, OpenedIs
    <2> QED BY <1>0, <1>3, <2>1, DirtyIs DEF serve_dirty
  <1>4. ASSUME NEW p \in Opened, serve_close(p[1], p[2])
        PROVE  Frame(fs, fs')
    <2>1. p[1] \in FilePlace /\ p[2] \in FilePlace
      BY <1>0, OpenedIs
    <2> QED BY <1>0, <1>4, <2>1, CloseIs DEF serve_close
  <1>5. ASSUME serve_sync PROVE Frame(fs, fs')
    BY <1>0, <1>5, SyncIs DEF serve_sync
  <1> QED BY <1>1, <1>2, <1>3, <1>4, <1>5 DEF Quiet

LEMMA RequestSafe ==
  ASSUME FsInv, Next, Alive
  PROVE  \E f : Safe(fs, fs', f)
  <1>1. ~Stopped
    BY DEF Stopped
  <1>2. CASE Quiet
    <2>1. Safe(fs, fs', Root)
      BY <1>2, QuietSafe
    <2> QED BY <2>1
  <1>3. CASE \E path \in Paths : \E creat \in BOOLEAN : \E trunc \in BOOLEAN : serve_open(path, creat, trunc)
    BY <1>3, OpenSafe
  <1>4. CASE \E path \in Paths : serve_remove(path)
    BY <1>4, RemoveSafe
  <1>5. CASE \E p \in Opened : \E n \in 0..MaxSize : serve_set_size(p[1], p[2], n)
    BY <1>5, SetSizeSafe
  <1>6. CASE \E p \in Opened : \E bno \in 0..MaxSize - 1 : serve_map(p[1], bno)
    BY <1>6, MapSafe
  <1> QED BY <1>1, <1>2, <1>3, <1>4, <1>5, <1>6 DEF Next, Quiet

LEMMA FsInvStep ==
  ASSUME FsInv, [Next]_fs
  PROVE  FsInv'
  <1>1. CASE Alive /\ Next
    <2>1. PICK f : Safe(fs, fs', f)
      BY <1>1, RequestSafe
    <2> QED BY <1>1, <2>1 DEF FsInv, Safe, Typed, Alive
  <1>2. CASE ~Alive /\ Next
    <2>1. UNCHANGED fs
      BY <1>2 DEF Next, Stopped, serve_open, serve_remove, serve_set_size, serve_map, Store,
                  serve_dirty, serve_close, serve_sync
    <2> QED BY <2>1 DEF FsInv, Alive
  <1>3. CASE UNCHANGED fs
    BY <1>3 DEF FsInv, Alive
  <1> QED BY <1>1, <1>2, <1>3

LEMMA FsInvInit == Init => FsInv
  BY ImagesSound DEF Init, FsInv, Formatted, Saved

LEMMA FsInvAlways == Spec => []FsInv
  BY FsInvInit, FsInvStep, PTL DEF Spec

-----------------------------------------------------------------------------
(* What follows from the invariant. *)

\* Whatever requests are served, also when one fails half way: the state of
\* the file server is one its functions work on, and no file grows past what
\* the pointers of a File can hold.
THEOREM FsTypeCorrect == Spec => []TypeOK
  <1>1. FsInv => TypeOK
    BY DEF FsInv, TypeOK, Saved
  <1> QED BY <1>1, FsInvAlways, PTL

\* The bitmap on the disk never has a block free that is in use, also after
\* a panic (alloc_block_num writes it, free_block does not).
THEOREM FsBitmapOnDisk == Spec => []BitmapOnDisk
  <1>1. FsInv => BitmapOnDisk
    BY DEF FsInv, BitmapOnDisk, Saved, OnDisk
  <1> QED BY <1>1, FsInvAlways, PTL

\* As long as the server runs and reads no page of clients' bytes as Files or
\* pointers: no block belongs to two files, or twice to one (file_map_block,
\* file_clear_block, file_truncate).
THEOREM FsNoSharedBlock == Spec => []NoSharedBlock
  <1>1. FsInv => NoSharedBlock
    <2> SUFFICES ASSUME FsInv, Alive, NEW p \in AllPointers(fs), NEW q \in AllPointers(fs), p[2] = q[2]
                 PROVE  p = q
      BY DEF NoSharedBlock
    <2>1. fs \in Saved /\ Sound(fs)
      BY DEF FsInv
    <2>2. PICK x \in Place : Ptr(fs, x) # 0 /\ p = <<x, Ptr(fs, x)>>
      BY <2>1, AllPointersIs
    <2>3. PICK y \in Place : Ptr(fs, y) # 0 /\ q = <<y, Ptr(fs, y)>>
      BY <2>1, AllPointersIs
    <2>4. x = y
      BY <2>1, <2>2, <2>3 DEF Sound, OnePointer
    <2> QED BY <2>2, <2>3, <2>4
  <1> QED BY <1>1, FsInvAlways, PTL

\* As long as the server runs and reads no page of clients' bytes as Files or
\* pointers, the bitmap is exact: a block is in use when one of
\* the first three or when a file points to it, and free otherwise
\* (alloc_block_num, free_block).
THEOREM FsBitmapExact == Spec => []BitmapExact
  <1>1. FsInv => BitmapExact
    <2> SUFFICES ASSUME FsInv, Alive
                 PROVE  Block \ fs.free = 0..2 \union {p[2] : p \in AllPointers(fs)}
      BY DEF BitmapExact
    <2>1. fs \in Saved /\ Sound(fs)
      BY DEF FsInv
    <2>2. \A b \in Block : b \in fs.free <=> b \notin 0..2 /\ \A p \in Place : Ptr(fs, p) # b
      BY <2>1 DEF Sound, FreeExact
    <2>3. 0..2 \subseteq Block /\ \A p \in Place : Ptr(fs, p) \in Block
      BY <2>1, PtrIs, FsSizes DEF Block
    <2>4. \A b : b # 0 => (b \in {p[2] : p \in AllPointers(fs)} <=> \E p \in Place : Ptr(fs, p) = b)
      <3> DEFINE A == AllPointers(fs)
      <3>1. \A q : q \in A <=> \E p \in Place : Ptr(fs, p) # 0 /\ q = <<p, Ptr(fs, p)>>
        BY <2>1, AllPointersIs
      <3> HIDE DEF A
      <3>2. ASSUME NEW q \in A PROVE \E p \in Place : Ptr(fs, p) = q[2]
        BY <3>1
      <3>3. ASSUME NEW p \in Place, Ptr(fs, p) # 0 PROVE \E q \in A : q[2] = Ptr(fs, p)
        <4>1. <<p, Ptr(fs, p)>> \in A /\ <<p, Ptr(fs, p)>>[2] = Ptr(fs, p)
          BY <3>1, <3>3
        <4> QED BY <4>1
      <3>4. \A b : b \in {p[2] : p \in A} <=> \E q \in A : q[2] = b
        BY Zenon
      <3> QED BY <3>2, <3>3, <3>4 DEF A
    <2>5. 0 \in 0..2
      OBVIOUS
    <2>6. \A b \in {p[2] : p \in AllPointers(fs)} : b \in Block
      BY <2>3, <2>4, <2>5
    <2> DEFINE B == {p[2] : p \in AllPointers(fs)}
    <2> HIDE DEF B
    <2>7. \A b \in Block : b \notin fs.free <=> b \in 0..2 \/ b \in B
      BY <2>2, <2>4, <2>5 DEF B
    <2>8. \A b \in 0..2 \union B : b \in Block
      BY <2>3, <2>6 DEF B
    <2>9. Block \ fs.free = 0..2 \union B
      BY <2>7, <2>8
    <2> QED BY <2>9 DEF B
  <1> QED BY <1>1, FsInvAlways, PTL

\* As long as no page of clients' bytes is used as a directory block: a File
\* without a name is empty, and no directory has two Files of one name
\* (dir_lookup, dir_alloc_file, file_remove).
THEOREM FsDirectoriesSound == Spec => []DirectoriesSound
  <1>1. FsInv => DirectoriesSound
    <2> SUFFICES ASSUME FsInv, Alive, NEW p \in AllFiles(fs)
                 PROVE  IF File(fs, p[1]).name = NoName THEN File(fs, p[1]) = NoFile
                        ELSE \A q \in AllFiles(fs) :
                               p[2] = q[2] /\ File(fs, q[1]).name = File(fs, p[1]).name => p = q
      BY DEF DirectoriesSound
    <2>1. fs \in Saved /\ Sound(fs)
      BY DEF FsInv
    <2>2. \A x \in AllFiles(fs) :
            /\ x[1] \in FilePlace /\ x[2] \in FilePlace /\ x = <<x[1], x[2]>>
            /\ Type(fs, x[2]) = "dir" /\ InDir(fs, x[2], x[1])
      BY <2>1, AllFilesIs, DirsIs
    <2>3. ASSUME Name(fs, p[1]) = NoName PROVE File(fs, p[1]) = NoFile
      <3> DEFINE f == p[1]
                 x == File(fs, f)
      <3>0. f \in FilePlace /\ Name(fs, f) = NoName
        BY <2>2, <2>3
      <3> HIDE DEF f
      <3>1. /\ Type(fs, f) = "reg" /\ Size(fs, f) = 0
            /\ \A i \in -1..NDIRECT - 1 : Ptr(fs, <<f[1], f[2], i>>) = 0
        BY <2>1, <3>0 DEF Sound, UnnamedEmpty
      <3>2. x \in FileType
        BY <2>1, <3>0, FileIs
      <3>3. x.name = NoName /\ x.type = "reg" /\ x.size = 0
        BY <3>0, <3>1 DEF Name, Type, Size
      <3>4. x.indirect = 0
        <4>1. -1 \in -1..NDIRECT - 1
          BY FsSizes
        <4>2. Ptr(fs, Ind(f)) = 0
          BY <3>1, <4>1 DEF Ind
        <4> QED BY <2>1, <3>0, <4>2, PtrIs
      <3>5. \A i \in 0..NDIRECT - 1 : x.direct[i] = 0
        <4>1. \A i \in 0..NDIRECT - 1 : i \in -1..NDIRECT - 1
          OBVIOUS
        <4> QED BY <2>1, <3>0, <3>1, <4>1, PtrIs
      <3> HIDE DEF x
      <3>6. x.direct = [i \in 0..NDIRECT - 1 |-> 0]
        BY <3>2, <3>5 DEF FileType
      <3>7. x = NoFile
        BY <3>2, <3>3, <3>4, <3>6 DEF FileType, NoFile
      <3> QED BY <3>7 DEF x, f
    <2>4. ASSUME NEW q \in AllFiles(fs), p[2] = q[2], Name(fs, q[1]) = Name(fs, p[1]),
                 Name(fs, p[1]) # NoName
          PROVE  p = q
      <3>1. p[1] = q[1]
        BY <2>1, <2>2, <2>4 DEF Sound, NamesDiffer
      <3> QED BY <2>2, <2>4, <3>1
    <2> QED BY <2>3, <2>4 DEF Name
  <1> QED BY <1>1, FsInvAlways, PTL

\* A File that a request leaves alone keeps its shape.
LEMMA SameShape ==
  ASSUME NEW s \in Saved, NEW t \in Saved, NEW f, NEW g \in FilePlace,
         Others(s, t, f), Type(s, g) = "reg", g # f
  PROVE  Shape(s, g) = Shape(t, g)
  <1>1. /\ Size(t, g) = Size(s, g) /\ Ptr(t, Ind(g)) = Ptr(s, Ind(g))
        /\ \A p \in Place : Data(s, g, p) => Ptr(t, p) = Ptr(s, p)
    BY DEF Others
  <1>2. \A p : Data(s, g, p) <=> Data(t, g, p)
    BY <1>1 DEF Data
  <1>3. \A p \in Place : /\ Owned(s, g, p) <=> Owned(t, g, p)
                         /\ Owned(s, g, p) => Ptr(t, p) = Ptr(s, p)
    BY <1>1, <1>2 DEF Owned
  <1>4. \A q : q \in Pointers(s, g) <=> q \in Pointers(t, g)
    <2>1. \A q : q \in Pointers(s, g) <=>
            \E p \in Place : Owned(s, g, p) /\ Ptr(s, p) # 0 /\ q = <<p, Ptr(s, p)>>
      BY PointersIs
    <2>2. \A q : q \in Pointers(t, g) <=>
            \E p \in Place : Owned(t, g, p) /\ Ptr(t, p) # 0 /\ q = <<p, Ptr(t, p)>>
      BY PointersIs
    <2> QED BY <1>3, <2>1, <2>2
  <1>5. Pointers(s, g) = Pointers(t, g)
    <2> DEFINE A == Pointers(s, g)
               B == Pointers(t, g)
    <2>1. \A q : q \in A <=> q \in B
      BY <1>4
    <2>2. \A q \in A : q \in B
      BY <2>1
    <2>3. A = {q \in B : q[2] # 0} /\ B = {q \in B : q[2] # 0}
      BY <2>1 DEF Pointers
    <2> QED BY <2>3
  <1> QED BY <1>1, <1>5 DEF Shape, Size

\* The files that change are among those the step is for.
LEMMA TouchedIs ==
  ASSUME FsInv, FsInv', fs'.status = "ok", Touched # {}, NEW f, Safe(fs, fs', f)
  PROVE  Touched = {f}
  <1>1. fs \in Saved /\ fs' \in Saved /\ Sound(fs)
    BY DEF FsInv, Alive, Safe, Typed
  <1>2. Others(fs, fs', f)
    BY <1>1 DEF Safe
  <1>3. ASSUME NEW g \in Touched PROVE g = f
    <2>1. PICK p \in Opened : g = p[1] /\ Shape(fs, p[1]) # Shape(fs', p[1])
      BY DEF Touched
    <2>2. g \in FilePlace /\ Type(fs, g) = "reg"
      BY <1>1, <2>1, OpenedIs
    <2> QED BY <1>1, <1>2, <2>1, <2>2, SameShape
  <1> HIDE DEF Touched
  <1> QED BY <1>3

\* A request changes the size and the blocks of the file it names and of no
\* other one that is not a directory (serve_open, serve_remove,
\* serve_set_size, serve_map); the other requests change none.
THEOREM FsIsolated == Spec => Isolated
  <1> DEFINE A == /\ \A path \in Paths : \A creat \in BOOLEAN : \A trunc \in BOOLEAN :
                       serve_open(path, creat, trunc) => Touched = {open_file(fs, path, creat, FALSE).f}
                  /\ \A path \in Paths : serve_remove(path) => Touched = {walk_path(fs, path).f}
                  /\ \A p \in Opened : \A n \in 0..MaxSize : serve_set_size(p[1], p[2], n) => Touched = {p[1]}
                  /\ \A p \in Opened : \A bno \in 0..MaxSize - 1 :
                       /\ serve_map(p[1], bno) => Touched = {p[1]}
                       /\ ~serve_dirty(p[1], bno) /\ ~Store(p[1], bno)
                  /\ \A p \in Opened : ~serve_close(p[1], p[2])
                  /\ ~serve_sync
  <1>1. ASSUME FsInv, [Next]_fs, fs'.status = "ok", Touched # {} PROVE A
    <2>1. FsInv'
      BY <1>1, FsInvStep
    <2>2. \A f : Safe(fs, fs', f) => Touched = {f}
      BY <1>1, <2>1, TouchedIs
    <2> HIDE DEF Touched
    <2>3. ASSUME NEW path \in Paths, NEW creat \in BOOLEAN, NEW trunc \in BOOLEAN,
                 serve_open(path, creat, trunc)
          PROVE  Touched = {open_file(fs, path, creat, FALSE).f}
      <3>1. Alive
        BY <2>3 DEF serve_open
      <3>2. Safe(fs, fs', open_file(fs, path, creat, FALSE).f)
        BY <1>1, <2>3, <3>1, OpenSafe
      <3> QED BY <2>2, <3>2
    <2>4. ASSUME NEW path \in Paths, serve_remove(path) PROVE Touched = {walk_path(fs, path).f}
      <3>1. Alive
        BY <2>4 DEF serve_remove
      <3>2. Safe(fs, fs', walk_path(fs, path).f)
        BY <1>1, <2>4, <3>1, RemoveSafe
      <3> QED BY <2>2, <3>2
    <2>5. ASSUME NEW p \in Opened, NEW n \in 0..MaxSize, serve_set_size(p[1], p[2], n)
          PROVE  Touched = {p[1]}
      <3>1. Alive
        BY <2>5 DEF serve_set_size
      <3>2. Safe(fs, fs', p[1])
        BY <1>1, <2>5, <3>1, SetSizeSafe
      <3> QED BY <2>2, <3>2
    <2>6. ASSUME NEW p \in Opened, NEW bno \in 0..MaxSize - 1, serve_map(p[1], bno)
          PROVE  Touched = {p[1]}
      <3>1. Alive
        BY <2>6 DEF serve_map
      <3>2. Safe(fs, fs', p[1])
        BY <1>1, <2>6, <3>1, MapSafe
      <3> QED BY <2>2, <3>2
    <2>7. ~Quiet
      <3> SUFFICES ASSUME Quiet PROVE FALSE
        OBVIOUS
      <3>1. Alive
        BY DEF Quiet, Store, serve_dirty, serve_close, serve_sync
      <3>2. Safe(fs, fs', Root) /\ Safe(fs, fs', NIL)
        BY <1>1, <3>1, QuietSafe
      <3>3. Touched = {Root} /\ Touched = {NIL}
        BY <2>2, <3>2
      <3>4. Root = NIL
        BY <3>3
      <3>5. Root[1] = 1 /\ NIL[1] = 0
        BY DEF Root, NIL, SUPER
      <3> QED BY <3>4, <3>5
    <2> QED BY <2>3, <2>4, <2>5, <2>6, <2>7 DEF Quiet
  <1>2. FsInv /\ [Next]_fs => [fs'.status = "ok" /\ Touched # {} => A]_fs
    <2> HIDE DEF A
    <2> QED BY <1>1
  <1> QED BY <1>2, FsInvAlways, PTL DEF Spec, Isolated

=============================================================================
