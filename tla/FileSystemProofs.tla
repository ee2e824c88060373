-------------------------- MODULE FileSystemProofs --------------------------
(***************************************************************************)
(* What the functions of fs/fs.c do to a file system, whatever the number  *)
(* of blocks, pointers of a File and Files of a block: each keeps the      *)
(* state one the functions work on (Typed) and, when it does not end in an *)
(* error of the server, keeps it sound and leaves alone all files but the  *)
(* one it is for (Safe), at every early return.                            *)
(*                                                                         *)
(* The argument.  Four changes are made to a sound file system: a free     *)
(* block is linked to a place that holds none (LinkSound), the block of a  *)
(* place is freed and its pointer cleared (UnlinkSound), a size is written *)
(* (ResizeSound) and a name (RenameSound).  The lemmas about the functions *)
(* follow their calls: they show which of these changes a function makes,  *)
(* on which states, and what an error return has left behind.  Loops are   *)
(* folds: FoldExists shows that the recursion a fold stands for has a      *)
(* solution, so that the state after each round can be named.              *)
(***************************************************************************)
EXTENDS FsLayout, WellFoundedInduction, TLAPS

Saved == {s \in State : OnDisk(s)}

LEMMA LeastOf ==
  ASSUME NEW S \in SUBSET Nat, S # {}
  PROVE  \E m \in S : \A k \in S : m <= k
  <1>1. IsWellFoundedOn(OpToRel(<, Nat), Nat)
    BY NatLessThanWellFounded
  <1>2. PICK m \in S : \A k \in S : <<k, m>> \notin OpToRel(<, Nat)
    BY <1>1, WFMin
  <1>3. \A k \in S : ~(k < m)
    BY <1>2 DEF OpToRel
  <1> QED BY <1>3

LEMMA UpTo ==
  ASSUME NEW n \in Nat, NEW S, 0 \in S, \A k \in 0..n - 1 : k \in S => k + 1 \in S
  PROVE  0..n \subseteq S
  <1> DEFINE Out == {k \in 0..n : k \notin S}
  <1>1. ASSUME Out # {} PROVE FALSE
    <2>0. Out \in SUBSET Nat
      OBVIOUS
    <2>1. PICK m \in Out : \A k \in Out : m <= k
      <3> HIDE DEF Out
      <3> QED BY <1>1, <2>0, LeastOf
    <2>2. m \in 0..n /\ m \notin S /\ m # 0
      BY <2>1
    <2>3. m - 1 \in 0..n - 1 /\ m - 1 \notin Out
      BY <2>1, <2>2
    <2>4. m - 1 \in S
      BY <2>3
    <2>5. (m - 1) + 1 \in S
      BY <2>3, <2>4
    <2> QED BY <2>2, <2>5
  <1> QED BY <1>1

LEMMA MaxTo ==
  ASSUME NEW k \in Nat, k > 0
  PROVE  Max(1..k) = k /\ (1..k) \ {k} = 1..k - 1
  <1>1. k \in 1..k /\ \A y \in 1..k : k >= y
    OBVIOUS
  <1>2. \A x \in 1..k : (\A y \in 1..k : x >= y) => x = k
    OBVIOUS
  <1>3. Max(1..k) = k
    BY <1>1, <1>2 DEF Max
  <1> QED BY <1>3

\* A non-empty set of numbers up to n has a largest element.
LEMMA MaxIn ==
  ASSUME NEW n \in Nat, NEW S \in SUBSET (1..n), S # {}
  PROVE  Max(S) \in S /\ \A y \in S : Max(S) >= y
  <1> DEFINE R == {k \in Nat : \A y \in S : k >= y}
  <1>1. n \in R
    OBVIOUS
  <1>2. PICK m \in R : \A k \in R : m <= k
    <2>1. R \in SUBSET Nat
      OBVIOUS
    <2> HIDE DEF R
    <2> QED BY <1>1, <2>1, LeastOf
  <1>3. m \in S
    <2> SUFFICES ASSUME m \notin S PROVE FALSE
      OBVIOUS
    <2>1. \A y \in S : m - 1 >= y
      BY <1>2
    <2>2. PICK y \in S : TRUE
      OBVIOUS
    <2>3. y \in 1..n /\ m \in Nat /\ m - 1 >= y
      BY <1>2, <2>1
    <2>4. m - 1 \in Nat
      BY <2>3
    <2> QED BY <1>2, <2>1, <2>4
  <1>4. \E x \in S : \A y \in S : x >= y
    BY <1>2, <1>3
  <1> QED BY <1>4 DEF Max

\* it computes, for a set of numbers up to m, what g makes of base with one
\* of them after the other.
FoldBy(m, T, base, g, it) ==
  /\ it \in [SUBSET (1..m) -> T]
  /\ \A S \in SUBSET (1..m) :
       it[S] = IF S = {} THEN base ELSE g[<<it[S \ {Max(S)}], Max(S)>>]

LEMMA FoldExists ==
  ASSUME NEW n \in Nat, NEW T, NEW base \in T, NEW g \in [T \X (1..n) -> T]
  PROVE  \E it : FoldBy(n, T, base, g, it)
  <1> DEFINE Fold(m, it) == FoldBy(m, T, base, g, it)
             Has == {m \in Nat : \E it : Fold(m, it)}
  <1> USE DEF FoldBy
  <1>1. 0 \in Has
    <2> DEFINE it == [S \in SUBSET (1..0) |-> base]
    <2>1. \A S \in SUBSET (1..0) : S = {}
      OBVIOUS
    <2>2. Fold(0, it)
      BY <2>1
    <2> QED BY <2>2
  <1>2. ASSUME NEW m \in 0..n - 1, m \in Has PROVE m + 1 \in Has
    <2>1. PICK it : Fold(m, it)
      BY <1>2
    <2> DEFINE jt == [S \in SUBSET (1..m + 1) |->
                        IF m + 1 \in S THEN g[<<it[S \ {m + 1}], m + 1>>] ELSE it[S]]
    <2>2. ASSUME NEW S \in SUBSET (1..m + 1), m + 1 \notin S PROVE S \in SUBSET (1..m)
      <3>1. \A y \in S : y \in 1..m + 1 /\ y # m + 1
        BY <2>2
      <3>2. \A y \in S : y \in 1..m
        BY <3>1
      <3> QED BY <3>2
    <2>3. ASSUME NEW S \in SUBSET (1..m + 1) PROVE S \ {m + 1} \in SUBSET (1..m)
      <3>1. \A y \in S \ {m + 1} : y \in 1..m + 1 /\ y # m + 1
        OBVIOUS
      <3>2. \A y \in S \ {m + 1} : y \in 1..m
        BY <3>1
      <3> QED BY <3>2
    <2>4. m + 1 \in 1..n
      OBVIOUS
    <2>5. jt \in [SUBSET (1..m + 1) -> T]
      BY <2>1, <2>2, <2>3, <2>4
    <2>6. ASSUME NEW S \in SUBSET (1..m + 1)
          PROVE  jt[S] = IF S = {} THEN base ELSE g[<<jt[S \ {Max(S)}], Max(S)>>]
      <3>1. CASE m + 1 \in S
        <4>0. m + 1 \in Nat /\ S # {}
          BY <3>1
        <4>1. Max(S) \in S /\ \A y \in S : Max(S) >= y
          BY <4>0, MaxIn
        <4>2. Max(S) = m + 1
          <5>1. Max(S) \in 1..m + 1 /\ Max(S) >= m + 1
            BY <3>1, <4>1
          <5> QED BY <5>1
        <4>3. S \ {m + 1} \in SUBSET (1..m + 1)
          BY Zenon
        <4>4. jt[S \ {m + 1}] = it[S \ {m + 1}]
          BY <4>3
        <4> QED BY <3>1, <4>2, <4>4
      <3>2. CASE m + 1 \notin S
        <4>1. S \in SUBSET (1..m) /\ jt[S] = it[S]
          BY <2>2, <3>2
        <4>2. jt[S \ {Max(S)}] = it[S \ {Max(S)}]
          <5>1. S \ {Max(S)} \in SUBSET (1..m + 1) /\ m + 1 \notin S \ {Max(S)}
            BY <3>2, Zenon
          <5> QED BY <5>1
        <4> QED BY <2>1, <4>1, <4>2
      <3> QED BY <3>1, <3>2
    <2>7. Fold(m + 1, jt)
      BY <2>5, <2>6
    <2> HIDE DEF Fold, jt
    <2> QED BY <2>7
  <1>3. n \in Has
    <2> HIDE DEF Has
    <2>1. 0..n \subseteq Has
      BY <1>1, <1>2, UpTo
    <2> QED BY <2>1
  <1> HIDE DEF FoldBy
  <1> QED BY <1>3

-----------------------------------------------------------------------------
(* The functions on blocks. *)

\* Only the cache, the disk and the marks on blocks change.
Frame(s, t) ==
  /\ t \in Saved /\ t.free = s.free /\ t.blk = s.blk
  /\ t.status = "ok" => s.status = "ok"
  /\ s.mapped \subseteq t.mapped

\* A state by its fields, and the functions that write one of them.
Rec(free, disk_free, mapped, dirty, unsaved, blk, status) ==
  [free |-> free, disk_free |-> disk_free, mapped |-> mapped, dirty |-> dirty,
          unsaved |-> unsaved, blk |-> blk, status |-> status]

LEMMA SavedIs ==
  ASSUME NEW s \in Saved
  PROVE  /\ s.free \in SUBSET Block /\ s.disk_free \in SUBSET Block /\ s.mapped \in SUBSET Block
         /\ s.dirty \in SUBSET Block /\ s.unsaved \in SUBSET Block /\ s.blk \in [Block -> Content]
         /\ s.status \in {"ok", "panic", "garbage"}
         /\ s.dirty \subseteq s.mapped /\ 0..2 \subseteq s.mapped /\ s.disk_free \subseteq s.free
         /\ s = Rec(s.free, s.disk_free, s.mapped, s.dirty, s.unsaved, s.blk, s.status)
  BY DEF Saved, State, OnDisk, Rec

LEMMA IsSaved ==
  ASSUME NEW free \in SUBSET Block, NEW disk_free \in SUBSET Block, NEW mapped \in SUBSET Block,
         NEW dirty \in SUBSET Block, NEW unsaved \in SUBSET Block, NEW blk \in [Block -> Content],
         NEW status \in {"ok", "panic", "garbage"},
         dirty \subseteq mapped, 0..2 \subseteq mapped, disk_free \subseteq free
  PROVE  Rec(free, disk_free, mapped, dirty, unsaved, blk, status) \in Saved
  BY DEF Saved, State, OnDisk, Rec

LEMMA WithStatus ==
  ASSUME NEW s \in Saved, NEW x \in {"ok", "panic", "garbage"}
  PROVE  LET t == [s EXCEPT !.status = x]
         IN  /\ t \in Saved
             /\ t.free = s.free /\ t.disk_free = s.disk_free /\ t.mapped = s.mapped /\ t.dirty = s.dirty
             /\ t.unsaved = s.unsaved /\ t.blk = s.blk /\ t.status = x
  <1> DEFINE t == [s EXCEPT !.status = x]
             r == Rec(s.free, s.disk_free, s.mapped, s.dirty, s.unsaved, s.blk, x)
  <1>1. s = Rec(s.free, s.disk_free, s.mapped, s.dirty, s.unsaved, s.blk, s.status)
    BY SavedIs
  <1>2. t = r
    BY <1>1 DEF Rec
  <1>3. r \in Saved
    BY SavedIs, IsSaved
  <1>4. /\ r.free = s.free /\ r.disk_free = s.disk_free /\ r.mapped = s.mapped /\ r.dirty = s.dirty
        /\ r.unsaved = s.unsaved /\ r.blk = s.blk /\ r.status = x
    BY DEF Rec
  <1> QED BY <1>2, <1>3, <1>4, Zenon

LEMMA WithDiskFree ==
  ASSUME NEW s \in Saved, NEW x \in SUBSET s.free
  PROVE  LET t == [s EXCEPT !.disk_free = x]
         IN  /\ t \in Saved
             /\ t.free = s.free /\ t.disk_free = x /\ t.mapped = s.mapped /\ t.dirty = s.dirty
             /\ t.unsaved = s.unsaved /\ t.blk = s.blk /\ t.status = s.status
  <1> DEFINE t == [s EXCEPT !.disk_free = x]
             r == Rec(s.free, x, s.mapped, s.dirty, s.unsaved, s.blk, s.status)
  <1>1. s = Rec(s.free, s.disk_free, s.mapped, s.dirty, s.unsaved, s.blk, s.status)
    BY SavedIs
  <1>2. t = r
    BY <1>1 DEF Rec
  <1>3. r \in Saved
    BY SavedIs, IsSaved
  <1>4. /\ r.free = s.free /\ r.disk_free = x /\ r.mapped = s.mapped /\ r.dirty = s.dirty
        /\ r.unsaved = s.unsaved /\ r.blk = s.blk /\ r.status = s.status
    BY DEF Rec
  <1> QED BY <1>2, <1>3, <1>4, Zenon

LEMMA WithUnsaved ==
  ASSUME NEW s \in Saved, NEW x \in SUBSET Block
  PROVE  LET t == [s EXCEPT !.unsaved = x]
         IN  /\ t \in Saved
             /\ t.free = s.free /\ t.disk_free = s.disk_free /\ t.mapped = s.mapped /\ t.dirty = s.dirty
             /\ t.unsaved = x /\ t.blk = s.blk /\ t.status = s.status
  <1> DEFINE t == [s EXCEPT !.unsaved = x]
             r == Rec(s.free, s.disk_free, s.mapped, s.dirty, x, s.blk, s.status)
  <1>1. s = Rec(s.free, s.disk_free, s.mapped, s.dirty, s.unsaved, s.blk, s.status)
    BY SavedIs
  <1>2. t = r
    BY <1>1 DEF Rec
  <1>3. r \in Saved
    BY SavedIs, IsSaved
  <1>4. /\ r.free = s.free /\ r.disk_free = s.disk_free /\ r.mapped = s.mapped /\ r.dirty = s.dirty
        /\ r.unsaved = x /\ r.blk = s.blk /\ r.status = s.status
    BY DEF Rec
  <1> QED BY <1>2, <1>3, <1>4, Zenon

LEMMA WithMapped ==
  ASSUME NEW s \in Saved, NEW x \in SUBSET Block, s.mapped \subseteq x
  PROVE  LET t == [s EXCEPT !.mapped = x]
         IN  /\ t \in Saved
             /\ t.free = s.free /\ t.disk_free = s.disk_free /\ t.mapped = x /\ t.dirty = s.dirty
             /\ t.unsaved = s.unsaved /\ t.blk = s.blk /\ t.status = s.status
  <1> DEFINE t == [s EXCEPT !.mapped = x]
             r == Rec(s.free, s.disk_free, x, s.dirty, s.unsaved, s.blk, s.status)
  <1>1. s = Rec(s.free, s.disk_free, s.mapped, s.dirty, s.unsaved, s.blk, s.status)
    BY SavedIs
  <1>2. t = r
    BY <1>1 DEF Rec
  <1>3. r \in Saved
    BY SavedIs, IsSaved
  <1>4. /\ r.free = s.free /\ r.disk_free = s.disk_free /\ r.mapped = x /\ r.dirty = s.dirty
        /\ r.unsaved = s.unsaved /\ r.blk = s.blk /\ r.status = s.status
    BY DEF Rec
  <1> QED BY <1>2, <1>3, <1>4, Zenon

LEMMA WithDirty ==
  ASSUME NEW s \in Saved, NEW x \in SUBSET s.mapped
  PROVE  LET t == [s EXCEPT !.dirty = x]
         IN  /\ t \in Saved
             /\ t.free = s.free /\ t.disk_free = s.disk_free /\ t.mapped = s.mapped /\ t.dirty = x
             /\ t.unsaved = s.unsaved /\ t.blk = s.blk /\ t.status = s.status
  <1> DEFINE t == [s EXCEPT !.dirty = x]
             r == Rec(s.free, s.disk_free, s.mapped, x, s.unsaved, s.blk, s.status)
  <1>1. s = Rec(s.free, s.disk_free, s.mapped, s.dirty, s.unsaved, s.blk, s.status)
    BY SavedIs
  <1>2. t = r
    BY <1>1 DEF Rec
  <1>3. r \in Saved
    BY SavedIs, IsSaved
  <1>4. /\ r.free = s.free /\ r.disk_free = s.disk_free /\ r.mapped = s.mapped /\ r.dirty = x
        /\ r.unsaved = s.unsaved /\ r.blk = s.blk /\ r.status = s.status
    BY DEF Rec
  <1> QED BY <1>2, <1>3, <1>4, Zenon

LEMMA WithFree ==
  ASSUME NEW s \in Saved, NEW x \in SUBSET Block, s.free \subseteq x
  PROVE  LET t == [s EXCEPT !.free = x]
         IN  /\ t \in Saved
             /\ t.free = x /\ t.disk_free = s.disk_free /\ t.mapped = s.mapped /\ t.dirty = s.dirty
             /\ t.unsaved = s.unsaved /\ t.blk = s.blk /\ t.status = s.status
  <1> DEFINE t == [s EXCEPT !.free = x]
             r == Rec(x, s.disk_free, s.mapped, s.dirty, s.unsaved, s.blk, s.status)
  <1>1. s = Rec(s.free, s.disk_free, s.mapped, s.dirty, s.unsaved, s.blk, s.status)
    BY SavedIs
  <1>2. t = r
    BY <1>1 DEF Rec
  <1>3. r \in Saved
    BY SavedIs, IsSaved
  <1>4. /\ r.free = x /\ r.disk_free = s.disk_free /\ r.mapped = s.mapped /\ r.dirty = s.dirty
        /\ r.unsaved = s.unsaved /\ r.blk = s.blk /\ r.status = s.status
    BY DEF Rec
  <1> QED BY <1>2, <1>3, <1>4, Zenon

LEMMA WithBlk ==
  ASSUME NEW s \in Saved, NEW x \in [Block -> Content]
  PROVE  LET t == [s EXCEPT !.blk = x]
         IN  /\ t \in Saved
             /\ t.free = s.free /\ t.disk_free = s.disk_free /\ t.mapped = s.mapped /\ t.dirty = s.dirty
             /\ t.unsaved = s.unsaved /\ t.blk = x /\ t.status = s.status
  <1> DEFINE t == [s EXCEPT !.blk = x]
             r == Rec(s.free, s.disk_free, s.mapped, s.dirty, s.unsaved, x, s.status)
  <1>1. s = Rec(s.free, s.disk_free, s.mapped, s.dirty, s.unsaved, s.blk, s.status)
    BY SavedIs
  <1>2. t = r
    BY <1>1 DEF Rec
  <1>3. r \in Saved
    BY SavedIs, IsSaved
  <1>4. /\ r.free = s.free /\ r.disk_free = s.disk_free /\ r.mapped = s.mapped /\ r.dirty = s.dirty
        /\ r.unsaved = s.unsaved /\ r.blk = x /\ r.status = s.status
    BY DEF Rec
  <1> QED BY <1>2, <1>3, <1>4, Zenon

LEMMA PanicFrame ==
  ASSUME NEW s \in Saved
  PROVE  Frame(s, Panic(s)) /\ Panic(s).status = "panic"
  BY WithStatus DEF Panic, Frame

LEMMA WriteFrame ==
  ASSUME NEW s \in Saved, NEW b \in Block
  PROVE  Frame(s, write_block(s, b))
  <1>1. CASE b \notin s.mapped
    BY <1>1, PanicFrame DEF write_block
  <1>2. CASE b \in s.mapped /\ b = BITMAP
    <2> DEFINE t == [s EXCEPT !.disk_free = s.free]
    <2>1. t \in Saved /\ t.free = s.free /\ t.blk = s.blk /\ t.mapped = s.mapped /\ t.status = s.status
      BY WithDiskFree
    <2>2. write_block(s, b) = t
      BY <1>2 DEF write_block
    <2> HIDE DEF t
    <2> QED BY <2>1, <2>2 DEF Frame
  <1>3. CASE b \in s.mapped /\ b # BITMAP
    <2> DEFINE t == [s EXCEPT !.unsaved = s.unsaved \ {b}]
    <2>0. s.unsaved \ {b} \in SUBSET Block
      BY SavedIs
    <2>1. t \in Saved /\ t.free = s.free /\ t.blk = s.blk /\ t.mapped = s.mapped /\ t.status = s.status
      BY <2>0, WithUnsaved
    <2>2. write_block(s, b) = t
      BY <1>3 DEF write_block
    <2> HIDE DEF t
    <2> QED BY <2>1, <2>2 DEF Frame
  <1> QED BY <1>1, <1>2, <1>3

LEMMA ReadFrame ==
  ASSUME NEW s \in Saved, NEW b \in Block
  PROVE  Frame(s, read_block(s, b)) /\ (s.status = "ok" /\ b \notin s.free => read_block(s, b).status = "ok")
  <1>1. CASE b \in s.free
    BY <1>1, PanicFrame DEF read_block, block_is_free
  <1>2. CASE b \notin s.free
    <2> DEFINE t == [s EXCEPT !.mapped = s.mapped \union {b}]
    <2>1. t \in Saved /\ t.free = s.free /\ t.blk = s.blk /\ t.mapped = s.mapped \union {b} /\ t.status = s.status
      <3>1. s.mapped \union {b} \in SUBSET Block
        BY SavedIs
      <3> QED BY <3>1, WithMapped
    <2>2. read_block(s, b) = t
      BY <1>2 DEF read_block, block_is_free
    <2> HIDE DEF t
    <2> QED BY <2>1, <2>2 DEF Frame
  <1> QED BY <1>1, <1>2

LEMMA DirtyFrame ==
  ASSUME NEW s \in Saved, NEW b \in Block
  PROVE  Frame(s, dirty_block(s, b).s) /\ dirty_block(s, b).v \in {0, E_NOT_FOUND}
  <1>1. CASE b \notin s.mapped
    BY <1>1 DEF dirty_block, Ret, Frame
  <1>2. CASE b \in s.mapped
    <2> DEFINE t == [s EXCEPT !.dirty = s.dirty \union {b}]
    <2>1. t \in Saved /\ t.free = s.free /\ t.blk = s.blk /\ t.mapped = s.mapped /\ t.status = s.status
      <3>1. s.dirty \union {b} \in SUBSET s.mapped
        BY <1>2, SavedIs
      <3> QED BY <3>1, WithDirty
    <2>2. dirty_block(s, b) = Ret(t, 0)
      BY <1>2 DEF dirty_block
    <2> HIDE DEF t
    <2> QED BY <2>1, <2>2 DEF Frame, Ret
  <1> QED BY <1>1, <1>2

LEMMA LookFrame ==
  ASSUME NEW s \in Saved, NEW b
  PROVE  Frame(s, AsPointers(s, b)) /\ Frame(s, AsFiles(s, b))
  BY WithStatus DEF AsPointers, AsFiles, Frame

LEMMA FrameRefl == ASSUME NEW s \in Saved PROVE Frame(s, s)
  BY DEF Frame

LEMMA FrameTrans ==
  ASSUME NEW s, NEW t, NEW u, Frame(s, t), Frame(t, u)
  PROVE  Frame(s, u)
  BY DEF Frame

LEMMA ZeroContent == Zero \in Content
  <1>1. 0 \in Block
    BY FsSizes DEF Block
  <1>2. NoFile \in FileType
    <2>1. [i \in 0..NDIRECT - 1 |-> 0] \in [0..NDIRECT - 1 -> Block]
      BY <1>1
    <2>2. NoName \in Names \union {NoName, "/"} /\ 0 \in Nat
      OBVIOUS
    <2> QED BY <1>1, <2>1, <2>2 DEF NoFile, FileType
  <1> HIDE DEF NoFile
  <1>3. [j \in Slot |-> NoFile] \in [Slot -> FileType]
    BY <1>2
  <1>4. [i \in NDIRECT..NINDIRECT - 1 |-> 0] \in [NDIRECT..NINDIRECT - 1 -> Block]
    BY <1>1
  <1> QED BY <1>3, <1>4 DEF Zero, Content

LEMMA LowestIs ==
  ASSUME NEW S \in SUBSET Nat, S # {}
  PROVE  Lowest(S) \in S /\ \A y \in S : Lowest(S) <= y
  BY LeastOf DEF Lowest

\* A block is taken, and is in the cache: with its old content, or zeroed.
LEMMA AllocIs ==
  ASSUME NEW s \in Saved
  PROVE  LET a == alloc_block(s)
         IN  \/ a.s = s /\ a.v = E_NO_DISK
             \/ /\ a.v \in s.free /\ a.v \in 3..NBLOCK - 1
                /\ a.s \in Saved /\ a.s.free = s.free \ {a.v} /\ a.s.status = s.status
                /\ s.mapped \subseteq a.s.mapped
                /\ a.s.blk = s.blk \/ a.s.blk = [s.blk EXCEPT ![a.v] = Zero]
  <1>1. CASE s.free \subseteq 0..2
    BY <1>1 DEF alloc_block, alloc_block_num, Ret, E_NO_DISK
  <1>2. CASE ~(s.free \subseteq 0..2)
    <2> DEFINE b == Lowest(s.free \ (0..2))
    <2>1. b \in s.free /\ b \in 3..NBLOCK - 1 /\ b \in Block
      <3>1. s.free \ (0..2) \in SUBSET Nat /\ s.free \ (0..2) # {}
        BY <1>2, SavedIs DEF Block
      <3>2. b \in s.free \ (0..2)
        BY <3>1, LowestIs
      <3> QED BY <3>2, SavedIs DEF Block
    <2> HIDE DEF b
    <2> DEFINE u == [s EXCEPT !.free = s.free \ {b}]
               t == [u EXCEPT !.disk_free = u.free]
               r == Rec(s.free \ {b}, s.free \ {b}, s.mapped, s.dirty, s.unsaved, s.blk, s.status)
    <2>0. s = Rec(s.free, s.disk_free, s.mapped, s.dirty, s.unsaved, s.blk, s.status)
      BY SavedIs
    <2>2. u.mapped = s.mapped /\ u.free = s.free \ {b} /\ t = r
      <3>1. u = Rec(s.free \ {b}, s.disk_free, s.mapped, s.dirty, s.unsaved, s.blk, s.status)
        BY <2>0 DEF Rec
      <3>2. u.mapped = s.mapped /\ u.free = s.free \ {b}
        BY <3>1 DEF Rec
      <3> HIDE DEF u
      <3>3. t = Rec(s.free \ {b}, u.free, s.mapped, s.dirty, s.unsaved, s.blk, s.status)
        BY <3>1 DEF Rec
      <3> QED BY <3>2, <3>3
    <2>3. write_block(u, BITMAP) = t
      <3>1. BITMAP \in u.mapped
        BY <2>2, SavedIs DEF BITMAP
      <3> QED BY <3>1, Zenon DEF write_block
    <2>4. /\ t \in Saved /\ t.free = s.free \ {b} /\ t.status = s.status
          /\ t.mapped = s.mapped /\ t.blk = s.blk
      <3>1. r \in Saved
        BY SavedIs, IsSaved
      <3>2. r.free = s.free \ {b} /\ r.status = s.status /\ r.mapped = s.mapped /\ r.blk = s.blk
        BY DEF Rec
      <3> QED BY <2>2, <3>1, <3>2, Zenon
    <2>5. alloc_block_num(s) = Ret(t, b)
      BY <1>2, <2>3, Zenon DEF alloc_block_num, b, u
    <2> HIDE DEF t, u
    <2>6. alloc_block(s) = Ret(map_block(t, b), b)
      BY <2>1, <2>5 DEF alloc_block, Ret
    <2>7. CASE b \in t.mapped
      BY <2>1, <2>4, <2>6, <2>7 DEF map_block, Ret
    <2>8. CASE b \notin t.mapped
      <3> DEFINE z == [t EXCEPT !.mapped = t.mapped \union {b}, !.blk = [t.blk EXCEPT ![b] = Zero]]
      <3>1. map_block(t, b) = z
        BY <2>8 DEF map_block
      <3>2. [t.blk EXCEPT ![b] = Zero] \in [Block -> Content]
        BY <2>1, <2>4, SavedIs, ZeroContent
      <3>3. /\ z \in Saved /\ z.free = t.free /\ z.status = t.status
            /\ z.mapped = t.mapped \union {b} /\ z.blk = [t.blk EXCEPT ![b] = Zero]
        <4> DEFINE m == [t EXCEPT !.mapped = t.mapped \union {b}]
                   x == [t.blk EXCEPT ![b] = Zero]
        <4>1. t.mapped \union {b} \in SUBSET Block
          BY <2>1, <2>4, SavedIs
        <4>2. m \in Saved /\ m.free = t.free /\ m.mapped = t.mapped \union {b} /\ m.status = t.status
          BY <2>4, <4>1, WithMapped
        <4>3. z = [m EXCEPT !.blk = x]
          OBVIOUS
        <4> HIDE DEF m, x, z
        <4> QED BY <3>2, <4>2, <4>3, WithBlk DEF x
      <3> HIDE DEF z
      <3> QED BY <2>1, <2>4, <2>6, <3>1, <3>3 DEF Ret
    <2> QED BY <2>7, <2>8
  <1> QED BY <1>1, <1>2

-----------------------------------------------------------------------------
(* Files and pointers, one at a time. *)

LEMMA FileIs ==
  ASSUME NEW s \in Saved, NEW f \in FilePlace
  PROVE  /\ File(s, f) \in FileType /\ f[1] \in Block /\ f[2] \in Slot
         /\ Name(s, f) \in Names \union {NoName, "/"} /\ Type(s, f) \in {"reg", "dir"}
         /\ Size(s, f) \in Nat
  <1>1. f[1] \in Block /\ f[2] \in Slot
    BY DEF FilePlace
  <1>2. s.blk \in [Block -> Content]
    BY SavedIs
  <1>3. s.blk[f[1]].files \in [Slot -> FileType]
    BY <1>1, <1>2 DEF Content
  <1>4. File(s, f) \in FileType
    BY <1>1, <1>3 DEF File
  <1> QED BY <1>1, <1>4 DEF FileType, Name, Type, Size

LEMMA PlaceIs ==
  ASSUME NEW p \in Place
  PROVE  /\ p = <<p[1], p[2], p[3]>> /\ p[1] \in Block
         /\ \/ p[2] = -1 /\ p[3] \in NDIRECT..NINDIRECT - 1
            \/ p[2] \in Slot /\ p[2] # -1 /\ p[3] \in -1..NDIRECT - 1
  BY DEF Place, Slot

LEMMA PlaceOf ==
  /\ \A f \in FilePlace : \A i \in -1..NDIRECT - 1 : <<f[1], f[2], i>> \in Place
  /\ \A b \in Block : \A i \in NDIRECT..NINDIRECT - 1 : <<b, -1, i>> \in Place
  BY DEF Place, FilePlace

\* The pointers of a File, and the entries of an indirect block.
LEMMA PtrIs ==
  ASSUME NEW s \in Saved
  PROVE  /\ \A p \in Place : Ptr(s, p) \in Block
         /\ \A f \in FilePlace : Ptr(s, Ind(f)) = File(s, f).indirect
         /\ \A f \in FilePlace : \A i \in 0..NDIRECT - 1 :
              Ptr(s, <<f[1], f[2], i>>) = File(s, f).direct[i]
         /\ \A b \in Block : \A i \in NDIRECT..NINDIRECT - 1 : Ptr(s, <<b, -1, i>>) = s.blk[b].ptr[i]
  <1>1. ASSUME NEW f \in FilePlace, NEW i \in -1..NDIRECT - 1
        PROVE  Ptr(s, <<f[1], f[2], i>>) = IF i = -1 THEN File(s, f).indirect ELSE File(s, f).direct[i]
    <2>1. f[2] # -1
      BY DEF FilePlace, Slot
    <2> QED BY <2>1 DEF Ptr, File
  <1>2. ASSUME NEW p \in Place PROVE Ptr(s, p) \in Block
    <2>1. CASE p[2] = -1
      <3>1. s.blk \in [Block -> Content]
        BY SavedIs
      <3>2. s.blk[p[1]].ptr \in [NDIRECT..NINDIRECT - 1 -> Block]
        BY <3>1, PlaceIs DEF Content
      <3>3. p[3] \in NDIRECT..NINDIRECT - 1
        BY <2>1, PlaceIs DEF Slot
      <3> QED BY <2>1, <3>2, <3>3 DEF Ptr
    <2>2. CASE p[2] # -1
      <3> DEFINE f == <<p[1], p[2]>>
      <3>1. f \in FilePlace /\ p[3] \in -1..NDIRECT - 1 /\ p = <<f[1], f[2], p[3]>>
        BY <2>2, PlaceIs DEF FilePlace
      <3> HIDE DEF f
      <3>2. File(s, f) \in FileType
        BY <3>1, FileIs
      <3>3. File(s, f).indirect \in Block /\ \A i \in 0..NDIRECT - 1 : File(s, f).direct[i] \in Block
        BY <3>2 DEF FileType
      <3>4. p[3] = -1 \/ p[3] \in 0..NDIRECT - 1
        BY <3>1
      <3> QED BY <1>1, <3>1, <3>3, <3>4
    <2> QED BY <2>1, <2>2
  <1>3. \A f \in FilePlace : Ptr(s, Ind(f)) = File(s, f).indirect
    BY <1>1, FsSizes DEF Ind
  <1>4. ASSUME NEW f \in FilePlace, NEW i \in 0..NDIRECT - 1
        PROVE  Ptr(s, <<f[1], f[2], i>>) = File(s, f).direct[i]
    <2>1. i \in -1..NDIRECT - 1 /\ i # -1
      OBVIOUS
    <2> QED BY <1>1, <2>1
  <1>5. \A b \in Block : \A i \in NDIRECT..NINDIRECT - 1 : Ptr(s, <<b, -1, i>>) = s.blk[b].ptr[i]
    BY DEF Ptr
  <1> QED BY <1>2, <1>3, <1>4, <1>5

LEMMA PutIs ==
  ASSUME NEW s \in Saved, NEW f \in FilePlace, NEW x \in FileType
  PROVE  LET t == Put(s, f, x)
         IN  /\ t \in Saved /\ t.free = s.free /\ t.mapped = s.mapped /\ t.status = s.status
             /\ File(t, f) = x
             /\ \A g \in FilePlace : g # f => File(t, g) = File(s, g)
             /\ \A b \in Block : t.blk[b].ptr = s.blk[b].ptr
  <1> DEFINE c == s.blk[f[1]]
             d == [c EXCEPT !.files[f[2]] = x]
             blk == [s.blk EXCEPT ![f[1]] = d]
             t == [s EXCEPT !.blk = blk]
  <1>1. f[1] \in Block /\ f[2] \in Slot
    BY DEF FilePlace
  <1>2. s.blk \in [Block -> Content] /\ c \in Content
    BY <1>1, SavedIs
  <1>3. /\ d \in Content /\ d.ptr = c.ptr
        /\ d.files = [c.files EXCEPT ![f[2]] = x] /\ c.files \in [Slot -> FileType]
    <2> HIDE DEF c
    <2> QED BY <1>1, <1>2 DEF Content
  <1> HIDE DEF d
  <1>4. blk \in [Block -> Content] /\ blk[f[1]] = d /\ \A b \in Block : b # f[1] => blk[b] = s.blk[b]
    BY <1>1, <1>2, <1>3
  <1>5. Put(s, f, x) = t
    BY DEF Put, d
  <1> HIDE DEF blk, c
  <1>6. t \in Saved /\ t.free = s.free /\ t.mapped = s.mapped /\ t.status = s.status /\ t.blk = blk
    BY <1>4, WithBlk
  <1> HIDE DEF t
  <1>7. File(t, f) = x
    BY <1>1, <1>3, <1>4, <1>6 DEF File
  <1>8. ASSUME NEW g \in FilePlace, g # f PROVE File(t, g) = File(s, g)
    <2>1. g[1] \in Block /\ g[2] \in Slot /\ g = <<g[1], g[2]>> /\ f = <<f[1], f[2]>>
      BY DEF FilePlace
    <2>2. CASE g[1] = f[1]
      <3>1. g[2] # f[2]
        BY <1>8, <2>1, <2>2
      <3> QED BY <1>3, <1>4, <1>6, <2>1, <2>2, <3>1 DEF File, c
    <2>3. CASE g[1] # f[1]
      BY <1>4, <1>6, <2>1, <2>3 DEF File
    <2> QED BY <2>2, <2>3
  <1>9. \A b \in Block : t.blk[b].ptr = s.blk[b].ptr
    BY <1>1, <1>3, <1>4, <1>6 DEF c
  <1> QED BY <1>5, <1>6, <1>7, <1>8, <1>9

\* Two states with the same Files and pointers, but for the Files that a
\* function may change.
SameView(s, t) ==
  /\ \A p \in Place : Ptr(t, p) = Ptr(s, p)
  /\ \A f \in FilePlace : Name(t, f) = Name(s, f) /\ Type(t, f) = Type(s, f) /\ Size(t, f) = Size(s, f)
SameRest(s, t) ==
  t \in Saved /\ t.free = s.free /\ t.mapped = s.mapped /\ t.status = s.status

LEMMA FrameView ==
  ASSUME NEW s, NEW t, t.blk = s.blk
  PROVE  SameView(s, t)
  BY DEF SameView, Ptr, Name, Type, Size, File

LEMMA PutPtr ==
  ASSUME NEW s \in Saved, NEW f \in FilePlace, NEW x \in FileType, NEW p \in Place,
         ~(p[1] = f[1] /\ p[2] = f[2])
  PROVE  Ptr(Put(s, f, x), p) = Ptr(s, p)
  <1> DEFINE t == Put(s, f, x)
             g == <<p[1], p[2]>>
  <1>1. /\ t \in Saved /\ \A h \in FilePlace : h # f => File(t, h) = File(s, h)
        /\ \A b \in Block : t.blk[b].ptr = s.blk[b].ptr
    BY PutIs
  <1> SUFFICES Ptr(t, p) = Ptr(s, p)
    OBVIOUS
  <1> HIDE DEF t
  <1>2. p[1] \in Block
    BY PlaceIs
  <1>3. CASE p[2] = -1
    BY <1>1, <1>2, <1>3 DEF Ptr
  <1>4. CASE p[2] # -1
    <2>1. g \in FilePlace /\ g # f
      BY <1>4, PlaceIs DEF FilePlace
    <2>2. File(t, g) = File(s, g)
      BY <1>1, <2>1
    <2>3. File(t, p) = File(s, p)
      BY <2>2 DEF File
    <2> QED BY <1>4, <2>3 DEF Ptr
  <1> QED BY <1>3, <1>4

\* f_size, f_name and f_indirect are written.
LEMMA PutSize ==
  ASSUME NEW s \in Saved, NEW f \in FilePlace, NEW n \in Nat
  PROVE  LET t == Put(s, f, [File(s, f) EXCEPT !.size = n])
         IN  /\ SameRest(s, t) /\ \A p \in Place : Ptr(t, p) = Ptr(s, p)
             /\ \A g \in FilePlace : Name(t, g) = Name(s, g) /\ Type(t, g) = Type(s, g)
             /\ \A g \in FilePlace : Size(t, g) = IF g = f THEN n ELSE Size(s, g)
  <1> DEFINE x == [File(s, f) EXCEPT !.size = n]
             t == Put(s, f, x)
  <1>1. File(s, f) \in FileType
    BY FileIs
  <1>2. /\ x \in FileType /\ x.name = File(s, f).name /\ x.type = File(s, f).type /\ x.size = n
        /\ x.direct = File(s, f).direct /\ x.indirect = File(s, f).indirect
    BY <1>1 DEF FileType
  <1> HIDE DEF x
  <1>3. /\ SameRest(s, t) /\ File(t, f) = x
        /\ \A g \in FilePlace : g # f => File(t, g) = File(s, g)
    BY <1>2, PutIs DEF SameRest
  <1>4. ASSUME NEW p \in Place PROVE Ptr(t, p) = Ptr(s, p)
    <2>1. CASE p[1] = f[1] /\ p[2] = f[2]
      <3>1. p[2] # -1
        BY <2>1, FileIs DEF Slot
      <3>2. File(t, p) = File(t, f) /\ File(s, p) = File(s, f)
        BY <2>1 DEF File
      <3> QED BY <1>2, <1>3, <3>1, <3>2 DEF Ptr
    <2>2. CASE ~(p[1] = f[1] /\ p[2] = f[2])
      BY <1>2, <2>2, PutPtr
    <2> QED BY <2>1, <2>2
  <1> HIDE DEF t
  <1>5. ASSUME NEW g \in FilePlace
        PROVE  /\ Name(t, g) = Name(s, g) /\ Type(t, g) = Type(s, g)
               /\ Size(t, g) = IF g = f THEN n ELSE Size(s, g)
    BY <1>2, <1>3 DEF Name, Type, Size
  <1> QED BY <1>3, <1>4, <1>5 DEF t, x

LEMMA PutName ==
  ASSUME NEW s \in Saved, NEW f \in FilePlace, NEW n \in Names \union {NoName}
  PROVE  LET t == Put(s, f, [File(s, f) EXCEPT !.name = n])
         IN  /\ SameRest(s, t) /\ \A p \in Place : Ptr(t, p) = Ptr(s, p)
             /\ \A g \in FilePlace : Size(t, g) = Size(s, g) /\ Type(t, g) = Type(s, g)
             /\ \A g \in FilePlace : Name(t, g) = IF g = f THEN n ELSE Name(s, g)
  <1> DEFINE x == [File(s, f) EXCEPT !.name = n]
             t == Put(s, f, x)
  <1>1. File(s, f) \in FileType
    BY FileIs
  <1>2. /\ x \in FileType /\ x.size = File(s, f).size /\ x.type = File(s, f).type /\ x.name = n
        /\ x.direct = File(s, f).direct /\ x.indirect = File(s, f).indirect
    BY <1>1 DEF FileType
  <1> HIDE DEF x
  <1>3. /\ SameRest(s, t) /\ File(t, f) = x
        /\ \A g \in FilePlace : g # f => File(t, g) = File(s, g)
    BY <1>2, PutIs DEF SameRest
  <1>4. ASSUME NEW p \in Place PROVE Ptr(t, p) = Ptr(s, p)
    <2>1. CASE p[1] = f[1] /\ p[2] = f[2]
      <3>1. p[2] # -1
        BY <2>1, FileIs DEF Slot
      <3>2. File(t, p) = File(t, f) /\ File(s, p) = File(s, f)
        BY <2>1 DEF File
      <3> QED BY <1>2, <1>3, <3>1, <3>2 DEF Ptr
    <2>2. CASE ~(p[1] = f[1] /\ p[2] = f[2])
      BY <1>2, <2>2, PutPtr
    <2> QED BY <2>1, <2>2
  <1> HIDE DEF t
  <1>5. ASSUME NEW g \in FilePlace
        PROVE  /\ Size(t, g) = Size(s, g) /\ Type(t, g) = Type(s, g)
               /\ Name(t, g) = IF g = f THEN n ELSE Name(s, g)
    BY <1>2, <1>3 DEF Name, Type, Size
  <1> QED BY <1>3, <1>4, <1>5 DEF t, x

\* One pointer of a File is written.
LEMMA PutOther ==
  ASSUME NEW s \in Saved, NEW f \in FilePlace, NEW x \in FileType,
         x.name = File(s, f).name, x.type = File(s, f).type, x.size = File(s, f).size
  PROVE  LET t == Put(s, f, x)
         IN  /\ SameRest(s, t) /\ File(t, f) = x
             /\ \A g \in FilePlace : /\ Name(t, g) = Name(s, g) /\ Type(t, g) = Type(s, g)
                                     /\ Size(t, g) = Size(s, g)
  <1> DEFINE t == Put(s, f, x)
  <1>1. /\ SameRest(s, t) /\ File(t, f) = x
        /\ \A g \in FilePlace : g # f => File(t, g) = File(s, g)
    BY PutIs DEF SameRest
  <1> HIDE DEF t
  <1>2. ASSUME NEW g \in FilePlace
        PROVE  Name(t, g) = Name(s, g) /\ Type(t, g) = Type(s, g) /\ Size(t, g) = Size(s, g)
    BY <1>1 DEF Name, Type, Size
  <1> QED BY <1>1, <1>2 DEF t

\* t is s with the block b at place q.
Written(s, t, q, b) ==
  /\ SameRest(s, t)
  /\ \A p \in Place : Ptr(t, p) = IF p = q THEN b ELSE Ptr(s, p)
  /\ \A g \in FilePlace : Name(t, g) = Name(s, g) /\ Type(t, g) = Type(s, g) /\ Size(t, g) = Size(s, g)

LEMMA PutIndirect ==
  ASSUME NEW s \in Saved, NEW f \in FilePlace, NEW b \in Block
  PROVE  Written(s, Put(s, f, [File(s, f) EXCEPT !.indirect = b]), Ind(f), b)
  <1> DEFINE x == [File(s, f) EXCEPT !.indirect = b]
             t == Put(s, f, x)
  <1>1. File(s, f) \in FileType
    BY FileIs
  <1>2. /\ x \in FileType /\ x.size = File(s, f).size /\ x.type = File(s, f).type
        /\ x.name = File(s, f).name /\ x.direct = File(s, f).direct /\ x.indirect = b
    BY <1>1 DEF FileType
  <1> HIDE DEF x
  <1>3. /\ SameRest(s, t) /\ File(t, f) = x
        /\ \A g \in FilePlace : /\ Name(t, g) = Name(s, g) /\ Type(t, g) = Type(s, g)
                                /\ Size(t, g) = Size(s, g)
    BY <1>2, PutOther
  <1>4. ASSUME NEW p \in Place PROVE Ptr(t, p) = IF p = Ind(f) THEN b ELSE Ptr(s, p)
    <2>0. p = <<p[1], p[2], p[3]>>
      BY PlaceIs
    <2>1. CASE p[1] = f[1] /\ p[2] = f[2]
      <3>1. p[2] # -1
        BY <2>1, FileIs DEF Slot
      <3>2. File(t, p) = File(t, f) /\ File(s, p) = File(s, f)
        BY <2>1 DEF File
      <3>3. p = Ind(f) <=> p[3] = -1
        BY <2>0, <2>1 DEF Ind
      <3> QED BY <1>2, <1>3, <3>1, <3>2, <3>3 DEF Ptr
    <2>2. CASE ~(p[1] = f[1] /\ p[2] = f[2])
      <3>1. Ptr(t, p) = Ptr(s, p)
        BY <1>2, <2>2, PutPtr
      <3>2. p # Ind(f)
        BY <2>2 DEF Ind
      <3> QED BY <3>1, <3>2
    <2> QED BY <2>1, <2>2
  <1> HIDE DEF t
  <1>5. Written(s, t, Ind(f), b)
    BY <1>3, <1>4 DEF Written
  <1> QED BY <1>5 DEF t, x

LEMMA AssignDirect ==
  ASSUME NEW s \in Saved, NEW f \in FilePlace, NEW n \in 0..NDIRECT - 1, NEW b \in Block
  PROVE  Written(s, Assign(s, <<f[1], f[2], n>>, b), <<f[1], f[2], n>>, b)
  <1> DEFINE x == [File(s, f) EXCEPT !.direct[n] = b]
             t == Put(s, f, x)
             q == <<f[1], f[2], n>>
  <1>1. File(s, f) \in FileType
    BY FileIs
  <1>2. /\ x \in FileType /\ x.size = File(s, f).size /\ x.type = File(s, f).type
        /\ x.name = File(s, f).name /\ x.indirect = File(s, f).indirect
        /\ x.direct[n] = b /\ \A i \in 0..NDIRECT - 1 : i # n => x.direct[i] = File(s, f).direct[i]
    BY <1>1 DEF FileType
  <1>3. Assign(s, q, b) = t
    <2>1. q[2] >= 0
      BY FileIs DEF Slot
    <2> QED BY <2>1 DEF Assign, Put, File
  <1> HIDE DEF x
  <1>4. /\ SameRest(s, t) /\ File(t, f) = x
        /\ \A g \in FilePlace : /\ Name(t, g) = Name(s, g) /\ Type(t, g) = Type(s, g)
                                /\ Size(t, g) = Size(s, g)
    BY <1>2, PutOther
  <1>5. ASSUME NEW p \in Place PROVE Ptr(t, p) = IF p = q THEN b ELSE Ptr(s, p)
    <2>0. p = <<p[1], p[2], p[3]>>
      BY PlaceIs
    <2>1. CASE p[1] = f[1] /\ p[2] = f[2]
      <3>1. p[2] # -1 /\ p[3] \in -1..NDIRECT - 1
        BY <2>1, FileIs, PlaceIs DEF Slot
      <3>2. File(t, p) = File(t, f) /\ File(s, p) = File(s, f)
        BY <2>1 DEF File
      <3>3. p = q <=> p[3] = n
        BY <2>0, <2>1
      <3>4. p[3] = -1 \/ p[3] \in 0..NDIRECT - 1
        BY <3>1
      <3> QED BY <1>2, <1>4, <3>1, <3>2, <3>3, <3>4 DEF Ptr
    <2>2. CASE ~(p[1] = f[1] /\ p[2] = f[2])
      <3>1. Ptr(t, p) = Ptr(s, p)
        BY <1>2, <2>2, PutPtr
      <3>2. p # q
        BY <2>2
      <3> QED BY <3>1, <3>2
    <2> QED BY <2>1, <2>2
  <1> HIDE DEF t, q
  <1>6. Written(s, t, q, b)
    BY <1>4, <1>5 DEF Written
  <1> QED BY <1>3, <1>6 DEF q

LEMMA AssignEntry ==
  ASSUME NEW s \in Saved, NEW c \in Block, NEW n \in NDIRECT..NINDIRECT - 1, NEW b \in Block
  PROVE  Written(s, Assign(s, <<c, -1, n>>, b), <<c, -1, n>>, b)
  <1> DEFINE d == [s.blk[c] EXCEPT !.ptr[n] = b]
             blk == [s.blk EXCEPT ![c] = d]
             t == [s EXCEPT !.blk = blk]
             q == <<c, -1, n>>
  <1>1. s.blk \in [Block -> Content] /\ s.blk[c] \in Content
    BY SavedIs
  <1>2. /\ d \in Content /\ d.files = s.blk[c].files /\ d.ptr[n] = b
        /\ \A i \in NDIRECT..NINDIRECT - 1 : i # n => d.ptr[i] = s.blk[c].ptr[i]
    BY <1>1 DEF Content
  <1>3. Assign(s, q, b) = t
    BY DEF Assign
  <1> HIDE DEF d
  <1>4. blk \in [Block -> Content] /\ blk[c] = d /\ \A e \in Block : e # c => blk[e] = s.blk[e]
    BY <1>1, <1>2
  <1> HIDE DEF blk
  <1>5. SameRest(s, t) /\ t.blk = blk
    BY <1>4, WithBlk DEF SameRest
  <1> HIDE DEF t
  <1>6. ASSUME NEW g \in FilePlace PROVE File(t, g) = File(s, g)
    <2>1. g[1] \in Block
      BY FileIs
    <2> QED BY <1>2, <1>4, <1>5, <2>1 DEF File
  <1>7. ASSUME NEW p \in Place PROVE Ptr(t, p) = IF p = q THEN b ELSE Ptr(s, p)
    <2>0. p = <<p[1], p[2], p[3]>> /\ p[1] \in Block
      BY PlaceIs
    <2>1. CASE p[2] = -1
      <3>1. p[3] \in NDIRECT..NINDIRECT - 1
        BY <2>1, PlaceIs DEF Slot
      <3>2. p = q <=> p[1] = c /\ p[3] = n
        BY <2>0, <2>1
      <3> QED BY <1>2, <1>4, <1>5, <2>0, <2>1, <3>1, <3>2 DEF Ptr
    <2>2. CASE p[2] # -1
      <3>1. <<p[1], p[2]>> \in FilePlace
        BY <2>2, PlaceIs DEF FilePlace
      <3>2. File(t, <<p[1], p[2]>>) = File(s, <<p[1], p[2]>>)
        BY <1>6, <3>1
      <3>3. File(t, p) = File(s, p)
        BY <3>2 DEF File
      <3>4. p # q
        BY <2>2
      <3> QED BY <2>2, <3>3, <3>4 DEF Ptr
    <2> QED BY <2>1, <2>2
  <1> HIDE DEF q
  <1>8. Written(s, t, q, b)
    BY <1>5, <1>6, <1>7 DEF Written, Name, Type, Size
  <1> QED BY <1>3, <1>8 DEF q

LEMMA AssignIs ==
  ASSUME NEW s \in Saved, NEW q \in Place, q[3] >= 0, NEW b \in Block
  PROVE  Written(s, Assign(s, q, b), q, b) /\ Deref(s, q) = Ptr(s, q)
  <1>1. CASE q[2] = -1
    <2>1. q = <<q[1], -1, q[3]>> /\ q[1] \in Block /\ q[3] \in NDIRECT..NINDIRECT - 1
      BY <1>1, PlaceIs DEF Slot
    <2>2. Written(s, Assign(s, q, b), q, b)
      BY <2>1, AssignEntry
    <2> QED BY <1>1, <2>2 DEF Deref, Ptr
  <1>2. CASE q[2] # -1
    <2> DEFINE f == <<q[1], q[2]>>
    <2>1. f \in FilePlace /\ q = <<f[1], f[2], q[3]>> /\ q[3] \in 0..NDIRECT - 1 /\ q[2] >= 0
      BY <1>2, PlaceIs DEF FilePlace, Slot
    <2> HIDE DEF f
    <2>2. Written(s, Assign(s, q, b), q, b)
      BY <2>1, AssignDirect
    <2>3. q[3] # -1
      OBVIOUS
    <2> QED BY <1>2, <2>1, <2>2, <2>3 DEF Deref, Ptr
  <1> QED BY <1>1, <1>2

-----------------------------------------------------------------------------
(* What a step may do to a sound file system. *)

LEMMA IndPlace ==
  ASSUME NEW f \in FilePlace
  PROVE  /\ Ind(f) \in Place /\ Ind(f)[1] = f[1] /\ Ind(f)[2] = f[2] /\ Ind(f)[3] = -1
         /\ \A g \in FilePlace : Ind(f) = Ind(g) => f = g
  <1>1. Ind(f) \in Place
    BY PlaceOf, FsSizes DEF Ind
  <1>2. \A g \in FilePlace : g = <<g[1], g[2]>>
    BY DEF FilePlace
  <1> QED BY <1>1, <1>2 DEF Ind

LEMMA RootPlace == Root \in FilePlace /\ NIL \in FilePlace /\ Root[1] = 1 /\ 0 \in Block
  BY FsSizes DEF Root, NIL, FilePlace, Block, Slot, SUPER

\* The places of the contents of a file are its own.
LEMMA DataOwn ==
  ASSUME NEW s \in Saved, OnePointer(s), NEW f \in FilePlace, NEW g \in FilePlace, NEW p,
         Data(s, f, p), Data(s, g, p)
  PROVE  f = g
  <1>1. f = <<f[1], f[2]>> /\ g = <<g[1], g[2]>> /\ f[2] # -1 /\ g[2] # -1
    BY DEF FilePlace, Slot
  <1>2. CASE p[1] = f[1] /\ p[2] = f[2]
    BY <1>1, <1>2 DEF Data
  <1>3. CASE p[2] = -1 /\ p[1] = Ptr(s, Ind(f)) /\ p[1] # 0
    <2>1. p[1] = Ptr(s, Ind(g))
      BY <1>1, <1>3 DEF Data
    <2>2. Ind(f) = Ind(g)
      BY <1>3, <2>1, IndPlace DEF OnePointer
    <2> QED BY <2>2, IndPlace
  <1> QED BY <1>2, <1>3 DEF Data

\* A block of a file has one place.
LEMMA DataAt ==
  ASSUME NEW s \in Saved, NEW f \in FilePlace, NEW p, NEW q,
         Data(s, f, p), Data(s, f, q), p[3] = q[3]
  PROVE  p = q
  <1>1. p \in Place /\ q \in Place /\ f[2] # -1
    BY DEF Data, FilePlace, Slot
  <1>2. /\ p = <<p[1], p[2], p[3]>> /\ q = <<q[1], q[2], q[3]>>
        /\ p[2] = -1 <=> p[3] \in NDIRECT..NINDIRECT - 1
        /\ q[2] = -1 <=> q[3] \in NDIRECT..NINDIRECT - 1
    <2>1. ASSUME NEW x \in Place
          PROVE  x = <<x[1], x[2], x[3]>> /\ (x[2] = -1 <=> x[3] \in NDIRECT..NINDIRECT - 1)
      BY PlaceIs, FsSizes
    <2> QED BY <1>1, <2>1
  <1>3. p[2] = -1 <=> q[2] = -1
    BY <1>2
  <1>4. CASE p[2] = -1
    BY <1>1, <1>2, <1>3, <1>4 DEF Data
  <1>5. CASE p[2] # -1
    BY <1>1, <1>2, <1>3, <1>5 DEF Data
  <1> QED BY <1>4, <1>5

\* Nothing is stored in a free block, whatever is in its page.
LEMMA FreeBlank ==
  ASSUME NEW s \in Saved, Sound(s), NEW b \in s.free
  PROVE  /\ b \in Block /\ b \notin 0..2 /\ \A p \in Place : Ptr(s, p) # b
         /\ \A p \in Place : p[1] = b => Ptr(s, p) = 0
         /\ \A f \in FilePlace : f[1] = b => Name(s, f) = NoName /\ Type(s, f) = "reg" /\ Size(s, f) = 0
  <1>1. b \in Block /\ b \notin 0..2 /\ \A p \in Place : Ptr(s, p) # b
    BY SavedIs DEF Sound, FreeExact
  <1>2. ASSUME NEW f \in FilePlace, f[1] = b
        PROVE  Name(s, f) = NoName /\ Type(s, f) = "reg" /\ Size(s, f) = 0
    <2>1. f # Root
      BY <1>1, <1>2, RootPlace
    <2>2. \A d : ~InDir(s, d, f)
      BY <1>1, <1>2 DEF InDir
    <2>3. Name(s, f) = NoName
      BY <2>1, <2>2 DEF Sound, NamedInDir
    <2> QED BY <2>3 DEF Sound, UnnamedEmpty
  <1>3. ASSUME NEW p \in Place, p[1] = b PROVE Ptr(s, p) = 0
    <2>1. CASE p[2] = -1
      <3>1. ASSUME NEW f \in FilePlace PROVE Ptr(s, Ind(f)) # p[1]
        BY <1>1, <1>3, IndPlace
      <3> QED BY <2>1, <3>1 DEF Sound, PointersInIndirect
    <2>2. CASE p[2] # -1
      <3> DEFINE f == <<p[1], p[2]>>
      <3>1. f \in FilePlace /\ p[3] \in -1..NDIRECT - 1 /\ p = <<f[1], f[2], p[3]>> /\ f[1] = b
        BY <1>3, <2>2, PlaceIs DEF FilePlace
      <3> HIDE DEF f
      <3>2. Name(s, f) = NoName
        BY <1>2, <3>1
      <3> QED BY <3>1, <3>2 DEF Sound, UnnamedEmpty
    <2> QED BY <2>1, <2>2
  <1> QED BY <1>1, <1>2, <1>3

\* Sound depends on the Files, the pointers and the bitmap only.
LEMMA SameSound ==
  ASSUME NEW s, NEW t, SameView(s, t), t.free = s.free, Sound(s)
  PROVE  Sound(t)
  <1>1. \A f \in FilePlace : Ptr(t, Ind(f)) = Ptr(s, Ind(f))
    BY IndPlace DEF SameView
  <1>2. \A f \in FilePlace : \A p : Data(t, f, p) <=> Data(s, f, p)
    BY <1>1 DEF Data
  <1>3. \A f \in FilePlace : \A d \in FilePlace : InDir(t, d, f) <=> InDir(s, d, f)
    BY <1>2 DEF InDir, SameView
  <1>4. OnePointer(t) /\ FreeExact(t) /\ Above(t)
    BY DEF SameView, Sound, OnePointer, FreeExact, Above
  <1>5. NamedInDir(t) /\ DirsInRoot(t)
    BY <1>3, RootPlace DEF SameView, Sound, NamedInDir, DirsInRoot
  <1>6. PointersInIndirect(t)
    BY <1>1 DEF SameView, Sound, PointersInIndirect
  <1>7. WithinSize(t)
    BY <1>2 DEF SameView, Sound, WithinSize
  <1>8. UnnamedEmpty(t)
    BY PlaceOf DEF SameView, Sound, UnnamedEmpty
  <1>9. NamesDiffer(t)
    BY <1>3 DEF SameView, Sound, NamesDiffer
  <1> QED BY <1>4, <1>5, <1>6, <1>7, <1>8, <1>9 DEF Sound

\* Files that a step for f leaves alone: those that are not directories and
\* not f keep their size and their blocks, and no File changes its type.
Others(s, t, f) ==
  /\ \A g \in FilePlace : Type(t, g) = Type(s, g)
  /\ \A g \in FilePlace : Type(s, g) = "reg" /\ g # f =>
       /\ Size(t, g) = Size(s, g) /\ Ptr(t, Ind(g)) = Ptr(s, Ind(g))
       /\ \A p \in Place : Data(s, g, p) => Ptr(t, p) = Ptr(s, p)

\* Nothing is taken away, and no directory gets a File with a name.
Kept(s, t) ==
  /\ \A g \in FilePlace : Name(t, g) = Name(s, g)
  /\ \A p \in Place : Ptr(s, p) # 0 => Ptr(t, p) = Ptr(s, p)
  /\ \A d \in FilePlace : \A g \in FilePlace :
       InDir(t, d, g) /\ Name(t, g) # NoName => InDir(s, d, g)
SameSizes(s, t) == \A g \in FilePlace : Size(t, g) = Size(s, g)

LEMMA KeptDir ==
  ASSUME NEW s \in Saved, NEW t \in Saved, \A p \in Place : Ptr(s, p) # 0 => Ptr(t, p) = Ptr(s, p),
         NEW d \in FilePlace, NEW f
  PROVE  /\ \A p : Data(s, d, p) => Data(t, d, p)
         /\ InDir(s, d, f) => InDir(t, d, f)
  <1>1. \A p : Data(s, d, p) => Data(t, d, p)
    BY IndPlace DEF Data
  <1>2. InDir(s, d, f) => InDir(t, d, f)
    BY <1>1 DEF InDir
  <1> QED BY <1>1, <1>2

\* A free block is written to the place q of the file f.
Links(s, t, q, b) ==
  /\ b \in s.free /\ q \in Place /\ Ptr(s, q) = 0 /\ t.free = s.free \ {b}
  /\ \A p \in Place : Ptr(t, p) = IF p = q THEN b ELSE Ptr(s, p)
  /\ \A g \in FilePlace : Name(t, g) = Name(s, g) /\ Type(t, g) = Type(s, g) /\ Size(t, g) = Size(s, g)

LEMMA LinkSound ==
  ASSUME NEW s \in Saved, NEW t \in Saved, Sound(s), NEW f \in FilePlace, Name(s, f) # NoName,
         NEW q, NEW b, Links(s, t, q, b),
         q = Ind(f) \/ (Data(s, f, q) /\ q[3] < Size(s, f))
  PROVE  Sound(t) /\ Others(s, t, f) /\ Kept(s, t) /\ SameSizes(s, t)
  <1>1. /\ b \in Block /\ b \notin 0..2 /\ \A p \in Place : Ptr(s, p) # b
        /\ \A p \in Place : p[1] = b => Ptr(s, p) = 0
        /\ \A g \in FilePlace : g[1] = b => Name(s, g) = NoName /\ Type(s, g) = "reg" /\ Size(s, g) = 0
    BY FreeBlank DEF Links
  <1>2. \A p \in Place : Ptr(s, p) # 0 => Ptr(t, p) = Ptr(s, p)
    BY DEF Links
  <1>3. \A d \in FilePlace : \A p : Data(s, d, p) => Data(t, d, p)
    BY <1>2, KeptDir
  <1>4. \A d \in FilePlace : \A g : InDir(s, d, g) => InDir(t, d, g)
    BY <1>2, KeptDir
  <1>5. ASSUME NEW d \in FilePlace, NEW p \in Place, Data(t, d, p)
        PROVE  Data(s, d, p) \/ (Ind(d) = q /\ p # q /\ p[1] = b /\ Ptr(t, p) = 0 /\ Ptr(s, p) = 0)
    <2>1. CASE p[1] = d[1] /\ p[2] = d[2]
      BY <1>5, <2>1 DEF Data
    <2>2. CASE p[2] = -1 /\ p[1] = Ptr(t, Ind(d)) /\ p[1] # 0
      <3>1. CASE Ind(d) = q
        <4>1. p # q
          BY <2>2, <3>1, IndPlace, FileIs DEF Slot
        <4>2. p[1] = b
          BY <2>2, <3>1 DEF Links
        <4> QED BY <1>1, <3>1, <4>1, <4>2 DEF Links
      <3>2. CASE Ind(d) # q
        <4>1. Ptr(t, Ind(d)) = Ptr(s, Ind(d))
          BY <3>2, IndPlace DEF Links
        <4> QED BY <1>5, <2>2, <4>1 DEF Data
      <3> QED BY <3>1, <3>2
    <2> QED BY <1>5, <2>1, <2>2 DEF Data
  <1>6. ASSUME NEW d \in FilePlace, NEW g \in FilePlace, InDir(t, d, g)
        PROVE  InDir(s, d, g) \/ g[1] = b
    <2>1. PICK p \in Place : Data(t, d, p) /\ Ptr(t, p) = g[1] /\ g[1] # 0
      BY <1>6 DEF InDir
    <2>2. CASE p = q
      BY <2>1, <2>2 DEF Links
    <2>3. CASE p # q
      <3>1. Data(s, d, p) /\ Ptr(s, p) = g[1]
        BY <1>5, <2>1, <2>3 DEF Links
      <3> QED BY <2>1, <3>1 DEF InDir
    <2> QED BY <2>2, <2>3
  <1>7. OnePointer(t)
    BY <1>1 DEF Links, Sound, OnePointer
  <1>8. FreeExact(t)
    BY <1>1 DEF Links, Sound, FreeExact
  <1>9. Above(t)
    BY <1>1 DEF Links, Sound, Above
  <1>10. NamedInDir(t)
    BY <1>4 DEF Links, Sound, NamedInDir
  <1>11. DirsInRoot(t)
    BY <1>4, RootPlace DEF Links, Sound, DirsInRoot
  <1>12. PointersInIndirect(t)
    <2> SUFFICES ASSUME NEW p \in Place, p[2] = -1, Ptr(t, p) # 0
                 PROVE  p[1] # 0 /\ \E g \in FilePlace : Ptr(t, Ind(g)) = p[1]
      BY DEF PointersInIndirect
    <2>1. CASE p = q
      <3>1. q # Ind(f) /\ q[2] # f[2]
        BY <2>1, IndPlace, FileIs DEF Slot
      <3>2. q[1] # 0 /\ Ptr(s, Ind(f)) = q[1]
        BY <3>1 DEF Data
      <3>3. Ptr(t, Ind(f)) = q[1]
        BY <3>1, <3>2, IndPlace DEF Links
      <3> QED BY <2>1, <3>2, <3>3
    <2>2. CASE p # q
      <3>1. Ptr(s, p) # 0
        BY <2>2 DEF Links
      <3>2. PICK g \in FilePlace : Ptr(s, Ind(g)) = p[1] /\ p[1] # 0
        BY <3>1 DEF Sound, PointersInIndirect
      <3>3. Ptr(t, Ind(g)) = p[1]
        BY <1>2, <3>2, IndPlace
      <3> QED BY <3>2, <3>3
    <2> QED BY <2>1, <2>2
  <1>13. WithinSize(t)
    <2> SUFFICES ASSUME NEW g \in FilePlace, NEW p \in Place, Data(t, g, p), p[3] >= Size(t, g)
                 PROVE  Ptr(t, p) = 0
      BY DEF WithinSize
    <2>1. CASE Data(s, g, p)
      <3>1. Size(t, g) = Size(s, g) /\ Ptr(s, p) = 0
        BY <2>1 DEF Links, Sound, WithinSize
      <3>2. p # q
        <4> SUFFICES ASSUME p = q PROVE FALSE
          OBVIOUS
        <4>1. q # Ind(f)
          BY <2>1, IndPlace DEF Data
        <4>2. Data(s, f, q) /\ q[3] < Size(s, f)
          BY <4>1
        <4>3. f = g
          BY <2>1, <4>2, DataOwn DEF Sound
        <4>4. Size(s, f) \in Nat /\ q[3] \in Int
          BY FileIs, PlaceIs
        <4> QED BY <3>1, <4>2, <4>3, <4>4
      <3> QED BY <3>1, <3>2 DEF Links
    <2>2. CASE ~Data(s, g, p)
      BY <1>5, <2>2
    <2> QED BY <2>1, <2>2
  <1>14. UnnamedEmpty(t)
    <2> SUFFICES ASSUME NEW g \in FilePlace, Name(t, g) = NoName
                 PROVE  /\ Type(t, g) = "reg" /\ Size(t, g) = 0
                        /\ \A i \in -1..NDIRECT - 1 : Ptr(t, <<g[1], g[2], i>>) = 0
      BY DEF UnnamedEmpty
    <2>1. Name(s, g) = NoName /\ g # f
      BY DEF Links
    <2>2. ASSUME NEW i \in -1..NDIRECT - 1 PROVE Ptr(t, <<g[1], g[2], i>>) = 0
      <3>1. Ptr(s, <<g[1], g[2], i>>) = 0 /\ <<g[1], g[2], i>> \in Place
        BY <2>1, PlaceOf DEF Sound, UnnamedEmpty
      <3>2. ~(q[1] = g[1] /\ q[2] = g[2])
        <4>1. g = <<g[1], g[2]>> /\ f = <<f[1], f[2]>> /\ g[2] # -1
          BY DEF FilePlace, Slot
        <4> QED BY <2>1, <4>1, IndPlace DEF Data
      <3>3. <<g[1], g[2], i>> # q
        BY <3>2
      <3> QED BY <3>1, <3>3 DEF Links
    <2> QED BY <2>1, <2>2 DEF Links, Sound, UnnamedEmpty
  <1>15. NamesDiffer(t)
    <2> SUFFICES ASSUME NEW d \in FilePlace, NEW g \in FilePlace, NEW h \in FilePlace,
                        Type(t, d) = "dir", InDir(t, d, g), InDir(t, d, h),
                        Name(t, g) = Name(t, h), Name(t, g) # NoName
                 PROVE  g = h
      BY DEF NamesDiffer
    <2>1. Name(s, g) = Name(s, h) /\ Name(s, g) # NoName /\ Type(s, d) = "dir"
      BY DEF Links
    <2>2. InDir(s, d, g) /\ InDir(s, d, h)
      BY <1>1, <1>6, <2>1
    <2> QED BY <2>1, <2>2 DEF Sound, NamesDiffer
  <1>16. Others(s, t, f)
    <2> SUFFICES ASSUME NEW g \in FilePlace, g # f
                 PROVE  /\ Ptr(t, Ind(g)) = Ptr(s, Ind(g))
                        /\ \A p \in Place : Data(s, g, p) => Ptr(t, p) = Ptr(s, p)
      BY DEF Others, Links
    <2>1. Ind(g) # q
      BY IndPlace DEF Data
    <2>2. ASSUME NEW p \in Place, Data(s, g, p) PROVE p # q
      BY <2>2, IndPlace, DataOwn DEF Data, Sound
    <2> QED BY <2>1, <2>2, IndPlace DEF Links
  <1>17. Kept(s, t) /\ SameSizes(s, t)
    BY <1>1, <1>2, <1>6 DEF Kept, SameSizes, Links
  <1> QED BY <1>7, <1>8, <1>9, <1>10, <1>11, <1>12, <1>13, <1>14, <1>15, <1>16, <1>17 DEF Sound

\* The block at the place q of a file is freed and the pointer cleared.
Unlinks(s, t, q) ==
  /\ q \in Place /\ Ptr(s, q) # 0 /\ t.free = s.free \union {Ptr(s, q)}
  /\ \A p \in Place : Ptr(t, p) = IF p = q THEN 0 ELSE Ptr(s, p)
  /\ \A g \in FilePlace : Name(t, g) = Name(s, g) /\ Type(t, g) = Type(s, g) /\ Size(t, g) = Size(s, g)

LEMMA UnlinkSound ==
  ASSUME NEW s \in Saved, NEW t \in Saved, Sound(s), NEW f \in FilePlace, Type(s, f) = "reg",
         NEW q, Unlinks(s, t, q),
         \/ Data(s, f, q)
         \/ q = Ind(f) /\ \A p \in Place : p[1] = Ptr(s, q) /\ p[2] = -1 => Ptr(s, p) = 0
  PROVE  Sound(t) /\ Others(s, t, f) /\ SameSizes(s, t)
  <1> DEFINE b == Ptr(s, q)
  <1>1. b \in Block /\ b \notin 0..2
    BY PtrIs DEF Unlinks, Sound, Above, Block
  <1>2. \A p \in Place : Ptr(t, p) # 0 => Ptr(t, p) = Ptr(s, p)
    BY DEF Unlinks
  <1>3. \A d \in FilePlace : \A p : Data(t, d, p) => Data(s, d, p)
    BY <1>2, KeptDir
  <1>4. \A d \in FilePlace : \A g : InDir(t, d, g) => InDir(s, d, g)
    BY <1>2, KeptDir
  <1>5. ASSUME NEW d \in FilePlace, NEW p \in Place, d # f, Data(s, d, p) PROVE p # q
    BY <1>5, IndPlace, DataOwn DEF Data, Sound
  <1>6. ASSUME NEW d \in FilePlace, NEW p \in Place, Data(s, d, p), Ptr(s, p) # 0 PROVE Data(t, d, p)
    <2>1. CASE p[2] = -1 /\ p[1] = Ptr(s, Ind(d)) /\ p[1] # 0
      <3>1. Ind(d) # q
        <4> SUFFICES ASSUME Ind(d) = q PROVE FALSE
          OBVIOUS
        <4>1. ~Data(s, f, q)
          BY IndPlace DEF Data
        <4> QED BY <1>6, <2>1, <4>1
      <3> QED BY <1>6, <2>1, <3>1, IndPlace DEF Data, Unlinks
    <2>2. CASE ~(p[2] = -1 /\ p[1] = Ptr(s, Ind(d)) /\ p[1] # 0)
      BY <1>6, <2>2 DEF Data
    <2> QED BY <2>1, <2>2
  <1>7. ASSUME NEW d \in FilePlace, NEW g \in FilePlace, Type(s, d) = "dir", InDir(s, d, g)
        PROVE  InDir(t, d, g)
    <2>1. PICK p \in Place : Data(s, d, p) /\ Ptr(s, p) = g[1] /\ g[1] # 0
      BY <1>7 DEF InDir
    <2>2. p # q
      BY <1>5, <1>7, <2>1
    <2>3. Ptr(t, p) = g[1] /\ Data(t, d, p)
      BY <1>6, <2>1, <2>2 DEF Unlinks
    <2> QED BY <2>1, <2>3 DEF InDir
  <1>8. OnePointer(t) /\ Above(t)
    BY DEF Unlinks, Sound, OnePointer, Above
  <1>9. FreeExact(t)
    <2>1. ASSUME NEW c \in Block, c # b
          PROVE  c \in t.free <=> c \notin 0..2 /\ \A p \in Place : Ptr(t, p) # c
      <3>1. c \in t.free <=> c \in s.free
        BY <2>1 DEF Unlinks
      <3>2. c # 0 => ((\A p \in Place : Ptr(t, p) # c) <=> \A p \in Place : Ptr(s, p) # c)
        BY <2>1 DEF Unlinks
      <3> QED BY <3>1, <3>2 DEF Sound, FreeExact
    <2>2. b \in t.free /\ \A p \in Place : Ptr(t, p) # b
      BY <1>1 DEF Unlinks, Sound, OnePointer
    <2> QED BY <1>1, <2>1, <2>2 DEF FreeExact
  <1>10. NamedInDir(t)
    BY <1>7 DEF Unlinks, Sound, NamedInDir
  <1>11. DirsInRoot(t)
    BY <1>7, RootPlace DEF Unlinks, Sound, DirsInRoot
  <1>12. PointersInIndirect(t)
    <2> SUFFICES ASSUME NEW p \in Place, p[2] = -1, Ptr(t, p) # 0
                 PROVE  p[1] # 0 /\ \E g \in FilePlace : Ptr(t, Ind(g)) = p[1]
      BY DEF PointersInIndirect
    <2>1. Ptr(s, p) # 0
      BY DEF Unlinks
    <2>2. PICK g \in FilePlace : Ptr(s, Ind(g)) = p[1] /\ p[1] # 0
      BY <2>1 DEF Sound, PointersInIndirect
    <2>3. Data(s, g, p)
      BY <2>2, FsSizes, PlaceIs DEF Data, Slot
    <2>4. Data(t, g, p)
      BY <1>6, <2>1, <2>3
    <2>5. g[2] # -1
      BY FileIs DEF Slot
    <2> QED BY <2>4, <2>5 DEF Data
  <1>13. WithinSize(t)
    BY <1>3 DEF Unlinks, Sound, WithinSize
  <1>14. UnnamedEmpty(t)
    BY PlaceOf DEF Unlinks, Sound, UnnamedEmpty
  <1>15. NamesDiffer(t)
    BY <1>4 DEF Unlinks, Sound, NamesDiffer
  <1>16. Others(s, t, f)
    <2> SUFFICES ASSUME NEW g \in FilePlace, g # f
                 PROVE  /\ Ptr(t, Ind(g)) = Ptr(s, Ind(g))
                        /\ \A p \in Place : Data(s, g, p) => Ptr(t, p) = Ptr(s, p)
      BY DEF Others, Unlinks
    <2>1. Ind(g) # q
      BY IndPlace DEF Data
    <2> QED BY <1>5, <2>1, IndPlace DEF Unlinks
  <1>17. SameSizes(s, t)
    BY DEF SameSizes, Unlinks
  <1> QED BY <1>8, <1>9, <1>10, <1>11, <1>12, <1>13, <1>14, <1>15, <1>16, <1>17 DEF Sound

\* The size of f is written: it has no block past its new end.
LEMMA ResizeSound ==
  ASSUME NEW s \in Saved, NEW t \in Saved, Sound(s), NEW f \in FilePlace, NEW n \in Nat,
         t.free = s.free, \A p \in Place : Ptr(t, p) = Ptr(s, p),
         \A g \in FilePlace : Name(t, g) = Name(s, g) /\ Type(t, g) = Type(s, g),
         \A g \in FilePlace : Size(t, g) = IF g = f THEN n ELSE Size(s, g),
         n = 0 \/ Name(s, f) # NoName,
         \A p \in Place : Data(s, f, p) /\ p[3] >= n => Ptr(s, p) = 0
  PROVE  Sound(t) /\ Others(s, t, f) /\ Kept(s, t)
  <1>1. \A g \in FilePlace : Ptr(t, Ind(g)) = Ptr(s, Ind(g))
    BY IndPlace
  <1>2. \A g \in FilePlace : \A p : Data(t, g, p) <=> Data(s, g, p)
    BY <1>1 DEF Data
  <1>3. \A g \in FilePlace : \A d \in FilePlace : InDir(t, d, g) <=> InDir(s, d, g)
    BY <1>2 DEF InDir
  <1>4. OnePointer(t) /\ FreeExact(t) /\ Above(t)
    BY DEF Sound, OnePointer, FreeExact, Above
  <1>5. NamedInDir(t) /\ DirsInRoot(t)
    BY <1>3, RootPlace DEF Sound, NamedInDir, DirsInRoot
  <1>6. PointersInIndirect(t)
    BY <1>1 DEF Sound, PointersInIndirect
  <1>7. WithinSize(t)
    BY <1>2 DEF Sound, WithinSize
  <1>8. UnnamedEmpty(t)
    BY PlaceOf DEF Sound, UnnamedEmpty
  <1>9. NamesDiffer(t)
    BY <1>3 DEF Sound, NamesDiffer
  <1>10. Others(s, t, f) /\ Kept(s, t)
    BY <1>1, <1>3 DEF Others, Kept
  <1> QED BY <1>4, <1>5, <1>6, <1>7, <1>8, <1>9, <1>10 DEF Sound

\* The name of f is written: one that no File of its directory has, or none
\* when f is empty.
LEMMA RenameSound ==
  ASSUME NEW s \in Saved, NEW t \in Saved, Sound(s), NEW f \in FilePlace, NEW n,
         t.free = s.free, \A p \in Place : Ptr(t, p) = Ptr(s, p),
         \A g \in FilePlace : Size(t, g) = Size(s, g) /\ Type(t, g) = Type(s, g),
         \A g \in FilePlace : Name(t, g) = IF g = f THEN n ELSE Name(s, g),
         IF n = NoName
         THEN /\ Type(s, f) = "reg" /\ Size(s, f) = 0
              /\ \A i \in -1..NDIRECT - 1 : Ptr(s, <<f[1], f[2], i>>) = 0
         ELSE \E d \in FilePlace :
                /\ Type(s, d) = "dir" /\ InDir(s, d, f)
                /\ \A g \in FilePlace : InDir(s, d, g) => Name(s, g) # n
  PROVE  Sound(t) /\ Others(s, t, f)
  <1>1. \A g \in FilePlace : Ptr(t, Ind(g)) = Ptr(s, Ind(g))
    BY IndPlace
  <1>2. \A g \in FilePlace : \A p : Data(t, g, p) <=> Data(s, g, p)
    BY <1>1 DEF Data
  <1>3. \A g \in FilePlace : \A d \in FilePlace : InDir(t, d, g) <=> InDir(s, d, g)
    BY <1>2 DEF InDir
  <1>4. OnePointer(t) /\ FreeExact(t) /\ Above(t)
    BY DEF Sound, OnePointer, FreeExact, Above
  <1>5. NamedInDir(t) /\ DirsInRoot(t)
    BY <1>3, RootPlace DEF Sound, NamedInDir, DirsInRoot
  <1>6. PointersInIndirect(t)
    BY <1>1 DEF Sound, PointersInIndirect
  <1>7. WithinSize(t)
    BY <1>2 DEF Sound, WithinSize
  <1>8. UnnamedEmpty(t)
    BY PlaceOf DEF Sound, UnnamedEmpty
  <1>9. NamesDiffer(t)
    <2> SUFFICES ASSUME NEW d \in FilePlace, NEW g \in FilePlace, NEW h \in FilePlace,
                        Type(s, d) = "dir", InDir(s, d, g), InDir(s, d, h),
                        Name(t, g) = Name(t, h), Name(t, g) # NoName, g # h
                 PROVE  FALSE
      BY <1>3 DEF NamesDiffer
    <2>1. ASSUME NEW x \in FilePlace, InDir(s, d, f), x # f, InDir(s, d, x), n # NoName
          PROVE  Name(s, x) # n
      <3>1. PICK e \in FilePlace : /\ Type(s, e) = "dir" /\ InDir(s, e, f)
                                   /\ \A y \in FilePlace : InDir(s, e, y) => Name(s, y) # n
        BY <2>1
      <3>2. PICK p \in Place : Data(s, d, p) /\ Ptr(s, p) = f[1] /\ f[1] # 0
        BY <2>1 DEF InDir
      <3>3. PICK q \in Place : Data(s, e, q) /\ Ptr(s, q) = f[1]
        BY <3>1 DEF InDir
      <3>4. p = q
        BY <3>2, <3>3 DEF Sound, OnePointer
      <3>5. d = e
        BY <3>2, <3>3, <3>4, DataOwn DEF Sound
      <3> QED BY <2>1, <3>1, <3>5
    <2>2. g = f \/ h = f
      BY DEF Sound, NamesDiffer
    <2> QED BY <2>1, <2>2
  <1>10. Others(s, t, f)
    BY <1>1 DEF Others
  <1> QED BY <1>4, <1>5, <1>6, <1>7, <1>8, <1>9, <1>10 DEF Sound

-----------------------------------------------------------------------------
(* What the functions guarantee, for a caller that goes on only when the    *)
(* status is still "ok".                                                    *)

Typed(s, t) ==
  t \in Saved /\ (Bounded(s) => Bounded(t)) /\ (t.status = "ok" => s.status = "ok")
Safe(s, t, f) ==
  Typed(s, t) /\ (t.status = "ok" /\ Sound(s) => Sound(t) /\ Others(s, t, f))
Grown(s, t, f) ==
  Safe(s, t, f) /\ (t.status = "ok" /\ Sound(s) => Kept(s, t) /\ SameSizes(s, t))

LEMMA OthersTrans ==
  ASSUME NEW s, NEW t, NEW u, NEW f, Others(s, t, f), Others(t, u, f)
  PROVE  Others(s, u, f)
  <1>1. \A g \in FilePlace : Type(s, g) = "reg" /\ g # f => \A p \in Place : Data(s, g, p) => Data(t, g, p)
    BY DEF Others, Data
  <1> QED BY <1>1 DEF Others

LEMMA OthersDir ==
  ASSUME NEW s, NEW t, NEW d, Others(s, t, d), Type(s, d) = "dir", NEW f
  PROVE  Others(s, t, f)
  BY DEF Others

LEMMA KeptTrans ==
  ASSUME NEW s, NEW t, NEW u, Kept(s, t), Kept(t, u)
  PROVE  Kept(s, u)
  BY DEF Kept

LEMMA SafeTrans ==
  ASSUME NEW s, NEW t, NEW u, NEW f, Safe(s, t, f), Safe(t, u, f)
  PROVE  Safe(s, u, f)
  BY OthersTrans DEF Safe, Typed

LEMMA GrownTrans ==
  ASSUME NEW s, NEW t, NEW u, NEW f, Grown(s, t, f), Grown(t, u, f)
  PROVE  Grown(s, u, f)
  <1>1. Safe(s, u, f)
    BY SafeTrans DEF Grown
  <1> QED BY <1>1, KeptTrans DEF Grown, Safe, Typed, SameSizes

LEMMA ViewGrown ==
  ASSUME NEW s \in Saved, NEW t \in Saved, SameView(s, t), NEW f
  PROVE  Others(s, t, f) /\ Kept(s, t) /\ SameSizes(s, t) /\ (Bounded(s) => Bounded(t))
  <1>1. \A g \in FilePlace : Ptr(t, Ind(g)) = Ptr(s, Ind(g))
    BY IndPlace DEF SameView
  <1>2. \A g \in FilePlace : \A p : Data(t, g, p) <=> Data(s, g, p)
    BY <1>1 DEF Data
  <1>3. \A g \in FilePlace : \A d \in FilePlace : InDir(t, d, g) <=> InDir(s, d, g)
    BY <1>2 DEF InDir, SameView
  <1> QED BY <1>1, <1>3 DEF Others, Kept, SameSizes, SameView, Bounded

LEMMA FrameGrown ==
  ASSUME NEW s \in Saved, NEW t, Frame(s, t), NEW f
  PROVE  Grown(s, t, f) /\ SameView(s, t)
  <1>1. SameView(s, t) /\ t \in Saved /\ t.free = s.free
    BY FrameView DEF Frame
  <1>2. Sound(s) => Sound(t)
    BY <1>1, SameSound
  <1>3. Others(s, t, f) /\ Kept(s, t) /\ SameSizes(s, t) /\ (Bounded(s) => Bounded(t))
    BY <1>1, ViewGrown
  <1> QED BY <1>1, <1>2, <1>3 DEF Grown, Safe, Typed, Frame

LEMMA GrownRefl == ASSUME NEW s \in Saved, NEW f PROVE Grown(s, s, f)
  BY FrameRefl, FrameGrown

\* A block that was free is taken; the Files and pointers stay as they are.
Taken(s, t, b) ==
  /\ t \in Saved /\ (Bounded(s) => Bounded(t)) /\ t.status = s.status
  /\ b \in s.free /\ b \in Block /\ t.free = s.free \ {b} /\ b > 0
  /\ Sound(s) => SameView(s, t)

LEMMA AllocTaken ==
  ASSUME NEW s \in Saved
  PROVE  LET a == alloc_block(s)
         IN  (a.s = s /\ a.v = E_NO_DISK) \/ (a.v >= 0 /\ Taken(s, a.s, a.v))
  <1> DEFINE t == alloc_block(s).s
             b == alloc_block(s).v
  <1> SUFFICES ASSUME ~(t = s /\ b = E_NO_DISK) PROVE b >= 0 /\ Taken(s, t, b)
    BY Zenon
  <1>1. /\ b \in s.free /\ b \in 3..NBLOCK - 1
        /\ t \in Saved /\ t.free = s.free \ {b} /\ t.status = s.status
        /\ t.blk = s.blk \/ t.blk = [s.blk EXCEPT ![b] = Zero]
    BY AllocIs
  <1> HIDE DEF t, b
  <1>2. b \in Block /\ b > 0 /\ b >= 0
    BY <1>1, SavedIs
  <1>3. CASE t.blk = s.blk
    <2>1. SameView(s, t)
      BY <1>3, FrameView
    <2>2. Bounded(s) => Bounded(t)
      BY <1>1, <2>1, ViewGrown
    <2> QED BY <1>1, <1>2, <2>1, <2>2 DEF Taken
  <1>4. CASE t.blk = [s.blk EXCEPT ![b] = Zero]
    <2>1. s.blk \in [Block -> Content]
      BY SavedIs
    <2>2. t.blk[b] = Zero /\ \A c \in Block : c # b => t.blk[c] = s.blk[c]
      BY <1>2, <1>4, <2>1
    <2>3. ASSUME NEW g \in FilePlace, g[1] = b
          PROVE  File(t, g) = NoFile
      <3>1. g[2] \in Slot
        BY FileIs
      <3>2. Zero.files[g[2]] = NoFile
        BY <3>1 DEF Zero
      <3> QED BY <2>2, <2>3, <3>2 DEF File
    <2>4. ASSUME NEW g \in FilePlace, g[1] # b
          PROVE  File(t, g) = File(s, g)
      BY <2>2, <2>4, FileIs DEF File
    <2>5. Bounded(s) => Bounded(t)
      <3>1. NoFile.size = 0 /\ 0 <= NINDIRECT + 1
        BY FsSizes DEF NoFile
      <3> QED BY <2>3, <2>4, <3>1 DEF Bounded, Size
    <2>6. ASSUME Sound(s) PROVE SameView(s, t)
      <3>1. ASSUME NEW g \in FilePlace
            PROVE  Name(t, g) = Name(s, g) /\ Type(t, g) = Type(s, g) /\ Size(t, g) = Size(s, g)
        <4>1. CASE g[1] = b
          <5>1. Name(s, g) = NoName /\ Type(s, g) = "reg" /\ Size(s, g) = 0
            BY <1>1, <2>6, <4>1, FreeBlank
          <5>2. NoFile.name = NoName /\ NoFile.type = "reg" /\ NoFile.size = 0
            BY DEF NoFile
          <5> QED BY <2>3, <4>1, <5>1, <5>2 DEF Name, Type, Size
        <4>2. CASE g[1] # b
          BY <2>4, <4>2 DEF Name, Type, Size
        <4> QED BY <4>1, <4>2
      <3>2. ASSUME NEW p \in Place PROVE Ptr(t, p) = Ptr(s, p)
        <4>1. CASE p[1] # b
          BY <2>2, <4>1, PlaceIs DEF Ptr, File
        <4>2. CASE p[1] = b /\ p[2] = -1
          <5>1. Zero.ptr[p[3]] = 0
            BY <4>2, PlaceIs DEF Zero, Slot
          <5>2. Ptr(t, p) = 0
            BY <2>2, <4>2, <5>1 DEF Ptr
          <5> QED BY <1>1, <2>6, <4>2, <5>2, FreeBlank
        <4>3. CASE p[1] = b /\ p[2] # -1
          <5> DEFINE g == <<p[1], p[2]>>
          <5>1. g \in FilePlace /\ p[3] \in -1..NDIRECT - 1 /\ g[1] = b
            BY <4>3, PlaceIs DEF FilePlace
          <5>2. File(t, g) = NoFile /\ File(t, p) = File(t, g)
            BY <2>3, <5>1 DEF File
          <5>3. NoFile.indirect = 0 /\ \A i \in 0..NDIRECT - 1 : NoFile.direct[i] = 0
            BY DEF NoFile
          <5>4. p[3] = -1 \/ p[3] \in 0..NDIRECT - 1
            BY <5>1
          <5>5. Ptr(t, p) = 0
            BY <4>3, <5>2, <5>3, <5>4 DEF Ptr
          <5> QED BY <1>1, <2>6, <4>3, <5>5, FreeBlank
        <4> QED BY <4>1, <4>2, <4>3
      <3> QED BY <3>1, <3>2 DEF SameView
    <2> QED BY <1>1, <1>2, <2>5, <2>6 DEF Taken
  <1> QED BY <1>1, <1>3, <1>4

\* The block just taken is written to a null pointer of f.
LEMMA LinkGrown ==
  ASSUME NEW s \in Saved, NEW f \in FilePlace, NEW t, NEW u, NEW q \in Place, NEW b,
         Taken(s, t, b), Written(t, u, q, b)
  PROVE  /\ Typed(s, u) /\ u.status = s.status /\ Ptr(u, q) = b
         /\ (u.status = "ok" /\ Sound(s) =>
               /\ Name(s, f) # NoName /\ Ptr(s, q) = 0
               /\ q = Ind(f) \/ (Data(s, f, q) /\ q[3] < Size(s, f)))
            => Grown(s, u, f)
  <1>1. u \in Saved /\ u.status = s.status /\ u.free = s.free \ {b}
    BY DEF Taken, Written, SameRest
  <1>2. Bounded(s) => Bounded(u)
    BY DEF Taken, Written, Bounded
  <1>3. ASSUME u.status = "ok", Sound(s), Name(s, f) # NoName, Ptr(s, q) = 0,
               q = Ind(f) \/ (Data(s, f, q) /\ q[3] < Size(s, f))
        PROVE  Sound(u) /\ Others(s, u, f) /\ Kept(s, u) /\ SameSizes(s, u)
    <2>1. Links(s, u, q, b)
      BY <1>1, <1>3 DEF Links, Taken, Written, SameView
    <2> QED BY <1>1, <1>3, <2>1, LinkSound
  <1> QED BY <1>1, <1>2, <1>3 DEF Grown, Safe, Typed, Written

\* file_block_walk finds the place of block bno of the file, and may give the
\* file an indirect block for it.
LEMMA WalkIs ==
  ASSUME NEW s \in Saved, NEW f \in FilePlace, NEW bno \in Nat, NEW alloc \in BOOLEAN
  PROVE  LET w == file_block_walk(s, f, bno, alloc)
         IN  /\ Typed(s, w.s) /\ (~alloc => Frame(s, w.s))
             /\ ~Sound(s) \/ Name(s, f) # NoName => Grown(s, w.s, f)
             /\ w.v \in {0, E_NO_DISK, E_INVAL, E_NOT_FOUND} /\ (alloc => w.v # E_NOT_FOUND)
             /\ w.v = 0 => bno < NINDIRECT /\ Data(w.s, f, w.at) /\ w.at[3] = bno
  <1> DEFINE w == file_block_walk(s, f, bno, alloc)
             ind == File(s, f).indirect
  <1> SUFFICES /\ Typed(s, w.s) /\ (~alloc => Frame(s, w.s))
               /\ ~Sound(s) \/ Name(s, f) # NoName => Grown(s, w.s, f)
               /\ w.v \in {0, E_NO_DISK, E_INVAL, E_NOT_FOUND} /\ (alloc => w.v # E_NOT_FOUND)
               /\ w.v = 0 => bno < NINDIRECT /\ Data(w.s, f, w.at) /\ w.at[3] = bno
    OBVIOUS
  <1>0. ind \in Block /\ Ptr(s, Ind(f)) = ind
    BY PtrIs, IndPlace
  <1>e. E_NO_DISK = -1 /\ E_INVAL = -3 /\ E_NOT_FOUND = -2
    BY DEF E_NO_DISK, E_INVAL, E_NOT_FOUND
  <1>1. CASE bno < NDIRECT
    <2>1. w = [s |-> s, v |-> 0, at |-> <<f[1], f[2], bno>>]
      BY <1>1 DEF file_block_walk
    <2>2. bno \in -1..NDIRECT - 1 /\ bno < NINDIRECT
      BY <1>1, FsSizes
    <2>3. Data(s, f, <<f[1], f[2], bno>>)
      BY <2>2, PlaceOf DEF Data
    <2> HIDE DEF w
    <2> QED BY <2>1, <2>2, <2>3, GrownRefl, FrameRefl, <1>e DEF Grown, Safe
  <1>2. CASE bno >= NINDIRECT
    <2>1. w = [s |-> s, v |-> E_INVAL, at |-> <<0, 0, 0>>]
      BY <1>2, FsSizes DEF file_block_walk
    <2> HIDE DEF w
    <2> QED BY <2>1, GrownRefl, FrameRefl, <1>e DEF Grown, Safe
  <1>3. CASE bno >= NDIRECT /\ bno < NINDIRECT /\ ind # 0
    <2> DEFINE t == read_block(s, ind)
    <2>1. w = [s |-> t, v |-> 0, at |-> <<ind, -1, bno>>]
      BY <1>3, FsSizes DEF file_block_walk
    <2>2. Frame(s, t)
      BY <1>0, ReadFrame
    <2> HIDE DEF t, w, ind
    <2>3. Grown(s, t, f) /\ SameView(s, t)
      BY <2>2, FrameGrown
    <2>4. Ptr(t, Ind(f)) = ind
      BY <1>0, <2>3, IndPlace DEF SameView
    <2>5. <<ind, -1, bno>> \in Place
      <3>1. bno \in NDIRECT..NINDIRECT - 1
        BY <1>3, FsSizes
      <3> QED BY <1>0, <3>1, PlaceOf
    <2>6. Data(t, f, <<ind, -1, bno>>)
      BY <1>3, <2>4, <2>5 DEF Data
    <2> QED BY <1>3, <2>1, <2>2, <2>3, <2>6, <1>e DEF Grown, Safe
  <1>4. CASE bno >= NDIRECT /\ bno < NINDIRECT /\ ind = 0 /\ ~alloc
    <2>1. w = [s |-> s, v |-> E_NOT_FOUND, at |-> <<0, 0, 0>>]
      BY <1>4, FsSizes DEF file_block_walk
    <2> HIDE DEF w
    <2> QED BY <1>4, <2>1, GrownRefl, FrameRefl, <1>e DEF Grown, Safe
  <1>5. CASE bno >= NDIRECT /\ bno < NINDIRECT /\ ind = 0 /\ alloc
    <2> DEFINE a == alloc_block(s)
               t == Put(a.s, f, [File(a.s, f) EXCEPT !.indirect = a.v])
               u == AsPointers(t, a.v)
    <2>1. CASE a.s = s /\ a.v = E_NO_DISK
      <3>1. a.v < 0
        BY <2>1, <1>e
      <3>2. w = [s |-> a.s, v |-> a.v, at |-> <<0, 0, 0>>]
        BY <1>5, <3>1, FsSizes DEF file_block_walk
      <3> HIDE DEF w, a
      <3> QED BY <1>5, <2>1, <3>2, GrownRefl, <1>e DEF Grown, Safe
    <2>2. CASE a.v >= 0 /\ Taken(s, a.s, a.v)
      <3>1. w = [s |-> u, v |-> 0, at |-> <<a.v, -1, bno>>]
        <4>1. ~(a.v < 0) /\ ~(bno < NDIRECT) /\ ~(bno >= NINDIRECT)
          BY <1>5, <2>2, FsSizes DEF Taken, Block
        <4> QED BY <1>5, <4>1 DEF file_block_walk
      <3> HIDE DEF w, a
      <3>2. a.s \in Saved /\ a.v \in Block /\ a.v > 0
        BY <2>2 DEF Taken
      <3>3. Written(a.s, t, Ind(f), a.v)
        BY <3>2, PutIndirect
      <3> HIDE DEF t, ind
      <3>4. /\ t.status = s.status /\ Ptr(t, Ind(f)) = a.v /\ t \in Saved /\ Typed(s, t)
            /\ ~Sound(s) \/ Name(s, f) # NoName => Grown(s, t, f)
        <4>1. /\ Typed(s, t) /\ t.status = s.status /\ Ptr(t, Ind(f)) = a.v
              /\ (t.status = "ok" /\ Sound(s) =>
                    /\ Name(s, f) # NoName /\ Ptr(s, Ind(f)) = 0
                    /\ Ind(f) = Ind(f) \/ (Data(s, f, Ind(f)) /\ Ind(f)[3] < Size(s, f)))
                 => Grown(s, t, f)
          BY <2>2, <3>3, LinkGrown, IndPlace
        <4> QED BY <1>0, <1>5, <4>1 DEF Typed
      <3>5. Frame(t, u)
        BY <3>4, LookFrame
      <3> HIDE DEF u
      <3>6. Grown(t, u, f) /\ SameView(t, u)
        BY <3>4, <3>5, FrameGrown
      <3>7. Typed(s, u) /\ (~Sound(s) \/ Name(s, f) # NoName => Grown(s, u, f))
        BY <3>4, <3>6, GrownTrans DEF Grown, Safe, Typed
      <3>8. Ptr(u, Ind(f)) = a.v
        BY <3>4, <3>6, IndPlace DEF SameView
      <3>9. <<a.v, -1, bno>> \in Place
        <4>1. bno \in NDIRECT..NINDIRECT - 1
          BY <1>5, FsSizes
        <4> QED BY <3>2, <4>1, PlaceOf
      <3>10. Data(u, f, <<a.v, -1, bno>>)
        BY <3>2, <3>8, <3>9 DEF Data
      <3> QED BY <1>5, <3>1, <3>7, <3>10, <1>e
    <2> HIDE DEF a, w
    <2>3. (a.s = s /\ a.v = E_NO_DISK) \/ (a.v >= 0 /\ Taken(s, a.s, a.v))
      BY AllocTaken DEF a
    <2> QED BY <2>1, <2>2, <2>3
  <1> HIDE DEF w, ind
  <1> QED BY <1>1, <1>2, <1>3, <1>4, <1>5, FsSizes

\* Block b is block bno of the file f.
Holds(s, f, bno, b) ==
  b # 0 /\ bno < NINDIRECT /\ \E q \in Place : Data(s, f, q) /\ q[3] = bno /\ Ptr(s, q) = b

LEMMA HoldsView ==
  ASSUME NEW s, NEW t, SameView(s, t), NEW f \in FilePlace, NEW bno, NEW b, Holds(s, f, bno, b)
  PROVE  Holds(t, f, bno, b)
  <1>1. Ptr(t, Ind(f)) = Ptr(s, Ind(f))
    BY IndPlace DEF SameView
  <1>2. \A p : Data(t, f, p) <=> Data(s, f, p)
    BY <1>1 DEF Data
  <1> QED BY <1>2 DEF Holds, SameView

\* What a function that looks for block bno of f, or makes it, returns.
Got(s, f, bno, g) ==
  /\ Typed(s, g.s)
  /\ g.v \in Block \union {E_NO_DISK, E_INVAL, E_NOT_FOUND}
  /\ g.s.status = "ok" /\ g.v >= 0 => bno < NINDIRECT
  /\ g.s.status = "ok" /\ Sound(s) /\ bno < Size(s, f) =>
       Grown(s, g.s, f) /\ (g.v >= 0 => Holds(g.s, f, bno, g.v))

LEMMA GotFrame ==
  ASSUME NEW s, NEW f \in FilePlace, NEW bno, NEW g, Got(s, f, bno, g), NEW t, Frame(g.s, t)
  PROVE  Got(s, f, bno, Ret(t, g.v))
  <1>1. g.s \in Saved /\ (t.status = "ok" => g.s.status = "ok")
    BY DEF Got, Typed, Frame
  <1>2. Grown(g.s, t, f) /\ SameView(g.s, t)
    BY <1>1, FrameGrown
  <1>3. Typed(s, t) /\ (g.s.status = "ok" /\ Sound(s) /\ bno < Size(s, f) => Grown(s, t, f))
    BY <1>2, GrownTrans DEF Got, Grown, Safe, Typed
  <1>4. Ret(t, g.v).s = t /\ Ret(t, g.v).v = g.v
    BY DEF Ret
  <1> QED BY <1>1, <1>2, <1>3, <1>4, HoldsView DEF Got

LEMMA MapIs ==
  ASSUME NEW s \in Saved, NEW f \in FilePlace, NEW bno \in Nat, NEW alloc \in BOOLEAN
  PROVE  LET m == file_map_block(s, f, bno, alloc)
         IN  Got(s, f, bno, m) /\ (alloc => m.v # E_NOT_FOUND) /\ (~alloc => Frame(s, m.s))
  <1> DEFINE w == file_block_walk(s, f, bno, alloc)
             m == file_map_block(s, f, bno, alloc)
             P == Got(s, f, bno, m) /\ (alloc => m.v # E_NOT_FOUND) /\ (~alloc => Frame(s, m.s))
             d == Deref(w.s, w.at)
             a == alloc_block(w.s)
             u == Assign(a.s, w.at, a.v)
  <1> SUFFICES P
    OBVIOUS
  <1>e. E_NO_DISK = -1 /\ E_INVAL = -3 /\ E_NOT_FOUND = -2
    BY DEF E_NO_DISK, E_INVAL, E_NOT_FOUND
  <1>b. \A b \in Block : b >= 0 /\ b \in Int
    BY DEF Block
  <1>n. Sound(s) /\ bno < Size(s, f) => Name(s, f) # NoName
    <2>1. Size(s, f) \in Nat
      BY FileIs
    <2> QED BY <2>1 DEF Sound, UnnamedEmpty
  <1>1. /\ Typed(s, w.s) /\ (~alloc => Frame(s, w.s))
        /\ Sound(s) /\ bno < Size(s, f) => Grown(s, w.s, f)
        /\ w.v \in {0, E_NO_DISK, E_INVAL, E_NOT_FOUND} /\ (alloc => w.v # E_NOT_FOUND)
        /\ w.v = 0 => bno < NINDIRECT /\ Data(w.s, f, w.at) /\ w.at[3] = bno
    BY <1>n, WalkIs
  <1>2. w.s \in Saved /\ (w.s.status = "ok" => s.status = "ok")
    BY <1>1 DEF Typed
  <1>3. m = IF w.v < 0 \/ w.s.status # "ok" THEN Ret(w.s, w.v)
            ELSE IF d # 0 THEN Ret(w.s, d)
            ELSE IF ~alloc THEN Ret(w.s, E_NOT_FOUND)
            ELSE IF a.v < 0 THEN a ELSE Ret(u, a.v)
    BY DEF file_map_block
  <1> HIDE DEF m, w
  <1>4. CASE w.v < 0 \/ w.s.status # "ok"
    <2>1. m.s = w.s /\ m.v = w.v
      BY <1>3, <1>4 DEF Ret
    <2>2. m.v \in Block \union {E_NO_DISK, E_INVAL, E_NOT_FOUND}
      BY <1>1, <2>1, RootPlace
    <2>3. ~(m.v >= 0 /\ m.s.status = "ok")
      BY <1>1, <1>4, <2>1, <1>e
    <2> QED BY <1>1, <2>1, <2>2, <2>3 DEF Got
  <1>5. CASE w.v = 0 /\ w.s.status = "ok"
    <2>0. w.at \in Place /\ w.at[3] >= 0 /\ Data(w.s, f, w.at) /\ w.at[3] = bno /\ bno < NINDIRECT
      BY <1>1, <1>5 DEF Data
    <2>1. d = Ptr(w.s, w.at) /\ d \in Block
      BY <1>2, <2>0, AssignIs, PtrIs, RootPlace
    <2>2. CASE d # 0
      <3>1. m.s = w.s /\ m.v = d
        BY <1>3, <1>5, <2>2 DEF Ret
      <3>2. Holds(w.s, f, bno, d)
        BY <2>0, <2>1, <2>2 DEF Holds
      <3>3. m.v \in Block /\ m.v # E_NOT_FOUND
        BY <2>1, <3>1, <1>b, <1>e
      <3> HIDE DEF d
      <3> QED BY <1>1, <3>1, <3>2, <3>3, <2>0 DEF Got
    <2>3. CASE d = 0 /\ ~alloc
      <3>1. m.s = w.s /\ m.v = E_NOT_FOUND
        BY <1>3, <1>5, <2>3 DEF Ret
      <3>2. ~(m.v >= 0)
        BY <3>1, <1>e
      <3> QED BY <1>1, <2>3, <3>1, <3>2 DEF Got
    <2>4. CASE d = 0 /\ alloc /\ a.s = w.s /\ a.v = E_NO_DISK
      <3>1. m.s = a.s /\ m.v = a.v
        BY <1>3, <1>5, <2>4, <1>e
      <3> HIDE DEF a
      <3>2. ~(m.v >= 0) /\ m.v # E_NOT_FOUND /\ m.v = E_NO_DISK
        BY <2>4, <3>1, <1>e
      <3> QED BY <1>1, <2>4, <3>1, <3>2 DEF Got
    <2>5. CASE d = 0 /\ alloc /\ a.v >= 0 /\ Taken(w.s, a.s, a.v)
      <3>0. a.s \in Saved /\ a.v \in Block /\ a.v > 0 /\ a.v # 0
        BY <2>5 DEF Taken, Block
      <3>1. m.s = u /\ m.v = a.v
        BY <1>3, <1>5, <2>5, <3>0, <1>b DEF Ret
      <3> HIDE DEF a
      <3>2. Written(a.s, u, w.at, a.v)
        BY <2>0, <3>0, AssignIs
      <3> HIDE DEF u, d
      <3>3. /\ Typed(w.s, u) /\ u.status = w.s.status /\ Ptr(u, w.at) = a.v
            /\ (u.status = "ok" /\ Sound(w.s) =>
                  /\ Name(w.s, f) # NoName /\ Ptr(w.s, w.at) = 0
                  /\ w.at = Ind(f) \/ (Data(w.s, f, w.at) /\ w.at[3] < Size(w.s, f)))
               => Grown(w.s, u, f)
        BY <1>2, <2>0, <2>5, <3>2, LinkGrown
      <3>4. CASE Sound(s) /\ bno < Size(s, f)
        <4>1. s.status = "ok" /\ Name(s, f) # NoName /\ bno < Size(s, f)
          BY <1>2, <1>5, <1>n, <2>5, <3>4
        <4>2. Name(w.s, f) = Name(s, f) /\ Size(w.s, f) = Size(s, f)
          BY <1>1, <1>5, <3>4 DEF Grown, Kept, SameSizes
        <4>3. Grown(w.s, u, f)
          BY <2>0, <2>1, <2>5, <3>3, <4>1, <4>2
        <4>4. Grown(s, u, f)
          BY <1>1, <3>4, <4>3, GrownTrans
        <4>5. Holds(u, f, bno, a.v)
          <5>1. Sound(w.s)
            BY <1>1, <1>5, <3>4 DEF Grown, Safe
          <5>2. \A p \in Place : Ptr(w.s, p) # 0 => Ptr(u, p) = Ptr(w.s, p)
            BY <1>5, <3>3, <4>3, <5>1 DEF Grown, Kept
          <5>3. Data(u, f, w.at)
            BY <1>2, <2>0, <3>3, <5>2, KeptDir DEF Typed
          <5> QED BY <2>0, <3>0, <3>3, <5>3 DEF Holds
        <4>6. Typed(s, u)
          BY <4>4 DEF Grown, Safe
        <4> QED BY <2>5, <3>0, <3>1, <4>4, <4>5, <4>6, <1>e, <2>0 DEF Got
      <3>5. CASE ~(Sound(s) /\ bno < Size(s, f))
        <4>1. Typed(s, u)
          BY <1>1, <3>3 DEF Typed
        <4> QED BY <2>5, <3>0, <3>1, <3>5, <4>1, <1>e, <2>0 DEF Got
      <3> QED BY <3>4, <3>5
    <2>6. (a.s = w.s /\ a.v = E_NO_DISK) \/ (a.v >= 0 /\ Taken(w.s, a.s, a.v))
      BY <1>2, AllocTaken
    <2> HIDE DEF a, d, P
    <2> QED BY <2>2, <2>3, <2>4, <2>5, <2>6
  <1>6. w.v < 0 \/ w.v = 0
    BY <1>1, <1>e
  <1> HIDE DEF P
  <1> QED BY <1>4, <1>5, <1>6

LEMMA GetIs ==
  ASSUME NEW s \in Saved, NEW f \in FilePlace, NEW bno \in Nat
  PROVE  LET g == file_get_block(s, f, bno)
         IN  Got(s, f, bno, g) /\ g.v # E_NOT_FOUND
  <1> DEFINE m == file_map_block(s, f, bno, TRUE)
             g == file_get_block(s, f, bno)
             t == read_block(m.s, m.v)
  <1> SUFFICES Got(s, f, bno, g) /\ g.v # E_NOT_FOUND
    OBVIOUS
  <1>1. Got(s, f, bno, m) /\ m.v # E_NOT_FOUND
    BY MapIs
  <1>2. g = IF m.v < 0 \/ m.s.status # "ok" THEN m ELSE Ret(t, m.v)
    BY DEF file_get_block
  <1> HIDE DEF m, g
  <1>3. CASE m.v < 0 \/ m.s.status # "ok"
    BY <1>1, <1>2, <1>3
  <1>4. CASE ~(m.v < 0 \/ m.s.status # "ok")
    <2>1. m.v \in Block /\ m.s \in Saved
      <3>1. E_NO_DISK < 0 /\ E_INVAL < 0 /\ E_NOT_FOUND < 0
        BY DEF E_NO_DISK, E_INVAL, E_NOT_FOUND
      <3> QED BY <1>1, <1>4, <3>1 DEF Got, Typed
    <2>2. Frame(m.s, t)
      BY <2>1, ReadFrame
    <2> HIDE DEF t
    <2>3. Got(s, f, bno, Ret(t, m.v))
      BY <1>1, <2>2, GotFrame
    <2>4. g = Ret(t, m.v) /\ g.v = m.v
      BY <1>2, <1>4 DEF Ret
    <2> QED BY <1>1, <2>3, <2>4
  <1> QED BY <1>3, <1>4

LEMMA DirBlockIs ==
  ASSUME NEW s \in Saved, NEW f \in FilePlace, NEW bno \in Nat
  PROVE  LET g == DirBlock(s, f, bno)
         IN  Got(s, f, bno, g) /\ g.v # E_NOT_FOUND
  <1> DEFINE m == file_get_block(s, f, bno)
             g == DirBlock(s, f, bno)
             t == AsFiles(m.s, m.v)
  <1> SUFFICES Got(s, f, bno, g) /\ g.v # E_NOT_FOUND
    OBVIOUS
  <1>1. Got(s, f, bno, m) /\ m.v # E_NOT_FOUND
    BY GetIs
  <1>2. g = IF m.v < 0 \/ m.s.status # "ok" THEN m ELSE Ret(t, m.v)
    BY DEF DirBlock
  <1> HIDE DEF m, g
  <1>3. CASE m.v < 0 \/ m.s.status # "ok"
    BY <1>1, <1>2, <1>3
  <1>4. CASE ~(m.v < 0 \/ m.s.status # "ok")
    <2>1. m.s \in Saved
      BY <1>1 DEF Got, Typed
    <2>2. Frame(m.s, t)
      BY <2>1, LookFrame
    <2> HIDE DEF t
    <2>3. Got(s, f, bno, Ret(t, m.v))
      BY <1>1, <2>2, GotFrame
    <2>4. g = Ret(t, m.v) /\ g.v = m.v
      BY <1>2, <1>4 DEF Ret
    <2> QED BY <1>1, <2>3, <2>4
  <1> QED BY <1>3, <1>4

\* file_dirty and file_flush look for blocks only.
LEMMA LookUp ==
  ASSUME NEW s \in Saved, NEW f \in FilePlace, NEW bno \in Nat
  PROVE  LET m == file_map_block(s, f, bno, FALSE)
         IN  Frame(s, m.s) /\ m.s \in Saved /\ (m.v >= 0 => m.v \in Block)
             /\ (m.v < 0 <=> ~(m.v >= 0))
  <1> DEFINE m == file_map_block(s, f, bno, FALSE)
  <1>1. Got(s, f, bno, m) /\ Frame(s, m.s)
    BY MapIs
  <1>2. E_NO_DISK = -1 /\ E_INVAL = -3 /\ E_NOT_FOUND = -2
    BY DEF E_NO_DISK, E_INVAL, E_NOT_FOUND
  <1>3. m.v \in Block \union {E_NO_DISK, E_INVAL, E_NOT_FOUND} /\ m.s \in Saved
    BY <1>1 DEF Got, Frame
  <1> HIDE DEF m
  <1>4. (m.v >= 0 => m.v \in Block) /\ (m.v < 0 <=> ~(m.v >= 0))
    BY <1>2, <1>3 DEF Block
  <1> QED BY <1>1, <1>3, <1>4 DEF m

LEMMA DirtyIs ==
  ASSUME NEW s \in Saved, NEW f \in FilePlace, NEW bno \in Nat
  PROVE  Frame(s, file_dirty(s, f, bno).s)
  <1> DEFINE m == file_map_block(s, f, bno, FALSE)
  <1>1. /\ Frame(s, m.s) /\ m.s \in Saved /\ (m.v >= 0 => m.v \in Block)
        /\ (m.v < 0 <=> ~(m.v >= 0))
    BY LookUp
  <1>2. file_dirty(s, f, bno) = IF m.v < 0 THEN m ELSE dirty_block(m.s, m.v)
    BY DEF file_dirty
  <1> HIDE DEF m
  <1>3. CASE m.v < 0
    BY <1>1, <1>2, <1>3
  <1>4. CASE ~(m.v < 0)
    <2>1. Frame(m.s, dirty_block(m.s, m.v).s)
      BY <1>1, <1>4, DirtyFrame
    <2>2. Frame(s, dirty_block(m.s, m.v).s)
      BY <1>1, <2>1, FrameTrans
    <2> QED BY <1>2, <1>4, <2>2
  <1> QED BY <1>3, <1>4

LEMMA FlushBlockIs ==
  ASSUME NEW s \in Saved, NEW f \in FilePlace, NEW bno \in Nat
  PROVE  Frame(s, FlushBlock(s, f, bno))
  <1> DEFINE m == file_map_block(s, f, bno, FALSE)
  <1>1. Frame(s, m.s) /\ m.s \in Saved /\ (m.v >= 0 => m.v \in Block)
    BY LookUp
  <1>2. FlushBlock(s, f, bno) = IF m.v >= 0 /\ m.v \in m.s.dirty THEN write_block(m.s, m.v) ELSE m.s
    BY DEF FlushBlock
  <1> HIDE DEF m
  <1>3. CASE m.v >= 0 /\ m.v \in m.s.dirty
    <2>1. Frame(m.s, write_block(m.s, m.v))
      BY <1>1, <1>3, WriteFrame
    <2>2. Frame(s, write_block(m.s, m.v))
      BY <1>1, <2>1, FrameTrans
    <2> QED BY <1>2, <1>3, <2>2
  <1>4. CASE ~(m.v >= 0 /\ m.v \in m.s.dirty)
    BY <1>1, <1>2, <1>4
  <1> QED BY <1>3, <1>4

LEMMA SyncBlockIs ==
  ASSUME NEW s \in Saved, NEW b \in Block
  PROVE  Frame(s, SyncBlock(s, b))
  BY WriteFrame, FrameRefl DEF SyncBlock

-----------------------------------------------------------------------------
(* The loops: the states that a fold goes through, one after the other.     *)

LEMMA FrameSaved == ASSUME NEW s, NEW t, Frame(s, t) PROVE t \in Saved
  BY DEF Frame

\* file_flush, block after block.
LEMMA FlushFold ==
  ASSUME NEW s \in Saved, NEW f \in FilePlace
  PROVE  \E r \in [0..Size(s, f) -> Saved] :
           /\ r[0] = s /\ r[Size(s, f)] = file_flush(s, f)
           /\ \A k \in 0..Size(s, f) - 1 : r[k + 1] = FlushBlock(r[k], f, k)
  <1> DEFINE n == Size(s, f)
             T == Saved
             base == s
             seq == Range0(n)
             Iter(it) == [S \in SUBSET (DOMAIN seq) |->
                            IF S = {} THEN base ELSE FlushBlock(it[S \ {Max(S)}], f, seq[Max(S)])]
             c == CHOOSE it : it = Iter(it)
  <1>1. file_flush(s, f) = c[DOMAIN seq]
    BY Zenon DEF file_flush, Size, FoldLeft, MapThenFoldSet
  <1>2. n \in Nat /\ base \in T
    BY FileIs
  <1> HIDE DEF n, base
  <1>3. DOMAIN seq = 1..n /\ \A k \in 1..n : seq[k] = k - 1
    BY DEF Range0
  <1> HIDE DEF seq
  <1>4. \A x \in T : \A k \in 1..n : FlushBlock(x, f, seq[k]) \in T
    <2>1. \A k \in 1..n : seq[k] \in Nat
      BY <1>2, <1>3
    <2> HIDE DEF T
    <2> QED BY <2>1, FlushBlockIs, FrameSaved DEF T
  <1>5. \E it : it = Iter(it)
    <2> DEFINE g == [p \in T \X (1..n) |-> FlushBlock(p[1], f, seq[p[2]])]
    <2>1. g \in [T \X (1..n) -> T]
      BY <1>4
    <2> HIDE DEF T
    <2>2. \A x \in T : \A k \in 1..n : g[<<x, k>>] = FlushBlock(x, f, seq[k])
      OBVIOUS
    <2> HIDE DEF g
    <2>3. PICK it : FoldBy(n, T, base, g, it)
      BY <1>2, <2>1, FoldExists
    <2>s. /\ it \in [SUBSET (1..n) -> T]
          /\ \A S \in SUBSET (1..n) :
               it[S] = IF S = {} THEN base ELSE g[<<it[S \ {Max(S)}], Max(S)>>]
      BY <2>3 DEF FoldBy
    <2>4. ASSUME NEW S \in SUBSET (1..n)
          PROVE  it[S] = IF S = {} THEN base ELSE FlushBlock(it[S \ {Max(S)}], f, seq[Max(S)])
      <3>1. CASE S = {}
        BY <2>s, <3>1
      <3>2. CASE S # {}
        <4>1. Max(S) \in 1..n
          BY <1>2, <3>2, MaxIn
        <4>2. S \ {Max(S)} \in SUBSET (1..n)
          BY Zenon
        <4>3. it[S \ {Max(S)}] \in T
          BY <2>s, <4>2
        <4> QED BY <2>2, <2>s, <3>2, <4>1, <4>3
      <3> QED BY <3>1, <3>2
    <2>5. it = [S \in SUBSET (1..n) |-> IF S = {} THEN base ELSE FlushBlock(it[S \ {Max(S)}], f, seq[Max(S)])]
      BY <2>s, <2>4
    <2>6. it = Iter(it)
      BY <1>3, <2>5, Zenon
    <2> QED BY <2>6
  <1>6. c = Iter(c)
    BY <1>5
  <1> HIDE DEF c, T
  <1>7. c[1..0] = base /\ \A k \in 0..n - 1 : c[1..k + 1] = FlushBlock(c[1..k], f, k)
    <2>1. ASSUME NEW S \in SUBSET (1..n)
          PROVE  c[S] = IF S = {} THEN base ELSE FlushBlock(c[S \ {Max(S)}], f, seq[Max(S)])
      BY <1>3, <1>6
    <2>2. c[1..0] = base
      <3>1. 1..0 \in SUBSET (1..n) /\ 1..0 = {}
        OBVIOUS
      <3> QED BY <2>1, <3>1
    <2>3. ASSUME NEW k \in 0..n - 1 PROVE c[1..k + 1] = FlushBlock(c[1..k], f, k)
      <3>1. k + 1 \in Nat /\ k + 1 > 0 /\ k + 1 \in 1..n /\ (k + 1) - 1 = k
        BY <1>2
      <3>2. Max(1..k + 1) = k + 1 /\ (1..k + 1) \ {k + 1} = 1..k
        BY <3>1, MaxTo
      <3>3. 1..k + 1 \in SUBSET (1..n) /\ 1..k + 1 # {}
        <4>1. \A y \in 1..k + 1 : y \in 1..n
          BY <1>2, <3>1
        <4>2. k + 1 \in 1..k + 1
          BY <3>1
        <4> QED BY <4>1, <4>2
      <3>4. seq[k + 1] = k
        BY <1>3, <3>1
      <3>5. c[1..k + 1] = FlushBlock(c[(1..k + 1) \ {Max(1..k + 1)}], f, seq[Max(1..k + 1)])
        BY <2>1, <3>3
      <3> QED BY <3>2, <3>4, <3>5
    <2> QED BY <2>2, <2>3
  <1>8. 0..n \subseteq {k \in 0..n : c[1..k] \in T}
    <2> DEFINE Z == {k \in 0..n : c[1..k] \in T}
    <2>1. 0 \in Z
      BY <1>2, <1>7
    <2>2. ASSUME NEW k \in 0..n - 1, k \in Z PROVE k + 1 \in Z
      <3>1. k + 1 \in 1..n /\ k + 1 \in 0..n /\ (k + 1) - 1 = k
        BY <1>2
      <3>2. seq[k + 1] = k
        BY <1>3, <3>1
      <3>3. c[1..k] \in T
        BY <2>2
      <3>4. FlushBlock(c[1..k], f, seq[k + 1]) \in T
        BY <1>4, <3>1, <3>3
      <3>5. c[1..k + 1] \in T
        BY <1>7, <3>2, <3>4
      <3> QED BY <3>1, <3>5
    <2> HIDE DEF Z
    <2>3. 0..n \subseteq Z
      BY <1>2, <2>1, <2>2, UpTo
    <2> QED BY <2>3 DEF Z
  <1> DEFINE r == [k \in 0..n |-> c[1..k]]
  <1>9. r \in [0..n -> T]
    BY <1>8
  <1>10. r[0] = base /\ r[n] = file_flush(s, f) /\ \A k \in 0..n - 1 : r[k + 1] = FlushBlock(r[k], f, k)
    <2>1. \A k \in 0..n : r[k] = c[1..k]
      OBVIOUS
    <2>2. 0 \in 0..n /\ n \in 0..n
      BY <1>2
    <2>3. r[0] = base /\ r[n] = file_flush(s, f)
      BY <1>1, <1>3, <1>7, <2>1, <2>2
    <2>4. ASSUME NEW k \in 0..n - 1 PROVE r[k + 1] = FlushBlock(r[k], f, k)
      <3>1. k \in 0..n /\ k + 1 \in 0..n
        BY <1>2
      <3> HIDE DEF r
      <3> QED BY <1>7, <2>1, <3>1
    <2> QED BY <2>3, <2>4
  <1> HIDE DEF r
  <1> QED BY <1>9, <1>10 DEF n, T, base

LEMMA FlushIs ==
  ASSUME NEW s \in Saved, NEW f \in FilePlace
  PROVE  Frame(s, file_flush(s, f))
  <1>1. Size(s, f) \in Nat
    BY FileIs
  <1> DEFINE n == Size(s, f)
  <1>2. PICK r \in [0..n -> Saved] :
          /\ r[0] = s /\ r[n] = file_flush(s, f)
          /\ \A k \in 0..n - 1 : r[k + 1] = FlushBlock(r[k], f, k)
    BY FlushFold
  <1> HIDE DEF n
  <1> DEFINE Z == {k \in 0..n : Frame(s, r[k])}
  <1>3. 0 \in Z
    BY <1>1, <1>2, FrameRefl DEF n
  <1>4. ASSUME NEW k \in 0..n - 1, k \in Z PROVE k + 1 \in Z
    <2>1. k \in 0..n /\ k + 1 \in 0..n /\ k \in Nat
      BY <1>1 DEF n
    <2>2. r[k] \in Saved /\ Frame(s, r[k])
      BY <1>4, <2>1
    <2>3. Frame(r[k], r[k + 1])
      BY <1>2, <2>1, <2>2, FlushBlockIs
    <2>4. Frame(s, r[k + 1])
      BY <2>2, <2>3, FrameTrans
    <2> QED BY <2>1, <2>4
  <1> HIDE DEF Z
  <1>5. 0..n \subseteq Z
    BY <1>1, <1>3, <1>4, UpTo DEF n
  <1>6. n \in Z
    BY <1>1, <1>5 DEF n
  <1> QED BY <1>2, <1>6 DEF Z

\* fs_sync, block after block.
LEMMA SyncFold ==
  ASSUME NEW s \in Saved
  PROVE  \E r \in [0..NBLOCK -> Saved] :
           /\ r[0] = s /\ r[NBLOCK] = fs_sync(s)
           /\ \A k \in 0..NBLOCK - 1 : r[k + 1] = SyncBlock(r[k], k)
  <1> DEFINE n == NBLOCK
             T == Saved
             base == s
             seq == Range0(n)
             Iter(it) == [S \in SUBSET (DOMAIN seq) |->
                            IF S = {} THEN base ELSE SyncBlock(it[S \ {Max(S)}], seq[Max(S)])]
             c == CHOOSE it : it = Iter(it)
  <1>1. fs_sync(s) = c[DOMAIN seq]
    BY Zenon DEF fs_sync, FoldLeft, MapThenFoldSet
  <1>2. n \in Nat /\ base \in T
    BY FsSizes
  <1> HIDE DEF n, base
  <1>3. DOMAIN seq = 1..n /\ \A k \in 1..n : seq[k] = k - 1
    BY DEF Range0
  <1> HIDE DEF seq
  <1>4. \A x \in T : \A k \in 1..n : SyncBlock(x, seq[k]) \in T
    <2>1. \A k \in 1..n : seq[k] \in Block
      BY <1>2, <1>3 DEF Block, n
    <2> HIDE DEF T
    <2> QED BY <2>1, SyncBlockIs, FrameSaved DEF T
  <1>5. \E it : it = Iter(it)
    <2> DEFINE g == [p \in T \X (1..n) |-> SyncBlock(p[1], seq[p[2]])]
    <2>1. g \in [T \X (1..n) -> T]
      BY <1>4
    <2> HIDE DEF T
    <2>2. \A x \in T : \A k \in 1..n : g[<<x, k>>] = SyncBlock(x, seq[k])
      OBVIOUS
    <2> HIDE DEF g
    <2>3. PICK it : FoldBy(n, T, base, g, it)
      BY <1>2, <2>1, FoldExists
    <2>s. /\ it \in [SUBSET (1..n) -> T]
          /\ \A S \in SUBSET (1..n) :
               it[S] = IF S = {} THEN base ELSE g[<<it[S \ {Max(S)}], Max(S)>>]
      BY <2>3 DEF FoldBy
    <2>4. ASSUME NEW S \in SUBSET (1..n)
          PROVE  it[S] = IF S = {} THEN base ELSE SyncBlock(it[S \ {Max(S)}], seq[Max(S)])
      <3>1. CASE S = {}
        BY <2>s, <3>1
      <3>2. CASE S # {}
        <4>1. Max(S) \in 1..n
          BY <1>2, <3>2, MaxIn
        <4>2. S \ {Max(S)} \in SUBSET (1..n)
          BY Zenon
        <4>3. it[S \ {Max(S)}] \in T
          BY <2>s, <4>2
        <4> QED BY <2>2, <2>s, <3>2, <4>1, <4>3
      <3> QED BY <3>1, <3>2
    <2>5. it = [S \in SUBSET (1..n) |-> IF S = {} THEN base ELSE SyncBlock(it[S \ {Max(S)}], seq[Max(S)])]
      BY <2>s, <2>4
    <2>6. it = Iter(it)
      BY <1>3, <2>5, Zenon
    <2> QED BY <2>6
  <1>6. c = Iter(c)
    BY <1>5
  <1> HIDE DEF c, T
  <1>7. c[1..0] = base /\ \A k \in 0..n - 1 : c[1..k + 1] = SyncBlock(c[1..k], k)
    <2>1. ASSUME NEW S \in SUBSET (1..n)
          PROVE  c[S] = IF S = {} THEN base ELSE SyncBlock(c[S \ {Max(S)}], seq[Max(S)])
      BY <1>3, <1>6
    <2>2. c[1..0] = base
      <3>1. 1..0 \in SUBSET (1..n) /\ 1..0 = {}
        OBVIOUS
      <3> QED BY <2>1, <3>1
    <2>3. ASSUME NEW k \in 0..n - 1 PROVE c[1..k + 1] = SyncBlock(c[1..k], k)
      <3>1. k + 1 \in Nat /\ k + 1 > 0 /\ k + 1 \in 1..n /\ (k + 1) - 1 = k
        BY <1>2
      <3>2. Max(1..k + 1) = k + 1 /\ (1..k + 1) \ {k + 1} = 1..k
        BY <3>1, MaxTo
      <3>3. 1..k + 1 \in SUBSET (1..n) /\ 1..k + 1 # {}
        <4>1. \A y \in 1..k + 1 : y \in 1..n
          BY <1>2, <3>1
        <4>2. k + 1 \in 1..k + 1
          BY <3>1
        <4> QED BY <4>1, <4>2
      <3>4. seq[k + 1] = k
        BY <1>3, <3>1
      <3>5. c[1..k + 1] = SyncBlock(c[(1..k + 1) \ {Max(1..k + 1)}], seq[Max(1..k + 1)])
        BY <2>1, <3>3
      <3> QED BY <3>2, <3>4, <3>5
    <2> QED BY <2>2, <2>3
  <1>8. 0..n \subseteq {k \in 0..n : c[1..k] \in T}
    <2> DEFINE Z == {k \in 0..n : c[1..k] \in T}
    <2>1. 0 \in Z
      BY <1>2, <1>7
    <2>2. ASSUME NEW k \in 0..n - 1, k \in Z PROVE k + 1 \in Z
      <3>1. k + 1 \in 1..n /\ k + 1 \in 0..n /\ (k + 1) - 1 = k
        BY <1>2
      <3>2. seq[k + 1] = k
        BY <1>3, <3>1
      <3>3. c[1..k] \in T
        BY <2>2
      <3>4. SyncBlock(c[1..k], seq[k + 1]) \in T
        BY <1>4, <3>1, <3>3
      <3>5. c[1..k + 1] \in T
        BY <1>7, <3>2, <3>4
      <3> QED BY <3>1, <3>5
    <2> HIDE DEF Z
    <2>3. 0..n \subseteq Z
      BY <1>2, <2>1, <2>2, UpTo
    <2> QED BY <2>3 DEF Z
  <1> DEFINE r == [k \in 0..n |-> c[1..k]]
  <1>9. r \in [0..n -> T]
    BY <1>8
  <1>10. r[0] = base /\ r[n] = fs_sync(s) /\ \A k \in 0..n - 1 : r[k + 1] = SyncBlock(r[k], k)
    <2>1. \A k \in 0..n : r[k] = c[1..k]
      OBVIOUS
    <2>2. 0 \in 0..n /\ n \in 0..n
      BY <1>2
    <2>3. r[0] = base /\ r[n] = fs_sync(s)
      BY <1>1, <1>3, <1>7, <2>1, <2>2
    <2>4. ASSUME NEW k \in 0..n - 1 PROVE r[k + 1] = SyncBlock(r[k], k)
      <3>1. k \in 0..n /\ k + 1 \in 0..n
        BY <1>2
      <3> HIDE DEF r
      <3> QED BY <1>7, <2>1, <3>1
    <2> QED BY <2>3, <2>4
  <1> HIDE DEF r
  <1> QED BY <1>9, <1>10 DEF n, T, base

LEMMA SyncIs ==
  ASSUME NEW s \in Saved
  PROVE  Frame(s, fs_sync(s))
  <1> DEFINE n == NBLOCK
  <1>1. n \in Nat /\ Block = 0..n - 1
    BY FsSizes DEF Block
  <1>2. PICK r \in [0..n -> Saved] :
          r[0] = s /\ r[n] = fs_sync(s) /\ \A k \in 0..n - 1 : r[k + 1] = SyncBlock(r[k], k)
    BY SyncFold
  <1> HIDE DEF n
  <1> DEFINE Z == {k \in 0..n : Frame(s, r[k])}
  <1>3. 0 \in Z
    BY <1>1, <1>2, FrameRefl
  <1>4. ASSUME NEW k \in 0..n - 1, k \in Z PROVE k + 1 \in Z
    <2>1. k \in 0..n /\ k + 1 \in 0..n /\ k \in Block
      BY <1>1
    <2>2. r[k] \in Saved /\ Frame(s, r[k])
      BY <1>4, <2>1
    <2>3. Frame(r[k], r[k + 1])
      BY <1>2, <2>1, <2>2, SyncBlockIs
    <2>4. Frame(s, r[k + 1])
      BY <2>2, <2>3, FrameTrans
    <2> QED BY <2>1, <2>4
  <1> HIDE DEF Z
  <1>5. 0..n \subseteq Z
    BY <1>1, <1>3, <1>4, UpTo
  <1>6. n \in Z
    BY <1>1, <1>5
  <1> QED BY <1>2, <1>6 DEF Z

-----------------------------------------------------------------------------
(* Looking for a name in a directory. *)

\* What dir_lookup returns, whatever it finds.
ScanResult == [s : Saved, v : {0, E_NO_DISK, E_INVAL, E_NOT_FOUND}, f : FilePlace]

\* Block i of the directory is there and has no File with this name.
NotInBlock(s, dir, name, i) ==
  \E b \in Block : Holds(s, dir, i, b) /\ \A j \in Slot : Name(s, <<b, j>>) # name

Hit(s, dir, name, f) == InDir(s, dir, f) /\ Name(s, f) = name

LEMMA ScanBlockIs ==
  ASSUME NEW r \in ScanResult, NEW dir \in FilePlace, NEW name, NEW i \in Nat
  PROVE  LET x == ScanBlock(r, dir, name, i)
         IN  /\ x \in ScanResult /\ Typed(r.s, x.s)
             /\ r.v # E_NOT_FOUND => x = r
             /\ x.s.status = "ok" /\ r.v = E_NOT_FOUND /\ x.v = E_NOT_FOUND => i < NINDIRECT
             /\ r.v = E_NOT_FOUND /\ x.s.status = "ok" /\ Sound(r.s) /\ i < Size(r.s, dir) =>
                  /\ Grown(r.s, x.s, dir)
                  /\ x.v = E_NOT_FOUND => NotInBlock(x.s, dir, name, i)
                  /\ x.v = 0 => Hit(x.s, dir, name, x.f)
  <1> DEFINE x == ScanBlock(r, dir, name, i)
             g == DirBlock(r.s, dir, i)
             hits == {j \in Slot : g.s.blk[g.v].files[j].name = name}
             P == /\ x \in ScanResult /\ Typed(r.s, x.s)
                  /\ r.v # E_NOT_FOUND => x = r
                  /\ x.s.status = "ok" /\ r.v = E_NOT_FOUND /\ x.v = E_NOT_FOUND => i < NINDIRECT
                  /\ r.v = E_NOT_FOUND /\ x.s.status = "ok" /\ Sound(r.s) /\ i < Size(r.s, dir) =>
                       /\ Grown(r.s, x.s, dir)
                       /\ x.v = E_NOT_FOUND => NotInBlock(x.s, dir, name, i)
                       /\ x.v = 0 => Hit(x.s, dir, name, x.f)
  <1> SUFFICES P
    OBVIOUS
  <1>e. E_NO_DISK = -1 /\ E_INVAL = -3 /\ E_NOT_FOUND = -2
    BY DEF E_NO_DISK, E_INVAL, E_NOT_FOUND
  <1>0. r.s \in Saved /\ r.v \in {0, E_NO_DISK, E_INVAL, E_NOT_FOUND} /\ r.f \in FilePlace
    BY DEF ScanResult
  <1>1. Got(r.s, dir, i, g) /\ g.v # E_NOT_FOUND
    BY <1>0, DirBlockIs
  <1>2. g.v \in Block \union {E_NO_DISK, E_INVAL} /\ Typed(r.s, g.s) /\ g.s \in Saved
    BY <1>1 DEF Got, Typed
  <1>3. x = IF r.v # E_NOT_FOUND \/ r.s.status # "ok" THEN r
            ELSE IF g.v < 0 THEN [s |-> g.s, v |-> g.v, f |-> NIL]
            ELSE IF hits = {} THEN [s |-> g.s, v |-> E_NOT_FOUND, f |-> NIL]
            ELSE [s |-> g.s, v |-> 0, f |-> <<g.v, Lowest(hits)>>]
    BY DEF ScanBlock
  <1> HIDE DEF x, g
  <1>4. CASE r.v # E_NOT_FOUND \/ r.s.status # "ok"
    <2>1. x = r
      BY <1>3, <1>4
    <2>2. Typed(r.s, r.s)
      BY <1>0 DEF Typed
    <2> QED BY <1>4, <2>1, <2>2
  <1>5. CASE ~(r.v # E_NOT_FOUND \/ r.s.status # "ok") /\ g.v < 0
    <2>1. x = [s |-> g.s, v |-> g.v, f |-> NIL]
      BY <1>3, <1>5
    <2>2. g.v \in {E_NO_DISK, E_INVAL} /\ g.v # 0
      BY <1>2, <1>5, <1>e DEF Block
    <2>3. x \in ScanResult /\ x.s = g.s /\ x.v = g.v
      BY <1>2, <2>1, <2>2, RootPlace DEF ScanResult
    <2> QED BY <1>1, <1>2, <1>5, <2>2, <2>3 DEF Got
  <1>6. CASE ~(r.v # E_NOT_FOUND \/ r.s.status # "ok") /\ ~(g.v < 0)
    <2>0. g.v \in Block /\ g.v >= 0
      BY <1>2, <1>6, <1>e DEF Block
    <2>1. \A j \in Slot : <<g.v, j>> \in FilePlace /\ Name(g.s, <<g.v, j>>) = g.s.blk[g.v].files[j].name
      BY <2>0 DEF FilePlace, Name, File
    <2>2. CASE hits = {}
      <3>1. x = [s |-> g.s, v |-> E_NOT_FOUND, f |-> NIL]
        BY <1>3, <1>6, <2>2
      <3>2. x \in ScanResult /\ x.s = g.s /\ x.v = E_NOT_FOUND /\ x.v # 0
        BY <1>2, <3>1, <1>e, RootPlace DEF ScanResult
      <3>3. \A j \in Slot : Name(g.s, <<g.v, j>>) # name
        BY <2>1, <2>2
      <3>4. Holds(g.s, dir, i, g.v) => NotInBlock(g.s, dir, name, i)
        BY <2>0, <3>3 DEF NotInBlock, Holds
      <3> QED BY <1>1, <1>2, <1>6, <2>0, <3>2, <3>4 DEF Got
    <2>3. CASE hits # {}
      <3>0. Lowest(hits) \in hits
        <4>1. hits \in SUBSET Nat
          BY DEF Slot
        <4> HIDE DEF hits
        <4> QED BY <2>3, <4>1, LowestIs
      <3>1. x = [s |-> g.s, v |-> 0, f |-> <<g.v, Lowest(hits)>>]
        BY <1>3, <1>6, <2>3
      <3>2. <<g.v, Lowest(hits)>> \in FilePlace /\ Name(g.s, <<g.v, Lowest(hits)>>) = name
        BY <2>1, <3>0
      <3> HIDE DEF hits
      <3>3. /\ x \in ScanResult /\ x.s = g.s /\ x.v = 0 /\ x.v # E_NOT_FOUND
            /\ x.f = <<g.v, Lowest(hits)>>
        BY <1>2, <3>1, <3>2, <1>e DEF ScanResult
      <3>4. Holds(g.s, dir, i, g.v) => Hit(g.s, dir, name, x.f)
        BY <3>2, <3>3 DEF Holds, Hit, InDir
      <3> QED BY <1>1, <1>2, <1>6, <2>0, <3>3, <3>4 DEF Got
    <2> HIDE DEF P, hits
    <2> QED BY <2>2, <2>3
  <1> HIDE DEF P
  <1> QED BY <1>4, <1>5, <1>6

\* dir_lookup, block after block.
LEMMA ScanFold ==
  ASSUME NEW s \in Saved, NEW dir \in FilePlace, NEW name
  PROVE  \E r \in [0..Size(s, dir) -> ScanResult] :
           /\ r[0] = [s |-> s, v |-> E_NOT_FOUND, f |-> NIL] /\ r[Size(s, dir)] = dir_scan(s, dir, name)
           /\ \A k \in 0..Size(s, dir) - 1 : r[k + 1] = ScanBlock(r[k], dir, name, k)
  <1> DEFINE n == Size(s, dir)
             T == ScanResult
             base == [s |-> s, v |-> E_NOT_FOUND, f |-> NIL]
             seq == Range0(n)
             Iter(it) == [S \in SUBSET (DOMAIN seq) |->
                            IF S = {} THEN base ELSE ScanBlock(it[S \ {Max(S)}], dir, name, seq[Max(S)])]
             c == CHOOSE it : it = Iter(it)
  <1>1. dir_scan(s, dir, name) = c[DOMAIN seq]
    BY Zenon DEF dir_scan, Size, FoldLeft, MapThenFoldSet
  <1>2. n \in Nat /\ base \in T
    BY FileIs, RootPlace DEF ScanResult
  <1> HIDE DEF n, base
  <1>3. DOMAIN seq = 1..n /\ \A k \in 1..n : seq[k] = k - 1
    BY DEF Range0
  <1> HIDE DEF seq
  <1>4. \A x \in T : \A k \in 1..n : ScanBlock(x, dir, name, seq[k]) \in T
    <2>1. \A k \in 1..n : seq[k] \in Nat
      BY <1>2, <1>3
    <2> HIDE DEF T
    <2> QED BY <2>1, ScanBlockIs DEF T
  <1>5. \E it : it = Iter(it)
    <2> DEFINE g == [p \in T \X (1..n) |-> ScanBlock(p[1], dir, name, seq[p[2]])]
    <2>1. g \in [T \X (1..n) -> T]
      BY <1>4
    <2> HIDE DEF T
    <2>2. \A x \in T : \A k \in 1..n : g[<<x, k>>] = ScanBlock(x, dir, name, seq[k])
      OBVIOUS
    <2> HIDE DEF g
    <2>3. PICK it : FoldBy(n, T, base, g, it)
      BY <1>2, <2>1, FoldExists
    <2>s. /\ it \in [SUBSET (1..n) -> T]
          /\ \A S \in SUBSET (1..n) :
               it[S] = IF S = {} THEN base ELSE g[<<it[S \ {Max(S)}], Max(S)>>]
      BY <2>3 DEF FoldBy
    <2>4. ASSUME NEW S \in SUBSET (1..n)
          PROVE  it[S] = IF S = {} THEN base ELSE ScanBlock(it[S \ {Max(S)}], dir, name, seq[Max(S)])
      <3>1. CASE S = {}
        BY <2>s, <3>1
      <3>2. CASE S # {}
        <4>1. Max(S) \in 1..n
          BY <1>2, <3>2, MaxIn
        <4>2. S \ {Max(S)} \in SUBSET (1..n)
          BY Zenon
        <4>3. it[S \ {Max(S)}] \in T
          BY <2>s, <4>2
        <4> QED BY <2>2, <2>s, <3>2, <4>1, <4>3
      <3> QED BY <3>1, <3>2
    <2>5. it = [S \in SUBSET (1..n) |-> IF S = {} THEN base ELSE ScanBlock(it[S \ {Max(S)}], dir, name, seq[Max(S)])]
      BY <2>s, <2>4
    <2>6. it = Iter(it)
      BY <1>3, <2>5, Zenon
    <2> QED BY <2>6
  <1>6. c = Iter(c)
    BY <1>5
  <1> HIDE DEF c, T
  <1>7. c[1..0] = base /\ \A k \in 0..n - 1 : c[1..k + 1] = ScanBlock(c[1..k], dir, name, k)
    <2>1. ASSUME NEW S \in SUBSET (1..n)
          PROVE  c[S] = IF S = {} THEN base ELSE ScanBlock(c[S \ {Max(S)}], dir, name, seq[Max(S)])
      BY <1>3, <1>6
    <2>2. c[1..0] = base
      <3>1. 1..0 \in SUBSET (1..n) /\ 1..0 = {}
        OBVIOUS
      <3> QED BY <2>1, <3>1
    <2>3. ASSUME NEW k \in 0..n - 1 PROVE c[1..k + 1] = ScanBlock(c[1..k], dir, name, k)
      <3>1. k + 1 \in Nat /\ k + 1 > 0 /\ k + 1 \in 1..n /\ (k + 1) - 1 = k
        BY <1>2
      <3>2. Max(1..k + 1) = k + 1 /\ (1..k + 1) \ {k + 1} = 1..k
        BY <3>1, MaxTo
      <3>3. 1..k + 1 \in SUBSET (1..n) /\ 1..k + 1 # {}
        <4>1. \A y \in 1..k + 1 : y \in 1..n
          BY <1>2, <3>1
        <4>2. k + 1 \in 1..k + 1
          BY <3>1
        <4> QED BY <4>1, <4>2
      <3>4. seq[k + 1] = k
        BY <1>3, <3>1
      <3>5. c[1..k + 1] = ScanBlock(c[(1..k + 1) \ {Max(1..k + 1)}], dir, name, seq[Max(1..k + 1)])
        BY <2>1, <3>3
      <3> QED BY <3>2, <3>4, <3>5
    <2> QED BY <2>2, <2>3
  <1>8. 0..n \subseteq {k \in 0..n : c[1..k] \in T}
    <2> DEFINE Z == {k \in 0..n : c[1..k] \in T}
    <2>1. 0 \in Z
      BY <1>2, <1>7
    <2>2. ASSUME NEW k \in 0..n - 1, k \in Z PROVE k + 1 \in Z
      <3>1. k + 1 \in 1..n /\ k + 1 \in 0..n /\ (k + 1) - 1 = k
        BY <1>2
      <3>2. seq[k + 1] = k
        BY <1>3, <3>1
      <3>3. c[1..k] \in T
        BY <2>2
      <3>4. ScanBlock(c[1..k], dir, name, seq[k + 1]) \in T
        BY <1>4, <3>1, <3>3
      <3>5. c[1..k + 1] \in T
        BY <1>7, <3>2, <3>4
      <3> QED BY <3>1, <3>5
    <2> HIDE DEF Z
    <2>3. 0..n \subseteq Z
      BY <1>2, <2>1, <2>2, UpTo
    <2> QED BY <2>3 DEF Z
  <1> DEFINE r == [k \in 0..n |-> c[1..k]]
  <1>9. r \in [0..n -> T]
    BY <1>8
  <1>10. r[0] = base /\ r[n] = dir_scan(s, dir, name) /\ \A k \in 0..n - 1 : r[k + 1] = ScanBlock(r[k], dir, name, k)
    <2>1. \A k \in 0..n : r[k] = c[1..k]
      OBVIOUS
    <2>2. 0 \in 0..n /\ n \in 0..n
      BY <1>2
    <2>3. r[0] = base /\ r[n] = dir_scan(s, dir, name)
      BY <1>1, <1>3, <1>7, <2>1, <2>2
    <2>4. ASSUME NEW k \in 0..n - 1 PROVE r[k + 1] = ScanBlock(r[k], dir, name, k)
      <3>1. k \in 0..n /\ k + 1 \in 0..n
        BY <1>2
      <3> HIDE DEF r
      <3> QED BY <1>7, <2>1, <3>1
    <2> QED BY <2>3, <2>4
  <1> HIDE DEF r
  <1> QED BY <1>9, <1>10 DEF n, T, base

LEMMA NotInBlockKept ==
  ASSUME NEW s \in Saved, NEW t \in Saved, Kept(s, t), NEW dir \in FilePlace, NEW name, NEW i,
         NotInBlock(s, dir, name, i)
  PROVE  NotInBlock(t, dir, name, i)
  <1>1. PICK b \in Block : Holds(s, dir, i, b) /\ \A j \in Slot : Name(s, <<b, j>>) # name
    BY DEF NotInBlock
  <1>2. PICK q \in Place : Data(s, dir, q) /\ q[3] = i /\ Ptr(s, q) = b /\ b # 0 /\ i < NINDIRECT
    BY <1>1 DEF Holds
  <1>3. Data(t, dir, q) /\ Ptr(t, q) = b
    BY <1>2, KeptDir DEF Kept
  <1>4. \A j \in Slot : Name(t, <<b, j>>) # name
    <2>1. \A j \in Slot : <<b, j>> \in FilePlace
      BY DEF FilePlace
    <2> QED BY <1>1, <2>1 DEF Kept
  <1> QED BY <1>2, <1>3, <1>4 DEF NotInBlock, Holds

\* No File of the directory has this name.
NotIn(s, dir, name) == \A f \in FilePlace : InDir(s, dir, f) => Name(s, f) # name

LEMMA AllBlocks ==
  ASSUME NEW s \in Saved, Sound(s), NEW dir \in FilePlace, NEW name,
         \A i \in 0..Size(s, dir) - 1 : NotInBlock(s, dir, name, i)
  PROVE  NotIn(s, dir, name)
  <1> SUFFICES ASSUME NEW f \in FilePlace, InDir(s, dir, f) PROVE Name(s, f) # name
    BY DEF NotIn
  <1>1. PICK p \in Place : Data(s, dir, p) /\ Ptr(s, p) = f[1] /\ f[1] # 0
    BY DEF InDir
  <1>2. p[3] \in 0..Size(s, dir) - 1
    <2>1. p[3] \in Int /\ p[3] >= 0 /\ Size(s, dir) \in Nat
      BY <1>1, PlaceIs, FileIs DEF Data
    <2>2. ~(p[3] >= Size(s, dir))
      BY <1>1 DEF Sound, WithinSize
    <2> QED BY <2>1, <2>2
  <1>3. PICK b \in Block : Holds(s, dir, p[3], b) /\ \A j \in Slot : Name(s, <<b, j>>) # name
    BY <1>2 DEF NotInBlock
  <1>4. PICK q \in Place : Data(s, dir, q) /\ q[3] = p[3] /\ Ptr(s, q) = b
    BY <1>3 DEF Holds
  <1>5. p = q
    BY <1>1, <1>4, DataAt
  <1>6. f = <<b, f[2]>> /\ f[2] \in Slot
    BY <1>1, <1>4, <1>5 DEF FilePlace
  <1> QED BY <1>3, <1>6

\* A file found is in the directory and has the name; when none is found, the
\* directory has none, and could still get a block.
LEMMA ScanIs ==
  ASSUME NEW s \in Saved, NEW dir \in FilePlace, NEW name
  PROVE  LET x == dir_scan(s, dir, name)
         IN  /\ x \in ScanResult /\ Grown(s, x.s, dir)
             /\ x.s.status = "ok" /\ x.v = E_NOT_FOUND => Size(s, dir) <= NINDIRECT
             /\ x.s.status = "ok" /\ Sound(s) =>
                  /\ x.v = 0 => Hit(x.s, dir, name, x.f)
                  /\ x.v = E_NOT_FOUND => NotIn(x.s, dir, name)
  <1> DEFINE n == Size(s, dir)
             x == dir_scan(s, dir, name)
  <1>0. n \in Nat /\ NINDIRECT \in Nat
    BY FileIs, FsSizes
  <1>e. E_NO_DISK = -1 /\ E_INVAL = -3 /\ E_NOT_FOUND = -2
    BY DEF E_NO_DISK, E_INVAL, E_NOT_FOUND
  <1>1. PICK r \in [0..n -> ScanResult] :
          /\ r[0] = [s |-> s, v |-> E_NOT_FOUND, f |-> NIL] /\ r[n] = x
          /\ \A k \in 0..n - 1 : r[k + 1] = ScanBlock(r[k], dir, name, k)
    BY ScanFold
  <1> HIDE DEF n, x
  <1> DEFINE J(k) == /\ Grown(s, r[k].s, dir)
                     /\ r[k].s.status = "ok" /\ r[k].v = E_NOT_FOUND => k <= NINDIRECT
                     /\ r[k].s.status = "ok" /\ Sound(s) =>
                          /\ r[k].v = 0 => Hit(r[k].s, dir, name, r[k].f)
                          /\ r[k].v = E_NOT_FOUND =>
                               \A i \in 0..k - 1 : NotInBlock(r[k].s, dir, name, i)
             Z == {k \in 0..n : J(k)}
  <1>2. 0 \in Z
    <2>1. r[0].s = s /\ r[0].v = E_NOT_FOUND /\ r[0].v # 0
      BY <1>1, <1>e
    <2>2. Grown(s, r[0].s, dir)
      BY <2>1, GrownRefl
    <2>3. 0 <= NINDIRECT /\ \A i \in 0..0 - 1 : NotInBlock(r[0].s, dir, name, i)
      BY <1>0
    <2> QED BY <1>0, <2>1, <2>2, <2>3
  <1>3. ASSUME NEW k \in 0..n - 1, k \in Z PROVE k + 1 \in Z
    <2>0. k \in 0..n /\ k + 1 \in 0..n /\ k \in Nat /\ k < n
      BY <1>0
    <2> DEFINE y == r[k]
               z == r[k + 1]
    <2>1. J(k)
      BY <1>3
    <2>2. y \in ScanResult /\ z = ScanBlock(y, dir, name, k) /\ y.s \in Saved
      <3>1. y \in ScanResult
        BY <2>0
      <3> QED BY <1>1, <3>1 DEF ScanResult
    <2>3. /\ z \in ScanResult /\ Typed(y.s, z.s)
          /\ y.v # E_NOT_FOUND => z = y
          /\ z.s.status = "ok" /\ y.v = E_NOT_FOUND /\ z.v = E_NOT_FOUND => k < NINDIRECT
          /\ y.v = E_NOT_FOUND /\ z.s.status = "ok" /\ Sound(y.s) /\ k < Size(y.s, dir) =>
               /\ Grown(y.s, z.s, dir)
               /\ z.v = E_NOT_FOUND => NotInBlock(z.s, dir, name, k)
               /\ z.v = 0 => Hit(z.s, dir, name, z.f)
      BY <2>0, <2>2, ScanBlockIs
    <2>4. /\ Grown(s, y.s, dir)
          /\ y.s.status = "ok" /\ Sound(s) =>
               /\ y.v = 0 => Hit(y.s, dir, name, y.f)
               /\ y.v = E_NOT_FOUND => \A i \in 0..k - 1 : NotInBlock(y.s, dir, name, i)
      BY <2>1
    <2>5. z.s \in Saved
      BY <2>3 DEF Typed
    <2>9. z.s.status = "ok" /\ z.v = E_NOT_FOUND => k + 1 <= NINDIRECT
      <3>1. z.v = E_NOT_FOUND => y.v = E_NOT_FOUND
        BY <2>3
      <3> HIDE DEF y, z
      <3> QED BY <1>0, <2>0, <2>3, <3>1
    <2> SUFFICES /\ Grown(s, z.s, dir)
                 /\ z.s.status = "ok" /\ Sound(s) =>
                      /\ z.v = 0 => Hit(z.s, dir, name, z.f)
                      /\ z.v = E_NOT_FOUND =>
                           \A i \in 0..(k + 1) - 1 : NotInBlock(z.s, dir, name, i)
      BY <2>0, <2>9
    <2> HIDE DEF y, z, J, Z
    <2>6. CASE ~(z.s.status = "ok" /\ Sound(s))
      <3>1. Typed(s, z.s)
        BY <2>3, <2>4 DEF Grown, Safe, Typed
      <3> QED BY <2>6, <3>1 DEF Grown, Safe
    <2>7. CASE z.s.status = "ok" /\ Sound(s) /\ y.v # E_NOT_FOUND
      BY <2>3, <2>4, <2>7
    <2>8. CASE z.s.status = "ok" /\ Sound(s) /\ y.v = E_NOT_FOUND
      <3>1. y.s.status = "ok" /\ Sound(y.s) /\ k < Size(y.s, dir)
        <4>1. y.s.status = "ok"
          BY <2>3, <2>8 DEF Typed
        <4>2. Size(y.s, dir) = n
          BY <2>4, <2>8, <4>1 DEF Grown, SameSizes, n
        <4> QED BY <2>0, <2>4, <2>8, <4>1, <4>2 DEF Grown, Safe
      <3>2. /\ Grown(y.s, z.s, dir)
            /\ z.v = E_NOT_FOUND => NotInBlock(z.s, dir, name, k)
            /\ z.v = 0 => Hit(z.s, dir, name, z.f)
        BY <2>3, <2>8, <3>1
      <3>3. Grown(s, z.s, dir)
        BY <2>4, <3>2, GrownTrans
      <3>4. ASSUME z.v = E_NOT_FOUND, NEW i \in 0..(k + 1) - 1 PROVE NotInBlock(z.s, dir, name, i)
        <4>1. CASE i = k
          BY <3>2, <3>4, <4>1
        <4>2. CASE i # k
          <5>1. NotInBlock(y.s, dir, name, i)
            BY <2>0, <2>4, <2>8, <3>1, <4>2
          <5>2. Kept(y.s, z.s)
            BY <2>8, <3>1, <3>2 DEF Grown
          <5> QED BY <2>2, <2>5, <5>1, <5>2, NotInBlockKept
        <4> QED BY <4>1, <4>2
      <3> QED BY <3>2, <3>3, <3>4
    <2> QED BY <2>6, <2>7, <2>8
  <1> HIDE DEF Z
  <1>4. 0..n \subseteq Z
    BY <1>0, <1>2, <1>3, UpTo
  <1>5. n \in Z
    BY <1>0, <1>4
  <1>6. /\ Grown(s, x.s, dir)
        /\ x.s.status = "ok" /\ x.v = E_NOT_FOUND => n <= NINDIRECT
        /\ x.s.status = "ok" /\ Sound(s) =>
             /\ x.v = 0 => Hit(x.s, dir, name, x.f)
             /\ x.v = E_NOT_FOUND => \A i \in 0..n - 1 : NotInBlock(x.s, dir, name, i)
    BY <1>1, <1>5 DEF Z
  <1>7. x \in ScanResult /\ x.s \in Saved
    <2>1. n \in 0..n
      BY <1>0
    <2>2. x \in ScanResult
      BY <1>1, <2>1
    <2> QED BY <2>2 DEF ScanResult
  <1>8. x.s.status = "ok" /\ Sound(s) /\ x.v = E_NOT_FOUND => NotIn(x.s, dir, name)
    <2> SUFFICES ASSUME x.s.status = "ok", Sound(s), x.v = E_NOT_FOUND PROVE NotIn(x.s, dir, name)
      OBVIOUS
    <2>1. Sound(x.s) /\ Size(x.s, dir) = n
      BY <1>6 DEF Grown, Safe, SameSizes, n
    <2> QED BY <1>6, <1>7, <2>1, AllBlocks
  <1> QED BY <1>6, <1>7, <1>8 DEF x, n

-----------------------------------------------------------------------------
(* A new File in a directory. *)

\* dir_alloc_file makes the directory longer, by a block, before the block is
\* there: when there is no space the directory stays too long.
LEMMA DirAllocIs ==
  ASSUME NEW s \in Saved, NEW dir \in FilePlace
  PROVE  LET a == dir_alloc_file(s, dir)
         IN  /\ a \in ScanResult /\ Typed(s, a.s)
             /\ a.s.status = "ok" /\ Sound(s) /\ Type(s, dir) = "dir" =>
                  /\ Sound(a.s) /\ Others(s, a.s, dir) /\ Kept(s, a.s)
                  /\ a.v = 0 => InDir(a.s, dir, a.f)
  <1> DEFINE a == dir_alloc_file(s, dir)
             n == Size(s, dir)
             r == dir_scan(s, dir, NoName)
             t == Put(r.s, dir, [File(r.s, dir) EXCEPT !.size = n + 1])
             g == DirBlock(t, dir, n)
             P == /\ a \in ScanResult /\ Typed(s, a.s)
                  /\ a.s.status = "ok" /\ Sound(s) /\ Type(s, dir) = "dir" =>
                       /\ Sound(a.s) /\ Others(s, a.s, dir) /\ Kept(s, a.s)
                       /\ a.v = 0 => InDir(a.s, dir, a.f)
  <1> SUFFICES P
    OBVIOUS
  <1>e. E_NO_DISK = -1 /\ E_INVAL = -3 /\ E_NOT_FOUND = -2
    BY DEF E_NO_DISK, E_INVAL, E_NOT_FOUND
  <1>0. n \in Nat /\ n + 1 \in Nat /\ n < n + 1 /\ NINDIRECT \in Nat
    BY FileIs, FsSizes
  <1>1. /\ r \in ScanResult /\ Grown(s, r.s, dir)
        /\ r.s.status = "ok" /\ r.v = E_NOT_FOUND => n <= NINDIRECT
        /\ r.s.status = "ok" /\ Sound(s) => (r.v = 0 => Hit(r.s, dir, NoName, r.f))
    BY ScanIs
  <1>2. a = IF r.v # E_NOT_FOUND \/ r.s.status # "ok" THEN r
            ELSE IF g.v < 0 THEN [s |-> g.s, v |-> g.v, f |-> NIL]
            ELSE [s |-> g.s, v |-> 0, f |-> <<g.v, 0>>]
    BY DEF dir_alloc_file, Size
  <1>3. r.s \in Saved
    BY <1>1 DEF ScanResult
  <1> HIDE DEF a, r, n
  <1>4. CASE r.v # E_NOT_FOUND \/ r.s.status # "ok"
    <2>1. a = r
      BY <1>2, <1>4
    <2> QED BY <1>1, <2>1 DEF Grown, Safe, Hit
  <1>5. CASE ~(r.v # E_NOT_FOUND \/ r.s.status # "ok")
    <2>1. /\ SameRest(r.s, t) /\ \A p \in Place : Ptr(t, p) = Ptr(r.s, p)
          /\ \A h \in FilePlace : Name(t, h) = Name(r.s, h) /\ Type(t, h) = Type(r.s, h)
          /\ \A h \in FilePlace : Size(t, h) = IF h = dir THEN n + 1 ELSE Size(r.s, h)
      BY <1>0, <1>3, PutSize
    <2> HIDE DEF t
    <2>2. t \in Saved /\ t.free = r.s.free /\ t.status = r.s.status
      BY <2>1 DEF SameRest
    <2>3. Bounded(r.s) => Bounded(t)
      <3>1. n + 1 <= NINDIRECT + 1
        BY <1>0, <1>1, <1>5
      <3> QED BY <2>1, <3>1 DEF Bounded
    <2>4. Got(t, dir, n, g)
      BY <1>0, <2>2, DirBlockIs
    <2> HIDE DEF g
    <2>5. Typed(s, g.s) /\ g.s \in Saved
      BY <1>1, <2>2, <2>3, <2>4 DEF Got, Grown, Safe, Typed
    <2>6. /\ a \in ScanResult /\ a.s = g.s
          /\ a.v = 0 => a.f = <<g.v, 0>> /\ g.v >= 0 /\ g.v \in Block
      <3>1. CASE g.v < 0
        <4>1. a = [s |-> g.s, v |-> g.v, f |-> NIL]
          BY <1>2, <1>5, <3>1
        <4>2. g.v \in {E_NO_DISK, E_INVAL, E_NOT_FOUND} /\ g.v # 0
          BY <2>4, <3>1, <1>e DEF Got, Block
        <4> QED BY <2>5, <4>1, <4>2, RootPlace DEF ScanResult
      <3>2. CASE ~(g.v < 0)
        <4>1. a = [s |-> g.s, v |-> 0, f |-> <<g.v, 0>>]
          BY <1>2, <1>5, <3>2
        <4>2. g.v \in Block /\ g.v >= 0
          BY <2>4, <3>2, <1>e DEF Got, Block
        <4>3. <<g.v, 0>> \in FilePlace
          BY <4>2, FsSizes DEF FilePlace, Slot
        <4> QED BY <2>5, <4>1, <4>2, <4>3 DEF ScanResult
      <3> QED BY <3>1, <3>2
    <2>7. ASSUME a.s.status = "ok", Sound(s), Type(s, dir) = "dir"
          PROVE  /\ Sound(a.s) /\ Others(s, a.s, dir) /\ Kept(s, a.s)
                 /\ a.v = 0 => InDir(a.s, dir, a.f)
      <3>1. Sound(r.s) /\ Others(s, r.s, dir) /\ Kept(s, r.s) /\ Size(r.s, dir) = n
        BY <1>1, <1>5, <2>7 DEF Grown, Safe, SameSizes, n
      <3>2. Name(r.s, dir) # NoName
        <4>1. Type(r.s, dir) = "dir"
          BY <2>7, <3>1 DEF Others
        <4> QED BY <3>1, <4>1 DEF Sound, UnnamedEmpty
      <3>3. \A p \in Place : Data(r.s, dir, p) /\ p[3] >= n + 1 => Ptr(r.s, p) = 0
        <4> SUFFICES ASSUME NEW p \in Place, Data(r.s, dir, p), p[3] >= n + 1 PROVE Ptr(r.s, p) = 0
          OBVIOUS
        <4>1. p[3] >= n
          BY <1>0, PlaceIs
        <4> QED BY <3>1, <4>1 DEF Sound, WithinSize
      <3>4. Sound(t) /\ Others(r.s, t, dir) /\ Kept(r.s, t)
        BY <1>0, <1>3, <2>1, <2>2, <3>1, <3>2, <3>3, ResizeSound
      <3>5. Size(t, dir) = n + 1
        BY <2>1
      <3>6. Grown(t, g.s, dir) /\ (g.v >= 0 => Holds(g.s, dir, n, g.v))
        BY <1>0, <2>4, <2>6, <2>7, <3>4, <3>5 DEF Got
      <3>7. Sound(g.s) /\ Others(t, g.s, dir) /\ Kept(t, g.s)
        BY <2>6, <2>7, <3>4, <3>6 DEF Grown, Safe
      <3>8. Others(s, g.s, dir)
        BY <3>1, <3>4, <3>7, OthersTrans
      <3>9. Kept(s, g.s)
        BY <3>1, <3>4, <3>7, KeptTrans
      <3>10. a.v = 0 => InDir(a.s, dir, a.f)
        BY <2>6, <3>6 DEF Holds, InDir
      <3> QED BY <2>6, <3>7, <3>8, <3>9, <3>10
    <2> QED BY <2>5, <2>6, <2>7
  <1> HIDE DEF P
  <1> QED BY <1>4, <1>5

-----------------------------------------------------------------------------
(* Paths. *)

PathResult ==
  [s : Saved, v : {0, E_NO_DISK, E_INVAL, E_NOT_FOUND}, f : FilePlace, dir : FilePlace]

\* Looking for a file may give a directory a block, and changes no file.
Looked(s, t) == \A h \in FilePlace : Grown(s, t, h)

LEMMA LookedRefl == ASSUME NEW s \in Saved PROVE Looked(s, s)
  BY GrownRefl DEF Looked

LEMMA LookedTrans ==
  ASSUME NEW s, NEW t, NEW u, Looked(s, t), Looked(t, u)
  PROVE  Looked(s, u)
  BY GrownTrans DEF Looked

\* The File was found in this directory, or could be created there.
FoundIn(r, name) == Type(r.s, r.dir) = "dir" /\ Hit(r.s, r.dir, name, r.f)
MissingIn(r, name) == Type(r.s, r.dir) = "dir" /\ NotIn(r.s, r.dir, name)

LEMMA WalkNameIs ==
  ASSUME NEW r \in PathResult, NEW path, NEW n \in Nat
  PROVE  LET x == WalkName(r, path, n)
         IN  /\ x \in PathResult /\ Looked(r.s, x.s)
             /\ r.v # 0 => x = r
             /\ r.v = 0 /\ x.s.status = "ok" /\ Sound(r.s) =>
                  /\ x.v = 0 => FoundIn(x, path[n])
                  /\ x.v = E_NOT_FOUND /\ x.dir # NIL => n = Len(path) /\ MissingIn(x, path[n])
  <1> DEFINE x == WalkName(r, path, n)
             l == dir_scan(r.s, r.f, path[n])
             d == IF l.v = E_NOT_FOUND /\ n = Len(path) THEN r.f ELSE NIL
             P == /\ x \in PathResult /\ Looked(r.s, x.s)
                  /\ r.v # 0 => x = r
                  /\ r.v = 0 /\ x.s.status = "ok" /\ Sound(r.s) =>
                       /\ x.v = 0 => FoundIn(x, path[n])
                       /\ x.v = E_NOT_FOUND /\ x.dir # NIL => n = Len(path) /\ MissingIn(x, path[n])
  <1> SUFFICES P
    OBVIOUS
  <1>e. E_NO_DISK = -1 /\ E_INVAL = -3 /\ E_NOT_FOUND = -2
    BY DEF E_NO_DISK, E_INVAL, E_NOT_FOUND
  <1>0. /\ r.s \in Saved /\ r.v \in {0, E_NO_DISK, E_INVAL, E_NOT_FOUND}
        /\ r.f \in FilePlace /\ r.dir \in FilePlace
    BY DEF PathResult
  <1>1. x = IF r.v < 0 \/ r.s.status # "ok" THEN r
            ELSE IF Type(r.s, r.f) # "dir"
            THEN [s |-> r.s, v |-> E_NOT_FOUND, f |-> NIL, dir |-> NIL]
            ELSE IF l.v < 0 THEN [s |-> l.s, v |-> l.v, f |-> NIL, dir |-> d]
            ELSE [s |-> l.s, v |-> 0, f |-> l.f, dir |-> r.f]
    BY DEF WalkName, dir_lookup, Type
  <1>2. r.v < 0 <=> r.v # 0
    BY <1>0, <1>e
  <1>3. /\ l \in ScanResult /\ Grown(r.s, l.s, r.f)
        /\ l.s.status = "ok" /\ Sound(r.s) =>
             /\ l.v = 0 => Hit(l.s, r.f, path[n], l.f)
             /\ l.v = E_NOT_FOUND => NotIn(l.s, r.f, path[n])
    BY <1>0, ScanIs
  <1> HIDE DEF x, l
  <1>4. CASE r.v < 0 \/ r.s.status # "ok"
    <2>1. x = r
      BY <1>1, <1>4
    <2>2. Looked(r.s, r.s)
      BY <1>0, LookedRefl
    <2> QED BY <1>2, <1>4, <2>1, <2>2
  <1>5. CASE ~(r.v < 0 \/ r.s.status # "ok") /\ Type(r.s, r.f) # "dir"
    <2>1. x = [s |-> r.s, v |-> E_NOT_FOUND, f |-> NIL, dir |-> NIL]
      BY <1>1, <1>5
    <2>2. x \in PathResult /\ x.s = r.s /\ x.v = E_NOT_FOUND /\ x.v # 0 /\ x.dir = NIL
      BY <1>0, <2>1, <1>e, RootPlace DEF PathResult
    <2>3. Looked(r.s, r.s)
      BY <1>0, LookedRefl
    <2> QED BY <1>2, <1>5, <2>2, <2>3
  <1>6. CASE ~(r.v < 0 \/ r.s.status # "ok") /\ Type(r.s, r.f) = "dir"
    <2>0. /\ l.s \in Saved /\ l.v \in {0, E_NO_DISK, E_INVAL, E_NOT_FOUND} /\ l.f \in FilePlace
          /\ d \in FilePlace
      BY <1>0, <1>3, RootPlace DEF ScanResult
    <2>1. Looked(r.s, l.s)
      <3> SUFFICES ASSUME NEW h \in FilePlace PROVE Grown(r.s, l.s, h)
        BY DEF Looked
      <3>1. Others(r.s, l.s, r.f) => Others(r.s, l.s, h)
        BY <1>6, OthersDir
      <3> QED BY <1>3, <3>1 DEF Grown, Safe
    <2>2. l.s.status = "ok" /\ Sound(r.s) => Type(l.s, r.f) = "dir"
      BY <1>0, <1>3, <1>6 DEF Grown, Safe, Others
    <2>3. CASE l.v < 0
      <3>1. x = [s |-> l.s, v |-> l.v, f |-> NIL, dir |-> d]
        BY <1>1, <1>6, <2>3
      <3>2. l.v # 0
        BY <2>0, <2>3
      <3>3. x \in PathResult /\ x.s = l.s /\ x.v = l.v /\ x.dir = d
        <4> HIDE DEF d
        <4> QED BY <2>0, <3>1, RootPlace DEF PathResult
      <3>4. ASSUME x.s.status = "ok", Sound(r.s), x.v = E_NOT_FOUND, x.dir # NIL
            PROVE  n = Len(path) /\ MissingIn(x, path[n])
        <4>1. x.dir = r.f /\ n = Len(path)
          BY <3>3, <3>4
        <4> QED BY <1>3, <2>2, <3>3, <3>4, <4>1 DEF MissingIn
      <3> HIDE DEF d
      <3> QED BY <1>2, <1>6, <2>1, <3>2, <3>3, <3>4
    <2>4. CASE ~(l.v < 0)
      <3>1. x = [s |-> l.s, v |-> 0, f |-> l.f, dir |-> r.f]
        BY <1>1, <1>6, <2>4
      <3>2. l.v = 0
        BY <2>0, <2>4, <1>e
      <3>3. /\ x \in PathResult /\ x.s = l.s /\ x.v = 0 /\ x.dir = r.f /\ x.f = l.f
            /\ x.v # E_NOT_FOUND
        BY <1>0, <2>0, <3>1, <1>e DEF PathResult
      <3>4. x.s.status = "ok" /\ Sound(r.s) => FoundIn(x, path[n])
        BY <1>3, <2>2, <3>2, <3>3 DEF FoundIn
      <3> QED BY <1>2, <1>6, <2>1, <3>3, <3>4
    <2> HIDE DEF P, d
    <2> QED BY <2>3, <2>4
  <1> HIDE DEF P
  <1> QED BY <1>4, <1>5, <1>6

\* walk_path, name after name.
LEMMA PathFold ==
  ASSUME NEW s \in Saved, NEW path, Len(path) \in Nat
  PROVE  \E r \in [0..Len(path) -> PathResult] :
           /\ r[0] = [s |-> s, v |-> 0, f |-> Root, dir |-> NIL] /\ r[Len(path)] = walk_path(s, path)
           /\ \A k \in 0..Len(path) - 1 : r[k + 1] = WalkName(r[k], path, k + 1)
  <1> DEFINE n == Len(path)
             T == PathResult
             base == [s |-> s, v |-> 0, f |-> Root, dir |-> NIL]
             seq == Range0(n)
             Iter(it) == [S \in SUBSET (DOMAIN seq) |->
                            IF S = {} THEN base ELSE WalkName(it[S \ {Max(S)}], path, seq[Max(S)] + 1)]
             c == CHOOSE it : it = Iter(it)
  <1>1. walk_path(s, path) = c[DOMAIN seq]
    BY Zenon DEF walk_path, FoldLeft, MapThenFoldSet
  <1>2. n \in Nat /\ base \in T
    BY RootPlace DEF PathResult
  <1> HIDE DEF n, base
  <1>3. DOMAIN seq = 1..n /\ \A k \in 1..n : seq[k] = k - 1
    BY DEF Range0
  <1> HIDE DEF seq
  <1>4. \A x \in T : \A k \in 1..n : WalkName(x, path, seq[k] + 1) \in T
    <2>1. \A k \in 1..n : seq[k] \in Nat
      BY <1>2, <1>3
    <2> HIDE DEF T
    <2> QED BY <2>1, WalkNameIs DEF T
  <1>5. \E it : it = Iter(it)
    <2> DEFINE g == [p \in T \X (1..n) |-> WalkName(p[1], path, seq[p[2]] + 1)]
    <2>1. g \in [T \X (1..n) -> T]
      BY <1>4
    <2> HIDE DEF T
    <2>2. \A x \in T : \A k \in 1..n : g[<<x, k>>] = WalkName(x, path, seq[k] + 1)
      OBVIOUS
    <2> HIDE DEF g
    <2>3. PICK it : FoldBy(n, T, base, g, it)
      BY <1>2, <2>1, FoldExists
    <2>s. /\ it \in [SUBSET (1..n) -> T]
          /\ \A S \in SUBSET (1..n) :
               it[S] = IF S = {} THEN base ELSE g[<<it[S \ {Max(S)}], Max(S)>>]
      BY <2>3 DEF FoldBy
    <2>4. ASSUME NEW S \in SUBSET (1..n)
          PROVE  it[S] = IF S = {} THEN base ELSE WalkName(it[S \ {Max(S)}], path, seq[Max(S)] + 1)
      <3>1. CASE S = {}
        BY <2>s, <3>1
      <3>2. CASE S # {}
        <4>1. Max(S) \in 1..n
          BY <1>2, <3>2, MaxIn
        <4>2. S \ {Max(S)} \in SUBSET (1..n)
          BY Zenon
        <4>3. it[S \ {Max(S)}] \in T
          BY <2>s, <4>2
        <4> QED BY <2>2, <2>s, <3>2, <4>1, <4>3
      <3> QED BY <3>1, <3>2
    <2>5. it = [S \in SUBSET (1..n) |-> IF S = {} THEN base ELSE WalkName(it[S \ {Max(S)}], path, seq[Max(S)] + 1)]
      BY <2>s, <2>4
    <2>6. it = Iter(it)
      BY <1>3, <2>5, Zenon
    <2> QED BY <2>6
  <1>6. c = Iter(c)
    BY <1>5
  <1> HIDE DEF c, T
  <1>7. c[1..0] = base /\ \A k \in 0..n - 1 : c[1..k + 1] = WalkName(c[1..k], path, k + 1)
    <2>1. ASSUME NEW S \in SUBSET (1..n)
          PROVE  c[S] = IF S = {} THEN base ELSE WalkName(c[S \ {Max(S)}], path, seq[Max(S)] + 1)
      BY <1>3, <1>6
    <2>2. c[1..0] = base
      <3>1. 1..0 \in SUBSET (1..n) /\ 1..0 = {}
        OBVIOUS
      <3> QED BY <2>1, <3>1
    <2>3. ASSUME NEW k \in 0..n - 1 PROVE c[1..k + 1] = WalkName(c[1..k], path, k + 1)
      <3>1. k + 1 \in Nat /\ k + 1 > 0 /\ k + 1 \in 1..n /\ (k + 1) - 1 = k
        BY <1>2
      <3>2. Max(1..k + 1) = k + 1 /\ (1..k + 1) \ {k + 1} = 1..k
        BY <3>1, MaxTo
      <3>3. 1..k + 1 \in SUBSET (1..n) /\ 1..k + 1 # {}
        <4>1. \A y \in 1..k + 1 : y \in 1..n
          BY <1>2, <3>1
        <4>2. k + 1 \in 1..k + 1
          BY <3>1
        <4> QED BY <4>1, <4>2
      <3>4. seq[k + 1] = k
        BY <1>3, <3>1
      <3>5. c[1..k + 1] = WalkName(c[(1..k + 1) \ {Max(1..k + 1)}], path, seq[Max(1..k + 1)] + 1)
        BY <2>1, <3>3
      <3> QED BY <3>2, <3>4, <3>5
    <2> QED BY <2>2, <2>3
  <1>8. 0..n \subseteq {k \in 0..n : c[1..k] \in T}
    <2> DEFINE Z == {k \in 0..n : c[1..k] \in T}
    <2>1. 0 \in Z
      BY <1>2, <1>7
    <2>2. ASSUME NEW k \in 0..n - 1, k \in Z PROVE k + 1 \in Z
      <3>1. k + 1 \in 1..n /\ k + 1 \in 0..n /\ (k + 1) - 1 = k
        BY <1>2
      <3>2. seq[k + 1] = k
        BY <1>3, <3>1
      <3>3. c[1..k] \in T
        BY <2>2
      <3>4. WalkName(c[1..k], path, seq[k + 1] + 1) \in T
        BY <1>4, <3>1, <3>3
      <3>5. c[1..k + 1] \in T
        BY <1>7, <3>2, <3>4
      <3> QED BY <3>1, <3>5
    <2> HIDE DEF Z
    <2>3. 0..n \subseteq Z
      BY <1>2, <2>1, <2>2, UpTo
    <2> QED BY <2>3 DEF Z
  <1> DEFINE r == [k \in 0..n |-> c[1..k]]
  <1>9. r \in [0..n -> T]
    BY <1>8
  <1>10. r[0] = base /\ r[n] = walk_path(s, path) /\ \A k \in 0..n - 1 : r[k + 1] = WalkName(r[k], path, k + 1)
    <2>1. \A k \in 0..n : r[k] = c[1..k]
      OBVIOUS
    <2>2. 0 \in 0..n /\ n \in 0..n
      BY <1>2
    <2>3. r[0] = base /\ r[n] = walk_path(s, path)
      BY <1>1, <1>3, <1>7, <2>1, <2>2
    <2>4. ASSUME NEW k \in 0..n - 1 PROVE r[k + 1] = WalkName(r[k], path, k + 1)
      <3>1. k \in 0..n /\ k + 1 \in 0..n
        BY <1>2
      <3> HIDE DEF r
      <3> QED BY <1>7, <2>1, <3>1
    <2> QED BY <2>3, <2>4
  <1> HIDE DEF r
  <1> QED BY <1>9, <1>10 DEF n, T, base

LEMMA PathIs ==
  ASSUME NEW s \in Saved, NEW path, Len(path) \in Nat
  PROVE  LET x == walk_path(s, path)
         IN  /\ x \in PathResult /\ Looked(s, x.s) /\ (x.v # 0 => Len(path) > 0)
             /\ x.s.status = "ok" /\ Sound(s) =>
                  /\ x.v = 0 => x.f = Root \/ (Len(path) > 0 /\ FoundIn(x, path[Len(path)]))
                  /\ x.v = E_NOT_FOUND /\ x.dir # NIL => MissingIn(x, path[Len(path)])
  <1> DEFINE n == Len(path)
             x == walk_path(s, path)
  <1>e. E_NO_DISK = -1 /\ E_INVAL = -3 /\ E_NOT_FOUND = -2
    BY DEF E_NO_DISK, E_INVAL, E_NOT_FOUND
  <1>1. PICK r \in [0..n -> PathResult] :
          /\ r[0] = [s |-> s, v |-> 0, f |-> Root, dir |-> NIL] /\ r[n] = x
          /\ \A k \in 0..n - 1 : r[k + 1] = WalkName(r[k], path, k + 1)
    BY PathFold
  <1>0. n \in Nat
    OBVIOUS
  <1> HIDE DEF x
  <1> DEFINE J(k) == /\ Looked(s, r[k].s) /\ (r[k].v # 0 => n > 0)
                     /\ r[k].s.status = "ok" /\ Sound(s) =>
                          /\ r[k].v = 0 => r[k].f = Root \/ (k > 0 /\ FoundIn(r[k], path[k]))
                          /\ r[k].v = E_NOT_FOUND /\ r[k].dir # NIL => MissingIn(r[k], path[n])
             Z == {k \in 0..n : J(k)}
  <1>2. 0 \in Z
    <2>1. r[0].s = s /\ r[0].v = 0 /\ r[0].v # E_NOT_FOUND /\ r[0].f = Root
      BY <1>1, <1>e
    <2>2. Looked(s, r[0].s)
      BY <2>1, LookedRefl
    <2> QED BY <1>0, <2>1, <2>2
  <1>3. ASSUME NEW k \in 0..n - 1, k \in Z PROVE k + 1 \in Z
    <2>0. k \in 0..n /\ k + 1 \in 0..n /\ k + 1 \in Nat /\ k + 1 > 0
      BY <1>0
    <2> DEFINE y == r[k]
               z == r[k + 1]
    <2>2. y \in PathResult /\ z = WalkName(y, path, k + 1) /\ y.s \in Saved
      <3>1. y \in PathResult
        BY <2>0
      <3> QED BY <1>1, <3>1 DEF PathResult
    <2>3. /\ z \in PathResult /\ Looked(y.s, z.s)
          /\ y.v # 0 => z = y
          /\ y.v = 0 /\ z.s.status = "ok" /\ Sound(y.s) =>
               /\ z.v = 0 => FoundIn(z, path[k + 1])
               /\ z.v = E_NOT_FOUND /\ z.dir # NIL => k + 1 = n /\ MissingIn(z, path[k + 1])
      BY <2>0, <2>2, WalkNameIs
    <2>4. /\ Looked(s, y.s)
          /\ y.s.status = "ok" /\ Sound(s) =>
               /\ y.v = E_NOT_FOUND /\ y.dir # NIL => MissingIn(y, path[n])
      BY <1>3
    <2>8. n > 0
      BY <1>0
    <2> SUFFICES /\ Looked(s, z.s)
                 /\ z.s.status = "ok" /\ Sound(s) =>
                      /\ z.v = 0 => z.f = Root \/ (k + 1 > 0 /\ FoundIn(z, path[k + 1]))
                      /\ z.v = E_NOT_FOUND /\ z.dir # NIL => MissingIn(z, path[n])
      BY <2>0, <2>8
    <2> HIDE DEF y, z, J, Z
    <2>5. Looked(s, z.s)
      BY <2>3, <2>4, LookedTrans
    <2>6. CASE y.v # 0
      BY <2>3, <2>4, <2>5, <2>6
    <2>7. CASE y.v = 0
      <3>1. z.s.status = "ok" /\ Sound(s) => Sound(y.s)
        BY <2>3, <2>4, RootPlace DEF Looked, Grown, Safe, Typed
      <3> QED BY <2>0, <2>3, <2>5, <2>7, <3>1
    <2> QED BY <2>6, <2>7
  <1> HIDE DEF Z
  <1>4. 0..n \subseteq Z
    BY <1>0, <1>2, <1>3, UpTo
  <1>5. n \in Z /\ n \in 0..n
    BY <1>0, <1>4
  <1>6. /\ Looked(s, x.s) /\ (x.v # 0 => n > 0)
        /\ x.s.status = "ok" /\ Sound(s) =>
             /\ x.v = 0 => x.f = Root \/ (n > 0 /\ FoundIn(x, path[n]))
             /\ x.v = E_NOT_FOUND /\ x.dir # NIL => MissingIn(x, path[n])
    BY <1>1, <1>5 DEF Z
  <1>7. x \in PathResult
    BY <1>1, <1>5
  <1> QED BY <1>6, <1>7 DEF x

\* The name that is looked for, when there is one, is a name clients may use.
LEMMA LastName ==
  ASSUME NEW path \in Seq(Names)
  PROVE  /\ Len(path) \in Nat
         /\ Len(path) > 0 => Last(path) = path[Len(path)] /\ path[Len(path)] \in Names /\ Last(path) # NoName
  <1>1. Len(path) \in Nat /\ \A i \in 1..Len(path) : path[i] \in Names
    OBVIOUS
  <1>2. Len(path) > 0 => Len(path) \in 1..Len(path)
    BY <1>1
  <1> QED BY <1>1, <1>2, FsSizes DEF Last

\* What a request may do to a file system, for one file.
LEMMA CreateIs ==
  ASSUME NEW s \in Saved, NEW path \in Seq(Names)
  PROVE  LET c == file_create(s, path)
         IN  \A h \in FilePlace : Safe(s, c.s, h)
  <1> DEFINE c == file_create(s, path)
             w == walk_path(s, path)
             a == dir_alloc_file(w.s, w.dir)
             name == Last(path)
             t == Put(a.s, a.f, [File(a.s, a.f) EXCEPT !.name = name])
  <1> SUFFICES ASSUME NEW h \in FilePlace PROVE Safe(s, c.s, h)
    OBVIOUS
  <1>e. E_NO_DISK = -1 /\ E_INVAL = -3 /\ E_NOT_FOUND = -2
    BY DEF E_NO_DISK, E_INVAL, E_NOT_FOUND
  <1>1. /\ w \in PathResult /\ Looked(s, w.s)
        /\ w.s.status = "ok" /\ Sound(s) =>
             (w.v = E_NOT_FOUND /\ w.dir # NIL => MissingIn(w, path[Len(path)]))
        /\ w.v # 0 => Len(path) > 0
    BY PathIs, LastName
  <1>2. c = IF w.s.status # "ok" THEN Ret(w.s, w.v)
            ELSE IF w.v = 0 THEN Ret(w.s, E_FILE_EXISTS)
            ELSE IF w.v # E_NOT_FOUND \/ w.dir = NIL THEN Ret(w.s, w.v)
            ELSE IF a.v < 0 \/ a.s.status # "ok" THEN Ret(a.s, w.v) ELSE Ret(t, 0)
    BY DEF file_create, NewFile
  <1>3. w.s \in Saved /\ w.dir \in FilePlace /\ Safe(s, w.s, h)
    BY <1>1 DEF PathResult, Looked, Grown
  <1>4. /\ a \in ScanResult /\ Typed(w.s, a.s)
        /\ a.s.status = "ok" /\ Sound(w.s) /\ Type(w.s, w.dir) = "dir" =>
             /\ Sound(a.s) /\ Others(w.s, a.s, w.dir) /\ Kept(w.s, a.s)
             /\ a.v = 0 => InDir(a.s, w.dir, a.f)
    BY <1>3, DirAllocIs
  <1>5. a.s \in Saved /\ a.f \in FilePlace /\ a.v \in {0, E_NO_DISK, E_INVAL, E_NOT_FOUND}
    BY <1>4 DEF ScanResult
  <1> HIDE DEF c, w, a, name
  <1>6. CASE w.s.status # "ok" \/ w.v = 0 \/ w.v # E_NOT_FOUND \/ w.dir = NIL
    <2>1. c.s = w.s
      BY <1>2, <1>6 DEF Ret
    <2> QED BY <1>3, <2>1
  <1>7. CASE w.s.status = "ok" /\ w.v = E_NOT_FOUND /\ w.dir # NIL
    <2>0. w.v # 0
      BY <1>7, <1>e
    <2>1. Typed(s, a.s)
      BY <1>3, <1>4 DEF Safe, Typed
    <2>2. a.s.status = "ok" /\ Sound(s) =>
            Sound(w.s) /\ Type(w.s, w.dir) = "dir" /\ NotIn(w.s, w.dir, path[Len(path)])
      BY <1>1, <1>3, <1>7 DEF Safe, MissingIn
    <2>3. Safe(s, a.s, h)
      <3>1. a.s.status = "ok" /\ Sound(s) => Others(w.s, a.s, h) /\ Others(s, w.s, h)
        BY <1>3, <1>4, <1>7, <2>2, OthersDir DEF Safe
      <3> QED BY <1>4, <2>1, <2>2, <3>1, OthersTrans DEF Safe
    <2>4. CASE a.v < 0 \/ a.s.status # "ok"
      <3>1. c.s = a.s
        BY <1>2, <1>7, <2>0, <2>4 DEF Ret
      <3> QED BY <2>3, <3>1
    <2>5. CASE ~(a.v < 0 \/ a.s.status # "ok")
      <3>1. c.s = t
        BY <1>2, <1>7, <2>0, <2>5 DEF Ret
      <3>2. a.v = 0 /\ a.s.status = "ok"
        BY <1>5, <2>5, <1>e
      <3>3. QED
        <4>1. name = path[Len(path)] /\ name \in Names \union {NoName} /\ name # NoName
          BY <1>1, <2>0, LastName DEF name
        <4>2. /\ SameRest(a.s, t) /\ \A p \in Place : Ptr(t, p) = Ptr(a.s, p)
              /\ \A g \in FilePlace : Size(t, g) = Size(a.s, g) /\ Type(t, g) = Type(a.s, g)
              /\ \A g \in FilePlace : Name(t, g) = IF g = a.f THEN name ELSE Name(a.s, g)
          BY <1>5, <4>1, PutName
        <4> HIDE DEF t
        <4>3. t \in Saved /\ t.free = a.s.free /\ t.status = a.s.status /\ (Bounded(a.s) => Bounded(t))
          BY <4>2 DEF SameRest, Bounded
        <4>4. ASSUME Sound(s) PROVE Sound(t) /\ Others(a.s, t, h)
          <5>1. /\ Sound(a.s) /\ Others(w.s, a.s, w.dir) /\ Kept(w.s, a.s) /\ InDir(a.s, w.dir, a.f)
                /\ Type(a.s, w.dir) = "dir"
            BY <1>3, <1>4, <2>2, <3>2, <4>4 DEF Others
          <5>2. ASSUME NEW g \in FilePlace, InDir(a.s, w.dir, g) PROVE Name(a.s, g) # name
            <6> SUFFICES ASSUME Name(a.s, g) = name PROVE FALSE
              OBVIOUS
            <6>1. InDir(w.s, w.dir, g) /\ Name(w.s, g) = name
              BY <1>3, <4>1, <5>1, <5>2 DEF Kept
            <6>2. NotIn(w.s, w.dir, name)
              BY <2>2, <3>2, <4>1, <4>4
            <6> QED BY <6>1, <6>2 DEF NotIn
          <5>3. Sound(t)
            <6>1. \E d \in FilePlace :
                    /\ Type(a.s, d) = "dir" /\ InDir(a.s, d, a.f)
                    /\ \A g \in FilePlace : InDir(a.s, d, g) => Name(a.s, g) # name
              BY <1>3, <5>1, <5>2
            <6>2. IF name = NoName
                  THEN /\ Type(a.s, a.f) = "reg" /\ Size(a.s, a.f) = 0
                       /\ \A i \in -1..NDIRECT - 1 : Ptr(a.s, <<a.f[1], a.f[2], i>>) = 0
                  ELSE \E d \in FilePlace :
                         /\ Type(a.s, d) = "dir" /\ InDir(a.s, d, a.f)
                         /\ \A g \in FilePlace : InDir(a.s, d, g) => Name(a.s, g) # name
              BY <4>1, <6>1
            <6> QED BY <1>5, <4>2, <4>3, <5>1, <6>2, RenameSound
          <5>4. Others(a.s, t, h)
            BY <4>2, IndPlace DEF Others
          <5> QED BY <5>3, <5>4
        <4>5. Typed(s, t)
          BY <2>1, <4>3 DEF Typed
        <4>6. Sound(s) => Sound(t) /\ Others(s, t, h)
          BY <2>3, <3>2, <4>4, OthersTrans DEF Safe
        <4> QED BY <3>1, <4>5, <4>6 DEF Safe
    <2> QED BY <2>4, <2>5
  <1> QED BY <1>6, <1>7

-----------------------------------------------------------------------------
(* Truncation. *)

\* Blocks of f are gone, and nothing else.
Emptied(s, t, f) ==
  /\ \A g \in FilePlace : Name(t, g) = Name(s, g)
  /\ SameSizes(s, t) /\ Ptr(t, Ind(f)) = Ptr(s, Ind(f))
  /\ \A p \in Place : Data(s, f, p) /\ Ptr(s, p) = 0 => Ptr(t, p) = 0

LEMMA EmptiedTrans ==
  ASSUME NEW s, NEW t, NEW u, NEW f, Emptied(s, t, f), Emptied(t, u, f)
  PROVE  Emptied(s, u, f)
  <1>1. \A p : Data(s, f, p) => Data(t, f, p)
    BY DEF Emptied, Data
  <1> QED BY <1>1 DEF Emptied, SameSizes

LEMMA FreeIs ==
  ASSUME NEW s \in Saved, NEW b \in Block
  PROVE  LET t == free_block(s, b)
         IN  /\ t \in Saved /\ t.blk = s.blk /\ t.status = s.status
             /\ t.free = IF b = 0 THEN s.free ELSE s.free \union {b}
  <1>1. CASE b = 0
    BY <1>1 DEF free_block
  <1>2. CASE b # 0
    <2>1. s.free \union {b} \in SUBSET Block /\ s.free \subseteq s.free \union {b}
      BY SavedIs
    <2> DEFINE t == [s EXCEPT !.free = s.free \union {b}]
    <2>2. t \in Saved /\ t.blk = s.blk /\ t.status = s.status /\ t.free = s.free \union {b}
      BY <2>1, WithFree
    <2>3. free_block(s, b) = t
      BY <1>2 DEF free_block
    <2> HIDE DEF t
    <2> QED BY <1>2, <2>2, <2>3
  <1> QED BY <1>1, <1>2

\* A pointer of the contents of f, or the one to an indirect block without any.
Unlinkable(s, f, q) ==
  \/ Data(s, f, q)
  \/ q = Ind(f) /\ \A p \in Place : p[1] = Ptr(s, q) /\ p[2] = -1 /\ p[1] # 0 => Ptr(s, p) = 0

\* The pointer at q is cleared, and no other.
ClearedAt(s, t, q) ==
  /\ t.status = s.status
  /\ \A p \in Place : Ptr(t, p) = IF p = q THEN 0 ELSE Ptr(s, p)
  /\ \A g \in FilePlace : /\ Name(t, g) = Name(s, g) /\ Type(t, g) = Type(s, g)
                          /\ Size(t, g) = Size(s, g)
UnlinkedFrom(s, t, f, q) ==
  Sound(s) /\ Type(s, f) = "reg" /\ Unlinkable(s, f, q) => Sound(t) /\ Others(s, t, f)

\* The block at q is freed and the pointer cleared, whether there is one or not.
LEMMA UnlinkIs ==
  ASSUME NEW s \in Saved, NEW t, NEW f \in FilePlace, NEW q \in Place,
         Written(free_block(s, Ptr(s, q)), t, q, 0)
  PROVE  Typed(s, t) /\ ClearedAt(s, t, q) /\ UnlinkedFrom(s, t, f, q)
  <1> DEFINE b == Ptr(s, q)
             u == free_block(s, b)
  <1>0. b \in Block
    BY PtrIs
  <1>1. /\ u \in Saved /\ u.blk = s.blk /\ u.status = s.status
        /\ u.free = IF b = 0 THEN s.free ELSE s.free \union {b}
    BY <1>0, FreeIs
  <1>w. Written(u, t, q, 0)
    OBVIOUS
  <1> HIDE DEF u
  <1>2. SameView(s, u)
    BY <1>1, FrameView
  <1>3. /\ t \in Saved /\ t.status = s.status /\ t.free = u.free
        /\ \A p \in Place : Ptr(t, p) = IF p = q THEN 0 ELSE Ptr(s, p)
        /\ \A g \in FilePlace : /\ Name(t, g) = Name(s, g) /\ Type(t, g) = Type(s, g)
                                /\ Size(t, g) = Size(s, g)
    BY <1>1, <1>2, <1>w DEF Written, SameRest, SameView
  <1>4. Typed(s, t)
    BY <1>3 DEF Typed, Bounded
  <1>5. ASSUME Sound(s), Type(s, f) = "reg", Unlinkable(s, f, q)
        PROVE  Sound(t) /\ Others(s, t, f)
    <2>1. CASE b = 0
      <3>1. SameView(s, t) /\ t.free = s.free
        BY <1>1, <1>3, <2>1 DEF SameView
      <3> QED BY <1>3, <1>5, <3>1, SameSound, ViewGrown
    <2>2. CASE b # 0
      <3>1. Unlinks(s, t, q)
        BY <1>1, <1>3, <2>2 DEF Unlinks
      <3>2. Data(s, f, q)
            \/ (q = Ind(f) /\ \A p \in Place : p[1] = Ptr(s, q) /\ p[2] = -1 => Ptr(s, p) = 0)
        BY <1>5, <2>2 DEF Unlinkable
      <3> QED BY <1>3, <1>5, <3>1, <3>2, UnlinkSound
    <2> QED BY <2>1, <2>2
  <1> QED BY <1>3, <1>4, <1>5 DEF ClearedAt, UnlinkedFrom

LEMMA ClearBlockIs ==
  ASSUME NEW s \in Saved, NEW f \in FilePlace, NEW bno \in Nat
  PROVE  LET x == ClearBlock(s, f, bno)
         IN  /\ Typed(s, x)
             /\ x.status = "ok" /\ Sound(s) /\ Type(s, f) = "reg" =>
                  /\ Sound(x) /\ Others(s, x, f) /\ Emptied(s, x, f)
                  /\ \A p \in Place : Data(s, f, p) /\ p[3] = bno => Ptr(x, p) = 0
  <1> DEFINE x == ClearBlock(s, f, bno)
             w == file_block_walk(s, f, bno, FALSE)
             d == Deref(w.s, w.at)
             u == free_block(w.s, d)
             t == Assign(u, w.at, 0)
             P == /\ Typed(s, x)
                  /\ x.status = "ok" /\ Sound(s) /\ Type(s, f) = "reg" =>
                       /\ Sound(x) /\ Others(s, x, f) /\ Emptied(s, x, f)
                       /\ \A p \in Place : Data(s, f, p) /\ p[3] = bno => Ptr(x, p) = 0
  <1> SUFFICES P
    OBVIOUS
  <1>e. E_NO_DISK = -1 /\ E_INVAL = -3 /\ E_NOT_FOUND = -2
    BY DEF E_NO_DISK, E_INVAL, E_NOT_FOUND
  <1>1. /\ Frame(s, w.s) /\ w.v \in {0, E_NO_DISK, E_INVAL, E_NOT_FOUND}
        /\ w.v = 0 => Data(w.s, f, w.at) /\ w.at[3] = bno
    BY WalkIs
  <1>2. w.s \in Saved /\ SameView(s, w.s) /\ w.s.free = s.free /\ Typed(s, w.s)
    BY <1>1, FrameGrown DEF Frame, Grown, Safe
  <1>3. x = IF s.status # "ok" THEN s ELSE IF w.v < 0 THEN Panic(w.s) ELSE t
    <2> DEFINE c == file_clear_block(s, f, bno)
    <2>1. c = IF w.v < 0 THEN Ret(w.s, w.v) ELSE Ret(t, 0)
      BY DEF file_clear_block
    <2>2. x = IF s.status # "ok" THEN s ELSE IF c.v < 0 THEN Panic(c.s) ELSE c.s
      BY DEF ClearBlock
    <2> HIDE DEF x, w, t, c
    <2>3. CASE w.v < 0
      BY <2>1, <2>2, <2>3 DEF Ret
    <2>4. CASE ~(w.v < 0)
      BY <2>1, <2>2, <2>4 DEF Ret
    <2> QED BY <2>3, <2>4
  <1> HIDE DEF x, w
  <1>4. CASE s.status # "ok"
    BY <1>3, <1>4 DEF Typed
  <1>5. CASE s.status = "ok" /\ w.v < 0
    <2>1. x = Panic(w.s)
      BY <1>3, <1>5
    <2>2. Frame(w.s, x) /\ x.status # "ok"
      BY <1>2, <2>1, PanicFrame
    <2>3. Typed(w.s, x)
      BY <1>2, <2>2, FrameGrown DEF Grown, Safe
    <2>4. Typed(s, x)
      BY <1>2, <2>3 DEF Typed
    <2> QED BY <2>2, <2>4
  <1>6. CASE s.status = "ok" /\ w.v = 0
    <2>1. x = t
      BY <1>3, <1>6
    <2>2. w.at \in Place /\ w.at[3] >= 0 /\ Data(w.s, f, w.at) /\ w.at[3] = bno
      BY <1>1, <1>6 DEF Data
    <2>3. d = Ptr(w.s, w.at) /\ d \in Block
      BY <1>2, <2>2, AssignIs, PtrIs, RootPlace
    <2>4. u \in Saved
      BY <1>2, <2>3, FreeIs
    <2>5. u = free_block(w.s, Ptr(w.s, w.at))
      BY <2>3
    <2> HIDE DEF u, d
    <2>6. Written(u, t, w.at, 0)
      BY <2>2, <2>4, AssignIs, RootPlace
    <2> HIDE DEF t
    <2>x. Typed(w.s, t) /\ ClearedAt(w.s, t, w.at) /\ UnlinkedFrom(w.s, t, f, w.at)
      <3> DEFINE v == w.s
                 q == w.at
      <3>1. v \in Saved /\ q \in Place /\ Written(free_block(v, Ptr(v, q)), t, q, 0)
        BY <1>2, <2>2, <2>5, <2>6
      <3> HIDE DEF v, q
      <3>2. Typed(v, t) /\ ClearedAt(v, t, q) /\ UnlinkedFrom(v, t, f, q)
        BY <3>1, UnlinkIs
      <3> QED BY <3>2 DEF v, q
    <2>7. /\ Typed(w.s, t) /\ t.status = w.s.status
          /\ \A p \in Place : Ptr(t, p) = IF p = w.at THEN 0 ELSE Ptr(w.s, p)
          /\ \A g \in FilePlace : /\ Name(t, g) = Name(w.s, g) /\ Type(t, g) = Type(w.s, g)
                                  /\ Size(t, g) = Size(w.s, g)
          /\ Sound(w.s) /\ Type(w.s, f) = "reg" => Sound(t) /\ Others(w.s, t, f)
      <3>1. Unlinkable(w.s, f, w.at)
        BY <2>2 DEF Unlinkable
      <3> QED BY <2>x, <3>1 DEF ClearedAt, UnlinkedFrom
    <2>8. Typed(s, t)
      BY <1>2, <2>7 DEF Typed
    <2>9. ASSUME t.status = "ok", Sound(s), Type(s, f) = "reg"
          PROVE  /\ Sound(t) /\ Others(s, t, f) /\ Emptied(s, t, f)
                 /\ \A p \in Place : Data(s, f, p) /\ p[3] = bno => Ptr(t, p) = 0
      <3>1. Sound(w.s) /\ Others(s, w.s, f) /\ Type(w.s, f) = "reg"
        BY <1>2, <2>9, SameSound, ViewGrown DEF SameView
      <3>2. Sound(t) /\ Others(s, t, f)
        BY <2>7, <3>1, OthersTrans
      <3>3. Ind(f) # w.at /\ Ind(f) \in Place
        BY <2>2, IndPlace
      <3>4. \A p : Data(s, f, p) <=> Data(w.s, f, p)
        BY <1>2, <3>3 DEF Data, SameView
      <3>5. Emptied(s, t, f)
        BY <1>2, <2>7, <3>3, <3>4 DEF Emptied, SameSizes, SameView
      <3>6. ASSUME NEW p \in Place, Data(s, f, p), p[3] = bno PROVE Ptr(t, p) = 0
        <4>1. p = w.at
          BY <1>2, <2>2, <3>4, <3>6, DataAt
        <4> QED BY <2>7, <4>1
      <3> QED BY <3>2, <3>5, <3>6
    <2> QED BY <2>1, <2>8, <2>9
  <1>7. w.v < 0 \/ w.v = 0
    BY <1>1, <1>e
  <1> HIDE DEF P
  <1> QED BY <1>4, <1>5, <1>6, <1>7

LEMMA TypedSaved == ASSUME NEW s, NEW t, Typed(s, t) PROVE t \in Saved
  BY DEF Typed

\* The loop of file_truncate, block after block.
ClearRun(s, f, from, n, x) ==
  \E r \in [0..n -> Saved] :
    /\ r[0] = s /\ r[n] = x
    /\ \A k \in 0..n - 1 : r[k + 1] = ClearBlock(r[k], f, from + k)
LEMMA ClearFold ==
  ASSUME NEW s \in Saved, NEW f \in FilePlace, NEW from \in Nat, NEW to \in Nat, to >= from
  PROVE  ClearRun(s, f, from, to - from, ClearBlocks(s, f, from, to))
  <1> DEFINE n == to - from
             T == Saved
             base == s
             seq == Range0(n)
             Iter(it) == [S \in SUBSET (DOMAIN seq) |->
                            IF S = {} THEN base ELSE ClearBlock(it[S \ {Max(S)}], f, from + seq[Max(S)])]
             c == CHOOSE it : it = Iter(it)
  <1>1. ClearBlocks(s, f, from, to) = c[DOMAIN seq]
    BY Zenon DEF ClearBlocks, FoldLeft, MapThenFoldSet
  <1>2. n \in Nat /\ base \in T
    OBVIOUS
  <1> HIDE DEF n, base
  <1>3. DOMAIN seq = 1..n /\ \A k \in 1..n : seq[k] = k - 1
    BY DEF Range0
  <1> HIDE DEF seq
  <1>4. \A x \in T : \A k \in 1..n : ClearBlock(x, f, from + seq[k]) \in T
    <2>1. \A k \in 1..n : seq[k] \in Nat
      BY <1>2, <1>3
    <2> HIDE DEF T
    <2> QED BY <2>1, ClearBlockIs, TypedSaved DEF T
  <1>5. \E it : it = Iter(it)
    <2> DEFINE g == [p \in T \X (1..n) |-> ClearBlock(p[1], f, from + seq[p[2]])]
    <2>1. g \in [T \X (1..n) -> T]
      BY <1>4
    <2> HIDE DEF T
    <2>2. \A x \in T : \A k \in 1..n : g[<<x, k>>] = ClearBlock(x, f, from + seq[k])
      OBVIOUS
    <2> HIDE DEF g
    <2>3. PICK it : FoldBy(n, T, base, g, it)
      BY <1>2, <2>1, FoldExists
    <2>s. /\ it \in [SUBSET (1..n) -> T]
          /\ \A S \in SUBSET (1..n) :
               it[S] = IF S = {} THEN base ELSE g[<<it[S \ {Max(S)}], Max(S)>>]
      BY <2>3 DEF FoldBy
    <2>4. ASSUME NEW S \in SUBSET (1..n)
          PROVE  it[S] = IF S = {} THEN base ELSE ClearBlock(it[S \ {Max(S)}], f, from + seq[Max(S)])
      <3>1. CASE S = {}
        BY <2>s, <3>1
      <3>2. CASE S # {}
        <4>1. Max(S) \in 1..n
          BY <1>2, <3>2, MaxIn
        <4>2. S \ {Max(S)} \in SUBSET (1..n)
          BY Zenon
        <4>3. it[S \ {Max(S)}] \in T
          BY <2>s, <4>2
        <4> QED BY <2>2, <2>s, <3>2, <4>1, <4>3
      <3> QED BY <3>1, <3>2
    <2>5. it = [S \in SUBSET (1..n) |-> IF S = {} THEN base ELSE ClearBlock(it[S \ {Max(S)}], f, from + seq[Max(S)])]
      BY <2>s, <2>4
    <2>6. it = Iter(it)
      BY <1>3, <2>5, Zenon
    <2> QED BY <2>6
  <1>6. c = Iter(c)
    BY <1>5
  <1> HIDE DEF c, T
  <1>7. c[1..0] = base /\ \A k \in 0..n - 1 : c[1..k + 1] = ClearBlock(c[1..k], f, from + k)
    <2>1. ASSUME NEW S \in SUBSET (1..n)
          PROVE  c[S] = IF S = {} THEN base ELSE ClearBlock(c[S \ {Max(S)}], f, from + seq[Max(S)])
      BY <1>3, <1>6
    <2>2. c[1..0] = base
      <3>1. 1..0 \in SUBSET (1..n) /\ 1..0 = {}
        OBVIOUS
      <3> QED BY <2>1, <3>1
    <2>3. ASSUME NEW k \in 0..n - 1 PROVE c[1..k + 1] = ClearBlock(c[1..k], f, from + k)
      <3>1. k + 1 \in Nat /\ k + 1 > 0 /\ k + 1 \in 1..n /\ (k + 1) - 1 = k
        BY <1>2
      <3>2. Max(1..k + 1) = k + 1 /\ (1..k + 1) \ {k + 1} = 1..k
        BY <3>1, MaxTo
      <3>3. 1..k + 1 \in SUBSET (1..n) /\ 1..k + 1 # {}
        <4>1. \A y \in 1..k + 1 : y \in 1..n
          BY <1>2, <3>1
        <4>2. k + 1 \in 1..k + 1
          BY <3>1
        <4> QED BY <4>1, <4>2
      <3>4. seq[k + 1] = k
        BY <1>3, <3>1
      <3>5. c[1..k + 1] = ClearBlock(c[(1..k + 1) \ {Max(1..k + 1)}], f, from + seq[Max(1..k + 1)])
        BY <2>1, <3>3
      <3> QED BY <3>2, <3>4, <3>5
    <2> QED BY <2>2, <2>3
  <1>8. 0..n \subseteq {k \in 0..n : c[1..k] \in T}
    <2> DEFINE Z == {k \in 0..n : c[1..k] \in T}
    <2>1. 0 \in Z
      BY <1>2, <1>7
    <2>2. ASSUME NEW k \in 0..n - 1, k \in Z PROVE k + 1 \in Z
      <3>1. k + 1 \in 1..n /\ k + 1 \in 0..n /\ (k + 1) - 1 = k
        BY <1>2
      <3>2. seq[k + 1] = k
        BY <1>3, <3>1
      <3>3. c[1..k] \in T
        BY <2>2
      <3>4. ClearBlock(c[1..k], f, from + seq[k + 1]) \in T
        BY <1>4, <3>1, <3>3
      <3>5. c[1..k + 1] \in T
        BY <1>7, <3>2, <3>4
      <3> QED BY <3>1, <3>5
    <2> HIDE DEF Z
    <2>3. 0..n \subseteq Z
      BY <1>2, <2>1, <2>2, UpTo
    <2> QED BY <2>3 DEF Z
  <1> DEFINE r == [k \in 0..n |-> c[1..k]]
  <1>9. r \in [0..n -> T]
    BY <1>8
  <1>10. r[0] = base /\ r[n] = ClearBlocks(s, f, from, to) /\ \A k \in 0..n - 1 : r[k + 1] = ClearBlock(r[k], f, from + k)
    <2>1. \A k \in 0..n : r[k] = c[1..k]
      OBVIOUS
    <2>2. 0 \in 0..n /\ n \in 0..n
      BY <1>2
    <2>3. r[0] = base /\ r[n] = ClearBlocks(s, f, from, to)
      BY <1>1, <1>3, <1>7, <2>1, <2>2
    <2>4. ASSUME NEW k \in 0..n - 1 PROVE r[k + 1] = ClearBlock(r[k], f, from + k)
      <3>1. k \in 0..n /\ k + 1 \in 0..n
        BY <1>2
      <3> HIDE DEF r
      <3> QED BY <1>7, <2>1, <3>1
    <2> QED BY <2>3, <2>4
  <1> HIDE DEF r
  <1> QED BY <1>9, <1>10 DEF n, T, base, ClearRun

\* The blocks from..to - 1 of f are gone, if the state is still good.
Wiped(s, x, f, from, to) ==
  x.status = "ok" /\ Sound(s) /\ Type(s, f) = "reg" =>
    /\ Sound(x) /\ Others(s, x, f) /\ Emptied(s, x, f)
    /\ \A p \in Place : Data(s, f, p) /\ p[3] >= from /\ p[3] < to => Ptr(x, p) = 0

LEMMA WipedOne ==
  ASSUME NEW s \in Saved, NEW x \in Saved, NEW f \in FilePlace, NEW from \in Nat, NEW k \in Nat,
         Typed(s, x), Wiped(s, x, f, from, from + k)
  PROVE  LET y == ClearBlock(x, f, from + k)
         IN  Typed(s, y) /\ Wiped(s, y, f, from, from + (k + 1))
  <1> DEFINE y == ClearBlock(x, f, from + k)
  <1>0. from + k \in Nat
    OBVIOUS
  <1>1. /\ Typed(x, y)
        /\ y.status = "ok" /\ Sound(x) /\ Type(x, f) = "reg" =>
             /\ Sound(y) /\ Others(x, y, f) /\ Emptied(x, y, f)
             /\ \A p \in Place : Data(x, f, p) /\ p[3] = from + k => Ptr(y, p) = 0
    BY <1>0, ClearBlockIs
  <1> HIDE DEF y
  <1>2. Typed(s, y)
    BY <1>1 DEF Typed
  <1>3. ASSUME y.status = "ok", Sound(s), Type(s, f) = "reg"
        PROVE  /\ Sound(y) /\ Others(s, y, f) /\ Emptied(s, y, f)
               /\ \A p \in Place : Data(s, f, p) /\ p[3] >= from /\ p[3] < from + (k + 1) => Ptr(y, p) = 0
    <2>1. /\ Sound(x) /\ Others(s, x, f) /\ Emptied(s, x, f)
          /\ \A p \in Place : Data(s, f, p) /\ p[3] >= from /\ p[3] < from + k => Ptr(x, p) = 0
      BY <1>1, <1>3 DEF Wiped, Typed
    <2>2. Type(x, f) = "reg"
      BY <1>3, <2>1 DEF Others
    <2>3. Sound(y) /\ Others(s, y, f) /\ Emptied(s, y, f)
      BY <1>1, <1>3, <2>1, <2>2, OthersTrans, EmptiedTrans
    <2>4. ASSUME NEW p \in Place, Data(s, f, p), p[3] >= from, p[3] < from + (k + 1)
          PROVE  Ptr(y, p) = 0
      <3>1. Data(x, f, p)
        BY <2>1, <2>4 DEF Emptied, Data
      <3>2. p[3] \in Int
        BY PlaceIs, FsSizes
      <3>3. CASE p[3] = from + k
        BY <1>1, <1>3, <2>1, <2>2, <3>1, <3>3
      <3>4. CASE p[3] < from + k
        <4>1. Ptr(x, p) = 0
          BY <2>1, <2>4, <3>4
        <4> QED BY <1>1, <1>3, <2>1, <2>2, <3>1, <4>1 DEF Emptied
      <3> QED BY <2>4, <3>2, <3>3, <3>4
    <2> QED BY <2>3, <2>4
  <1>4. Wiped(s, y, f, from, from + (k + 1))
    BY <1>3 DEF Wiped
  <1> QED BY <1>2, <1>4 DEF y

LEMMA ClearIs ==
  ASSUME NEW s \in Saved, NEW f \in FilePlace, NEW from \in Nat, NEW to \in Nat, to >= from
  PROVE  LET x == ClearBlocks(s, f, from, to) IN Typed(s, x) /\ Wiped(s, x, f, from, to)
  <1> DEFINE x == ClearBlocks(s, f, from, to)
             n == to - from
  <1>1. PICK r \in [0..n -> Saved] :
           /\ r[0] = s /\ r[n] = x
           /\ \A k \in 0..n - 1 : r[k + 1] = ClearBlock(r[k], f, from + k)
    <2>1. ClearRun(s, f, from, n, x)
      BY ClearFold
    <2> QED BY <2>1 DEF ClearRun
  <1>2. n \in Nat /\ from + n = to
    OBVIOUS
  <1> HIDE DEF x, n
  <1> DEFINE Z == {k \in 0..n : Typed(s, r[k]) /\ Wiped(s, r[k], f, from, from + k)}
  <1>3. 0 \in Z
    <2>1. Grown(s, s, f)
      BY GrownRefl
    <2>2. Typed(s, s) /\ (Sound(s) /\ s.status = "ok" => Others(s, s, f))
      BY <2>1 DEF Grown, Safe
    <2>3. Emptied(s, s, f)
      BY DEF Emptied, SameSizes
    <2>4. \A p \in Place : ~(p[3] >= from /\ p[3] < from + 0)
      BY PlaceIs, FsSizes
    <2>5. Wiped(s, s, f, from, from + 0)
      BY <2>2, <2>3, <2>4 DEF Wiped
    <2> QED BY <1>1, <1>2, <2>2, <2>5
  <1>4. ASSUME NEW k \in 0..n - 1, k \in Z PROVE k + 1 \in Z
    <2>1. k \in Nat /\ k \in 0..n /\ k + 1 \in 0..n
      BY <1>2
    <2>2. r[k] \in Saved /\ r[k + 1] = ClearBlock(r[k], f, from + k)
      BY <1>1, <2>1
    <2>3. Typed(s, r[k]) /\ Wiped(s, r[k], f, from, from + k)
      BY <1>4
    <2>4. Typed(s, r[k + 1]) /\ Wiped(s, r[k + 1], f, from, from + (k + 1))
      BY <2>1, <2>2, <2>3, WipedOne
    <2> QED BY <2>1, <2>4
  <1> HIDE DEF Z
  <1>5. 0..n \subseteq Z
    BY <1>2, <1>3, <1>4, UpTo
  <1>6. n \in Z
    BY <1>2, <1>5
  <1>7. Typed(s, r[n]) /\ Wiped(s, r[n], f, from, from + n)
    BY <1>6 DEF Z
  <1>8. Typed(s, x) /\ Wiped(s, x, f, from, to)
    BY <1>1, <1>2, <1>7
  <1> QED BY <1>8 DEF x

LEMMA PutPut ==
  ASSUME NEW s \in Saved, NEW f \in FilePlace, NEW x \in FileType, NEW y \in FileType
  PROVE  Put(Put(s, f, x), f, y) = Put(s, f, y)
  <1> DEFINE c == s.blk[f[1]]
             Full(z) == [c EXCEPT !.files = [c.files EXCEPT ![f[2]] = z]]
             Blk(z) == [s.blk EXCEPT ![f[1]] = Full(z)]
             With(z) == [s EXCEPT !.blk = Blk(z)]
             t == With(x)
  <1>1. f[1] \in Block /\ f[2] \in Slot
    BY DEF FilePlace
  <1>2. s.blk \in [Block -> Content] /\ c \in Content
    BY <1>1, SavedIs
  <1>3. c.files \in [Slot -> FileType]
    <2> HIDE DEF c
    <2> QED BY <1>2 DEF Content
  <1>4. \A z : Put(s, f, z) = With(z)
    BY DEF Put
  <1>5. s = Rec(s.free, s.disk_free, s.mapped, s.dirty, s.unsaved, s.blk, s.status)
    BY SavedIs
  <1>6. \A z : With(z) = Rec(s.free, s.disk_free, s.mapped, s.dirty, s.unsaved, Blk(z), s.status)
    <2> HIDE DEF Blk
    <2> QED BY <1>5 DEF Rec
  <1>7. \A z : With(z).blk = Blk(z)
    <2> HIDE DEF Blk
    <2> QED BY <1>6 DEF Rec
  <1>8. Put(t, f, y) = [t EXCEPT !.blk = [t.blk EXCEPT ![f[1]] = [t.blk[f[1]] EXCEPT !.files = [t.blk[f[1]].files EXCEPT ![f[2]] = y]]]]
    BY DEF Put
  <1>9. t.blk = Blk(x)
    BY <1>7
  <1>10. Blk(x)[f[1]] = Full(x)
    BY <1>1, <1>2
  <1>11. Full(x).files = [c.files EXCEPT ![f[2]] = x]
    <2> HIDE DEF c
    <2> QED BY <1>2 DEF Content
  <1>12. [[c.files EXCEPT ![f[2]] = x] EXCEPT ![f[2]] = y] = [c.files EXCEPT ![f[2]] = y]
    <2> HIDE DEF c
    <2> QED BY <1>1, <1>3
  <1>13. [Full(x) EXCEPT !.files = [c.files EXCEPT ![f[2]] = y]] = Full(y)
    <2> HIDE DEF c
    <2> QED BY <1>2 DEF Content
  <1>14. [Blk(x) EXCEPT ![f[1]] = Full(y)] = Blk(y)
    <2> HIDE DEF Full
    <2> QED BY <1>1, <1>2
  <1>15. [t.blk EXCEPT ![f[1]] = [t.blk[f[1]] EXCEPT !.files = [t.blk[f[1]].files EXCEPT ![f[2]] = y]]] = Blk(y)
    <2> HIDE DEF t, Blk, Full, c
    <2> QED BY <1>9, <1>10, <1>11, <1>12, <1>13, <1>14, Zenon
  <1>16. [t EXCEPT !.blk = Blk(y)] = With(y)
    <2> HIDE DEF Blk
    <2> QED BY <1>5, <1>6 DEF Rec
  <1> HIDE DEF t, Blk, Full, c, With
  <1>17. Put(t, f, y) = With(y)
    BY <1>8, <1>15, <1>16, Zenon
  <1> QED BY <1>4, <1>17 DEF t

\* f has n blocks at most, and its size says so.
CutTo(s, x, f, n) ==
  x.status = "ok" /\ Sound(s) /\ Type(s, f) = "reg" /\ (n = 0 \/ Name(s, f) # NoName) =>
    /\ Sound(x) /\ Others(s, x, f) /\ Size(x, f) = n
    /\ \A g \in FilePlace : Name(x, g) = Name(s, g)
    /\ n <= NDIRECT => Ptr(x, Ind(f)) = 0

\* f_size is written, when f has no block past its new end.
LEMMA CutSize ==
  ASSUME NEW s \in Saved, NEW f \in FilePlace, NEW n \in Nat, n <= NINDIRECT + 1
  PROVE  LET t == Put(s, f, [File(s, f) EXCEPT !.size = n])
         IN  /\ Typed(s, t) /\ t.status = s.status
             /\ \A p \in Place : Ptr(t, p) = Ptr(s, p)
             /\ \A g \in FilePlace : Name(t, g) = Name(s, g) /\ Type(t, g) = Type(s, g)
             /\ Size(t, f) = n
             /\ Sound(s) /\ (n = 0 \/ Name(s, f) # NoName)
                /\ (\A p \in Place : Data(s, f, p) /\ p[3] >= n => Ptr(s, p) = 0)
                => Sound(t) /\ Others(s, t, f)
  <1> DEFINE t == Put(s, f, [File(s, f) EXCEPT !.size = n])
  <1>1. /\ SameRest(s, t) /\ \A p \in Place : Ptr(t, p) = Ptr(s, p)
        /\ \A g \in FilePlace : Name(t, g) = Name(s, g) /\ Type(t, g) = Type(s, g)
        /\ \A g \in FilePlace : Size(t, g) = IF g = f THEN n ELSE Size(s, g)
    BY PutSize
  <1> HIDE DEF t
  <1>2. t \in Saved /\ t.free = s.free /\ t.status = s.status
    BY <1>1 DEF SameRest
  <1>3. Bounded(s) => Bounded(t)
    BY <1>1 DEF Bounded
  <1>4. ASSUME Sound(s), n = 0 \/ Name(s, f) # NoName,
               \A p \in Place : Data(s, f, p) /\ p[3] >= n => Ptr(s, p) = 0
        PROVE  Sound(t) /\ Others(s, t, f)
    BY <1>1, <1>2, <1>4, ResizeSound
  <1>5. Typed(s, t)
    BY <1>2, <1>3 DEF Typed
  <1> QED BY <1>1, <1>2, <1>4, <1>5 DEF t

\* The end of file_truncate, once the blocks are gone.
Cut(c, f, n) ==
  IF n <= NDIRECT
  THEN Put(free_block(c, File(c, f).indirect), f, [File(c, f) EXCEPT !.size = n, !.indirect = 0])
  ELSE Put(c, f, [File(c, f) EXCEPT !.size = n])

LEMMA CutShort ==
  ASSUME NEW c \in Saved, NEW f \in FilePlace, NEW n \in Nat, n <= NDIRECT
  PROVE  \E t \in Saved :
           /\ Typed(c, t) /\ ClearedAt(c, t, Ind(f)) /\ UnlinkedFrom(c, t, f, Ind(f))
           /\ Cut(c, f, n) = Put(t, f, [File(t, f) EXCEPT !.size = n])
  <1> DEFINE x == File(c, f)
             u == free_block(c, Ptr(c, Ind(f)))
             y == [x EXCEPT !.indirect = 0]
             z == [x EXCEPT !.size = n, !.indirect = 0]
             t == Put(u, f, y)
  <1>1. Ptr(c, Ind(f)) = x.indirect /\ Ptr(c, Ind(f)) \in Block /\ Ind(f) \in Place
    BY PtrIs, IndPlace
  <1>2. u \in Saved /\ u.blk = c.blk
    BY <1>1, FreeIs
  <1>3. Cut(c, f, n) = Put(u, f, z)
    BY <1>1 DEF Cut
  <1> HIDE DEF u
  <1>4. File(u, f) = x
    BY <1>2 DEF File
  <1>5. x \in FileType
    BY FileIs
  <1> HIDE DEF x
  <1>6. y \in FileType /\ z \in FileType /\ z = [y EXCEPT !.size = n]
    BY <1>5, RootPlace DEF FileType
  <1>7. Written(u, t, Ind(f), 0)
    BY <1>2, <1>4, PutIndirect, RootPlace
  <1> HIDE DEF y, z
  <1>8. t \in Saved /\ File(t, f) = y
    BY <1>2, <1>6, PutIs
  <1>9. Put(t, f, z) = Put(u, f, z)
    BY <1>2, <1>6, PutPut
  <1> HIDE DEF t
  <1>10. Cut(c, f, n) = Put(t, f, [File(t, f) EXCEPT !.size = n])
    BY <1>3, <1>6, <1>8, <1>9
  <1>11. Typed(c, t) /\ ClearedAt(c, t, Ind(f)) /\ UnlinkedFrom(c, t, f, Ind(f))
    BY <1>1, <1>7, UnlinkIs DEF u
  <1> QED BY <1>8, <1>10, <1>11

PastEnd(s, f, n) == \A p \in Place : Data(s, f, p) /\ p[3] >= n => Ptr(s, p) = 0

\* What is needed of the state before the cut, and what it then is.
Cuttable(c, f, n) ==
  Sound(c) /\ Type(c, f) = "reg" /\ (n = 0 \/ Name(c, f) # NoName) /\ PastEnd(c, f, n)

LEMMA CutIs ==
  ASSUME NEW c \in Saved, NEW f \in FilePlace, NEW n \in Nat, n <= NINDIRECT + 1
  PROVE  LET x == Cut(c, f, n)
         IN  /\ Typed(c, x) /\ x.status = c.status
             /\ Cuttable(c, f, n) =>
                  /\ Sound(x) /\ Others(c, x, f) /\ Size(x, f) = n
                  /\ \A g \in FilePlace : Name(x, g) = Name(c, g)
                  /\ n <= NDIRECT => Ptr(x, Ind(f)) = 0
  <1> DEFINE x == Cut(c, f, n)
             P == /\ Typed(c, x) /\ x.status = c.status
                  /\ Cuttable(c, f, n) =>
                       /\ Sound(x) /\ Others(c, x, f) /\ Size(x, f) = n
                       /\ \A g \in FilePlace : Name(x, g) = Name(c, g)
                       /\ n <= NDIRECT => Ptr(x, Ind(f)) = 0
  <1> SUFFICES P
    OBVIOUS
  <1>1. CASE ~(n <= NDIRECT)
    <2>1. x = Put(c, f, [File(c, f) EXCEPT !.size = n])
      BY <1>1 DEF Cut
    <2> HIDE DEF x
    <2>2. /\ Typed(c, x) /\ x.status = c.status
          /\ \A g \in FilePlace : Name(x, g) = Name(c, g)
          /\ Size(x, f) = n
          /\ Sound(c) /\ (n = 0 \/ Name(c, f) # NoName)
             /\ (\A p \in Place : Data(c, f, p) /\ p[3] >= n => Ptr(c, p) = 0)
             => Sound(x) /\ Others(c, x, f)
      BY <2>1, CutSize
    <2> QED BY <1>1, <2>2 DEF Cuttable, PastEnd
  <1>2. CASE n <= NDIRECT
    <2>1. PICK t \in Saved :
            /\ Typed(c, t) /\ ClearedAt(c, t, Ind(f)) /\ UnlinkedFrom(c, t, f, Ind(f))
            /\ x = Put(t, f, [File(t, f) EXCEPT !.size = n])
      BY <1>2, CutShort
    <2> HIDE DEF x
    <2>2. /\ Typed(t, x) /\ x.status = t.status
          /\ \A p \in Place : Ptr(x, p) = Ptr(t, p)
          /\ \A g \in FilePlace : Name(x, g) = Name(t, g)
          /\ Size(x, f) = n
          /\ Sound(t) /\ (n = 0 \/ Name(t, f) # NoName)
             /\ (\A p \in Place : Data(t, f, p) /\ p[3] >= n => Ptr(t, p) = 0)
             => Sound(x) /\ Others(t, x, f)
      BY <2>1, CutSize
    <2>3. Typed(c, x) /\ x.status = c.status
      BY <2>1, <2>2 DEF Typed, ClearedAt
    <2>4. ASSUME Cuttable(c, f, n)
          PROVE  /\ Sound(x) /\ Others(c, x, f)
                 /\ \A g \in FilePlace : Name(x, g) = Name(c, g)
                 /\ Ptr(x, Ind(f)) = 0
      <3>1. Unlinkable(c, f, Ind(f))
        <4>1. ASSUME NEW p \in Place, p[1] = Ptr(c, Ind(f)), p[2] = -1, p[1] # 0
              PROVE  Ptr(c, p) = 0
          <5>1. p[3] \in NDIRECT..NINDIRECT - 1
            BY <4>1, PlaceIs DEF Slot
          <5>2. p[3] >= n /\ p[3] >= 0
            BY <1>2, <5>1, FsSizes
          <5>3. Data(c, f, p)
            BY <4>1, <5>2 DEF Data
          <5> QED BY <2>4, <5>2, <5>3 DEF Cuttable, PastEnd
        <4> QED BY <4>1 DEF Unlinkable
      <3>2. Sound(t) /\ Others(c, t, f)
        BY <2>1, <2>4, <3>1 DEF UnlinkedFrom, Cuttable
      <3>3. n = 0 \/ Name(t, f) # NoName
        BY <2>1, <2>4 DEF ClearedAt, Cuttable
      <3>4. Ptr(t, Ind(f)) = 0
        BY <2>1, IndPlace DEF ClearedAt
      <3>5. ASSUME NEW p \in Place, Data(t, f, p), p[3] >= n PROVE Ptr(t, p) = 0
        <4>1. Data(c, f, p)
          BY <3>4, <3>5 DEF Data
        <4>2. Ptr(c, p) = 0
          BY <2>4, <3>5, <4>1 DEF Cuttable, PastEnd
        <4> QED BY <2>1, <4>2 DEF ClearedAt
      <3>6. Sound(x) /\ Others(t, x, f)
        BY <2>2, <3>2, <3>3, <3>5
      <3>7. Others(c, x, f)
        BY <3>2, <3>6, OthersTrans
      <3>8. \A g \in FilePlace : Name(x, g) = Name(c, g)
        BY <2>1, <2>2 DEF ClearedAt
      <3> QED BY <2>2, <3>4, <3>6, <3>7, <3>8, IndPlace
    <2> QED BY <2>2, <2>3, <2>4
  <1> HIDE DEF P
  <1> QED BY <1>1, <1>2

LEMMA TruncateIs ==
  ASSUME NEW s \in Saved, NEW f \in FilePlace, NEW n \in Nat, n <= Size(s, f), n <= NINDIRECT + 1
  PROVE  LET x == file_truncate(s, f, n) IN Typed(s, x) /\ CutTo(s, x, f, n)
  <1> DEFINE c == ClearBlocks(s, f, n, Size(s, f))
             y == Cut(c, f, n)
             x == file_truncate(s, f, n)
             P == Typed(s, x) /\ CutTo(s, x, f, n)
  <1> SUFFICES P
    OBVIOUS
  <1>1. Size(s, f) \in Nat
    BY FileIs
  <1>2. Typed(s, c) /\ Wiped(s, c, f, n, Size(s, f))
    BY <1>1, ClearIs
  <1>3. x = IF c.status # "ok" THEN c ELSE y
    BY DEF file_truncate, Cut, Size
  <1>4. c \in Saved
    BY <1>2 DEF Typed
  <1> HIDE DEF x, c
  <1>5. /\ Typed(c, y) /\ y.status = c.status
        /\ Cuttable(c, f, n) =>
             /\ Sound(y) /\ Others(c, y, f) /\ Size(y, f) = n
             /\ \A g \in FilePlace : Name(y, g) = Name(c, g)
             /\ n <= NDIRECT => Ptr(y, Ind(f)) = 0
    BY <1>4, CutIs
  <1> HIDE DEF y
  <1>6. CASE c.status # "ok"
    BY <1>2, <1>3, <1>6 DEF CutTo
  <1>7. CASE c.status = "ok"
    <2>1. x = y /\ Typed(s, y)
      BY <1>2, <1>3, <1>5, <1>7 DEF Typed
    <2>2. ASSUME Sound(s), Type(s, f) = "reg", n = 0 \/ Name(s, f) # NoName
          PROVE  /\ Sound(y) /\ Others(s, y, f) /\ Size(y, f) = n
                 /\ \A g \in FilePlace : Name(y, g) = Name(s, g)
                 /\ n <= NDIRECT => Ptr(y, Ind(f)) = 0
      <3>1. /\ Sound(c) /\ Others(s, c, f) /\ Emptied(s, c, f)
            /\ \A p \in Place : Data(s, f, p) /\ p[3] >= n /\ p[3] < Size(s, f) => Ptr(c, p) = 0
        BY <1>2, <1>7, <2>2 DEF Wiped
      <3>2. PastEnd(c, f, n)
        <4> SUFFICES ASSUME NEW p \in Place, Data(c, f, p), p[3] >= n PROVE Ptr(c, p) = 0
          BY DEF PastEnd
        <4>1. Data(s, f, p)
          BY <3>1 DEF Emptied, Data
        <4>2. p[3] \in Int
          BY PlaceIs, FsSizes
        <4>3. CASE p[3] < Size(s, f)
          BY <3>1, <4>1, <4>3
        <4>4. CASE p[3] >= Size(s, f)
          <5>1. Ptr(s, p) = 0
            BY <2>2, <4>1, <4>4 DEF Sound, WithinSize
          <5> QED BY <3>1, <4>1, <5>1 DEF Emptied
        <4> QED BY <1>1, <4>2, <4>3, <4>4
      <3>3. Type(c, f) = "reg" /\ (n = 0 \/ Name(c, f) # NoName)
        BY <2>2, <3>1 DEF Others, Emptied
      <3>4. Cuttable(c, f, n)
        BY <3>1, <3>2, <3>3 DEF Cuttable
      <3>5. Others(s, y, f)
        BY <1>5, <3>1, <3>4, OthersTrans
      <3> QED BY <1>5, <3>1, <3>4, <3>5 DEF Emptied
    <2> QED BY <2>1, <2>2 DEF CutTo
  <1> HIDE DEF P
  <1> QED BY <1>6, <1>7

\* A request on the File f of a client: it leaves the other files alone.
Serves(s, x, f, n) ==
  x.status = "ok" /\ Sound(s) /\ Type(s, f) = "reg" /\ (n = 0 \/ Name(s, f) # NoName) =>
    Sound(x) /\ Others(s, x, f)

LEMMA SetSizeIs ==
  ASSUME NEW s \in Saved, NEW f \in FilePlace, NEW dir \in FilePlace, NEW n \in Nat, n <= NINDIRECT + 1
  PROVE  LET x == file_set_size(s, f, n, dir) IN Typed(s, x) /\ Serves(s, x, f, n)
  <1> DEFINE t == IF File(s, f).size > n THEN file_truncate(s, f, n) ELSE s
             y == Put(t, f, [File(t, f) EXCEPT !.size = n])
             z == file_flush(y, dir)
             x == file_set_size(s, f, n, dir)
             P == Typed(s, x) /\ Serves(s, x, f, n)
  <1> SUFFICES P
    OBVIOUS
  <1>0. Size(s, f) \in Nat /\ File(s, f).size = Size(s, f)
    BY FileIs DEF Size
  <1>1. x = IF t.status # "ok" THEN t ELSE z
    BY DEF file_set_size
  <1> DEFINE Good == Sound(s) /\ Type(s, f) = "reg" /\ (n = 0 \/ Name(s, f) # NoName)
  <1>2. /\ Typed(s, t)
        /\ t.status = "ok" /\ Good =>
             /\ Sound(t) /\ Others(s, t, f) /\ PastEnd(t, f, n) /\ (n = 0 \/ Name(t, f) # NoName)
    <2>1. CASE Size(s, f) > n
      <3>1. t = file_truncate(s, f, n) /\ n <= Size(s, f)
        BY <1>0, <2>1
      <3> HIDE DEF t
      <3>2. Typed(s, t) /\ CutTo(s, t, f, n)
        BY <3>1, TruncateIs
      <3>3. ASSUME t.status = "ok", Good
            PROVE  Sound(t) /\ Others(s, t, f) /\ PastEnd(t, f, n) /\ (n = 0 \/ Name(t, f) # NoName)
        <4>1. Sound(t) /\ Others(s, t, f) /\ Size(t, f) = n /\ Name(t, f) = Name(s, f)
          BY <3>2, <3>3 DEF CutTo
        <4> QED BY <3>3, <4>1 DEF PastEnd, Sound, WithinSize
      <3> QED BY <3>2, <3>3
    <2>2. CASE ~(Size(s, f) > n)
      <3>1. t = s /\ n >= Size(s, f)
        BY <1>0, <2>2
      <3>2. Grown(s, s, f)
        BY GrownRefl
      <3>3. Typed(s, s) /\ Others(s, s, f)
        BY <3>2 DEF Grown, Safe, Others
      <3>4. Sound(s) => PastEnd(s, f, n)
        <4> SUFFICES ASSUME Sound(s), NEW p \in Place, Data(s, f, p), p[3] >= n PROVE Ptr(s, p) = 0
          BY DEF PastEnd
        <4>1. p[3] \in Int
          BY PlaceIs, FsSizes
        <4>2. p[3] >= Size(s, f)
          BY <1>0, <3>1, <4>1
        <4> QED BY <4>2 DEF Sound, WithinSize
      <3> QED BY <3>1, <3>3, <3>4
    <2> QED BY <2>1, <2>2
  <1>3. t \in Saved
    BY <1>2 DEF Typed
  <1> HIDE DEF x, t
  <1>4. /\ Typed(t, y) /\ y.status = t.status
        /\ Sound(t) /\ (n = 0 \/ Name(t, f) # NoName)
           /\ (\A p \in Place : Data(t, f, p) /\ p[3] >= n => Ptr(t, p) = 0)
           => Sound(y) /\ Others(t, y, f)
    BY <1>3, CutSize
  <1>5. y \in Saved
    BY <1>4 DEF Typed
  <1> HIDE DEF y
  <1>6. Grown(y, z, f)
    BY <1>5, FlushIs, FrameGrown
  <1> HIDE DEF z
  <1>7. CASE t.status # "ok"
    BY <1>1, <1>2, <1>7 DEF Serves
  <1>8. CASE t.status = "ok"
    <2>1. x = z /\ Typed(s, z)
      BY <1>1, <1>2, <1>4, <1>6, <1>8 DEF Typed, Grown, Safe
    <2>2. ASSUME z.status = "ok", Good PROVE Sound(z) /\ Others(s, z, f)
      <3>1. Sound(y) /\ Others(t, y, f) /\ Others(s, t, f)
        BY <1>2, <1>4, <1>8, <2>2 DEF PastEnd
      <3>2. Sound(z) /\ Others(y, z, f)
        BY <1>6, <2>2, <3>1 DEF Grown, Safe
      <3> QED BY <3>1, <3>2, OthersTrans
    <2> QED BY <2>1, <2>2 DEF Serves
  <1> HIDE DEF P
  <1> QED BY <1>7, <1>8

LEMMA CloseIs ==
  ASSUME NEW s \in Saved, NEW f \in FilePlace, NEW dir \in FilePlace
  PROVE  Frame(s, file_close(s, f, dir))
  <1> DEFINE t == file_flush(s, f)
  <1>1. Frame(s, t) /\ t \in Saved
    BY FlushIs, FrameSaved
  <1> HIDE DEF t
  <1>2. Frame(t, file_flush(t, dir))
    BY <1>1, FlushIs
  <1>3. file_close(s, f, dir) = file_flush(t, dir)
    BY DEF file_close, t
  <1> QED BY <1>1, <1>2, <1>3, FrameTrans

\* The last steps of file_remove.
Cleared(t, f, dir) ==
  IF t.status # "ok" THEN t ELSE file_close(Put(t, f, [File(t, f) EXCEPT !.name = NoName]), f, dir)

LEMMA ClearedIs ==
  ASSUME NEW s \in Saved, NEW f \in FilePlace, NEW dir \in FilePlace
  PROVE  LET x == Cleared(file_truncate(s, f, 0), f, dir) IN Typed(s, x) /\ Serves(s, x, f, 0)
  <1> DEFINE t == file_truncate(s, f, 0)
             y == Put(t, f, [File(t, f) EXCEPT !.name = NoName])
             z == file_close(y, f, dir)
             x == Cleared(t, f, dir)
             P == Typed(s, x) /\ Serves(s, x, f, 0)
  <1> SUFFICES P
    OBVIOUS
  <1>1. Typed(s, t) /\ CutTo(s, t, f, 0) /\ t \in Saved
    <2>1. 0 <= Size(s, f) /\ 0 <= NINDIRECT + 1 /\ 0 \in Nat
      BY FileIs, FsSizes
    <2>2. Typed(s, t) /\ CutTo(s, t, f, 0)
      BY <2>1, TruncateIs
    <2> QED BY <2>2 DEF Typed
  <1>2. x = IF t.status # "ok" THEN t ELSE z
    BY DEF Cleared
  <1> HIDE DEF x, t
  <1>3. /\ SameRest(t, y) /\ \A p \in Place : Ptr(y, p) = Ptr(t, p)
        /\ \A g \in FilePlace : Size(y, g) = Size(t, g) /\ Type(y, g) = Type(t, g)
        /\ \A g \in FilePlace : Name(y, g) = IF g = f THEN NoName ELSE Name(t, g)
    <2> DEFINE n == NoName
    <2>1. n \in Names \union {NoName} /\ y = Put(t, f, [File(t, f) EXCEPT !.name = n])
      OBVIOUS
    <2> HIDE DEF n, y
    <2>2. /\ SameRest(t, y) /\ \A p \in Place : Ptr(y, p) = Ptr(t, p)
          /\ \A g \in FilePlace : Size(y, g) = Size(t, g) /\ Type(y, g) = Type(t, g)
          /\ \A g \in FilePlace : Name(y, g) = IF g = f THEN n ELSE Name(t, g)
      BY <1>1, <2>1, PutName
    <2> QED BY <2>2 DEF n
  <1> HIDE DEF y
  <1>4. y \in Saved /\ y.free = t.free /\ y.status = t.status
    BY <1>3 DEF SameRest
  <1>5. Grown(y, z, f)
    BY <1>4, CloseIs, FrameGrown
  <1> HIDE DEF z
  <1>6. Typed(s, z)
    <2>1. Bounded(t) => Bounded(y)
      BY <1>3 DEF Bounded
    <2> QED BY <1>1, <1>4, <1>5, <2>1 DEF Typed, Grown, Safe
  <1>7. CASE t.status # "ok"
    BY <1>1, <1>2, <1>7 DEF Serves
  <1>8. CASE t.status = "ok"
    <2>1. x = z
      BY <1>2, <1>8
    <2>2. ASSUME z.status = "ok", Sound(s), Type(s, f) = "reg" PROVE Sound(z) /\ Others(s, z, f)
      <3>1. Sound(t) /\ Others(s, t, f) /\ Size(t, f) = 0 /\ Ptr(t, Ind(f)) = 0
        BY <1>1, <1>8, <2>2, FsSizes DEF CutTo
      <3>2. Type(t, f) = "reg"
        BY <2>2, <3>1 DEF Others
      <3>3. ASSUME NEW i \in -1..NDIRECT - 1 PROVE Ptr(t, <<f[1], f[2], i>>) = 0
        <4>1. CASE i = -1
          BY <3>1, <4>1 DEF Ind
        <4>2. CASE i # -1
          <5>1. <<f[1], f[2], i>> \in Place /\ i >= 0
            BY <4>2, PlaceOf, FsSizes
          <5>2. Data(t, f, <<f[1], f[2], i>>)
            BY <5>1 DEF Data
          <5> QED BY <3>1, <5>1, <5>2 DEF Sound, WithinSize
        <4> QED BY <4>1, <4>2
      <3>4. IF NoName = NoName
            THEN /\ Type(t, f) = "reg" /\ Size(t, f) = 0
                 /\ \A i \in -1..NDIRECT - 1 : Ptr(t, <<f[1], f[2], i>>) = 0
            ELSE \E d \in FilePlace :
                   /\ Type(t, d) = "dir" /\ InDir(t, d, f)
                   /\ \A g \in FilePlace : InDir(t, d, g) => Name(t, g) # NoName
        BY <3>1, <3>2, <3>3
      <3>5. Sound(y) /\ Others(t, y, f)
        BY <1>1, <1>3, <1>4, <3>1, <3>4, RenameSound
      <3>6. Sound(z) /\ Others(y, z, f)
        BY <1>5, <2>2, <3>5 DEF Grown, Safe
      <3> QED BY <3>1, <3>5, <3>6, OthersTrans
    <2> QED BY <1>6, <2>1, <2>2 DEF Serves
  <1> HIDE DEF P
  <1> QED BY <1>7, <1>8

\* After a lookup that changes no file, a request on the file that was found.
LEMMA LookedThen ==
  ASSUME NEW s \in Saved, NEW t, NEW x, NEW f \in FilePlace,
         Looked(s, t), Typed(t, x), Serves(t, x, f, 0), Type(t, f) = "reg"
  PROVE  Safe(s, x, f)
  <1>1. Safe(s, t, f)
    BY DEF Looked, Grown
  <1>2. Safe(t, x, f)
    BY DEF Safe, Serves
  <1> QED BY <1>1, <1>2, SafeTrans

LEMMA RemoveIs ==
  ASSUME NEW s \in Saved, NEW path \in Seq(Names),
         walk_path(s, path).v = 0 => Type(walk_path(s, path).s, walk_path(s, path).f) = "reg"
  PROVE  Safe(s, file_remove(s, path).s, walk_path(s, path).f)
  <1> DEFINE w == walk_path(s, path)
             r == file_remove(s, path)
             y == Cleared(file_truncate(w.s, w.f, 0), w.f, w.dir)
  <1>e. E_NO_DISK = -1 /\ E_INVAL = -3 /\ E_NOT_FOUND = -2
    BY DEF E_NO_DISK, E_INVAL, E_NOT_FOUND
  <1>1. w \in PathResult /\ Looked(s, w.s)
    BY PathIs, LastName
  <1>2. r = IF w.v < 0 \/ w.s.status # "ok" THEN Ret(w.s, w.v) ELSE Ret(y, 0)
    BY DEF file_remove, Cleared
  <1>3. w.v = 0 => Type(w.s, w.f) = "reg"
    OBVIOUS
  <1> HIDE DEF w, r
  <1>4. w.s \in Saved /\ w.f \in FilePlace /\ w.dir \in FilePlace /\ (w.v < 0 \/ w.v = 0)
    BY <1>1, <1>e DEF PathResult
  <1>5. Typed(w.s, y) /\ Serves(w.s, y, w.f, 0)
    BY <1>4, ClearedIs
  <1> HIDE DEF y
  <1>6. CASE w.v < 0 \/ w.s.status # "ok"
    <2>1. r.s = w.s
      BY <1>2, <1>6 DEF Ret
    <2>2. Safe(s, w.s, w.f)
      BY <1>1, <1>4 DEF Looked, Grown
    <2>3. Safe(s, r.s, w.f)
      BY <2>1, <2>2
    <2> QED BY <2>3 DEF r, w
  <1>7. CASE ~(w.v < 0 \/ w.s.status # "ok")
    <2>1. r.s = y /\ w.v = 0
      BY <1>2, <1>4, <1>7 DEF Ret
    <2> DEFINE v == w.s
               f == w.f
    <2>2. Looked(s, v) /\ Typed(v, y) /\ Serves(v, y, f, 0) /\ Type(v, f) = "reg" /\ f \in FilePlace
      BY <1>1, <1>3, <1>4, <1>5, <2>1
    <2> HIDE DEF v, f
    <2>3. Safe(s, y, f)
      BY <2>2, LookedThen
    <2>4. Safe(s, r.s, f)
      BY <2>1, <2>3
    <2> QED BY <2>4 DEF r, f, w
  <1> QED BY <1>6, <1>7

\* A path is created, unless it is not asked for, and then looked for.
Created(s, path, creat) == IF creat THEN file_create(s, path) ELSE Ret(s, 0)

LEMMA CreatedIs ==
  ASSUME NEW s \in Saved, NEW path \in Seq(Names), NEW creat \in BOOLEAN
  PROVE  \A h \in FilePlace : Safe(s, Created(s, path, creat).s, h)
  <1>1. CASE creat
    BY <1>1, CreateIs DEF Created
  <1>2. CASE ~creat
    <2>1. Created(s, path, creat).s = s
      BY <1>2 DEF Created, Ret
    <2>2. \A h \in FilePlace : Safe(s, s, h)
      BY GrownRefl DEF Grown
    <2> QED BY <2>1, <2>2
  <1> QED BY <1>1, <1>2

LEMMA OpenIs ==
  ASSUME NEW s \in Saved, NEW path \in Seq(Names), NEW creat \in BOOLEAN, NEW trunc \in BOOLEAN,
         LET o == open_file(s, path, creat, FALSE)
         IN  trunc /\ o.v = 0 => Type(o.s, o.f) = "reg"
  PROVE  Safe(s, open_file(s, path, creat, trunc).s, open_file(s, path, creat, FALSE).f)
  <1> DEFINE c == Created(s, path, creat)
             o == walk_path(c.s, path)
             y == file_set_size(o.s, o.f, 0, o.dir)
             Fails == c.s.status # "ok" \/ (c.v < 0 /\ c.v # E_FILE_EXISTS)
             Plain(b) == o.v < 0 \/ o.s.status # "ok" \/ ~b
             x == open_file(s, path, creat, trunc)
             z == open_file(s, path, creat, FALSE)
             none == [s |-> c.s, v |-> c.v, f |-> NIL, dir |-> NIL]
  <1>e. E_NO_DISK = -1 /\ E_INVAL = -3 /\ E_NOT_FOUND = -2
    BY DEF E_NO_DISK, E_INVAL, E_NOT_FOUND
  <1>0. \A h \in FilePlace : Safe(s, c.s, h)
    BY CreatedIs
  <1>1. x = IF Fails THEN none ELSE IF Plain(trunc) THEN o ELSE [o EXCEPT !.s = y]
    BY DEF open_file, Created, file_open
  <1>2. z = IF Fails THEN none ELSE o
    BY DEF open_file, Created, file_open
  <1>g. trunc /\ z.v = 0 => Type(z.s, z.f) = "reg"
    OBVIOUS
  <1> HIDE DEF c, x, z
  <1>3. c.s \in Saved
    BY <1>0, RootPlace DEF Safe, Typed
  <1>4. o \in PathResult /\ Looked(c.s, o.s)
    BY <1>3, PathIs, LastName
  <1> HIDE DEF o
  <1>5. o.s \in Saved /\ o.f \in FilePlace /\ o.dir \in FilePlace /\ (o.v < 0 \/ o.v = 0)
    BY <1>4, <1>e DEF PathResult
  <1>6. Typed(o.s, y) /\ Serves(o.s, y, o.f, 0)
    BY <1>5, SetSizeIs, FsSizes
  <1> HIDE DEF y
  <1>7. CASE Fails
    <2>1. x.s = c.s /\ z.f = NIL
      BY <1>1, <1>2, <1>7
    <2>2. Safe(s, x.s, z.f)
      BY <1>0, <2>1, RootPlace
    <2> QED BY <2>2 DEF x, z
  <1>8. CASE ~Fails /\ Plain(trunc)
    <2>1. x.s = o.s /\ z = o
      BY <1>1, <1>2, <1>8
    <2>2. Safe(s, c.s, o.f) /\ Safe(c.s, o.s, o.f)
      BY <1>0, <1>4, <1>5 DEF Looked, Grown
    <2>3. Safe(s, x.s, z.f)
      BY <2>1, <2>2, SafeTrans
    <2> QED BY <2>3 DEF x, z
  <1>9. CASE ~Fails /\ ~Plain(trunc)
    <2>1. x = [o EXCEPT !.s = y] /\ o.v = 0 /\ trunc /\ z = o
      BY <1>1, <1>2, <1>5, <1>9
    <2>2. x.s = y
      BY <1>4, <2>1 DEF PathResult
    <2>3. Type(o.s, o.f) = "reg"
      BY <1>g, <2>1
    <2> DEFINE u == c.s
               v == o.s
               f == o.f
    <2>4. /\ u \in Saved /\ Looked(u, v) /\ Typed(v, y) /\ Serves(v, y, f, 0) /\ Type(v, f) = "reg"
          /\ f \in FilePlace /\ Safe(s, u, f)
      BY <1>0, <1>3, <1>4, <1>5, <1>6, <2>3
    <2> HIDE DEF u, v, f
    <2>5. Safe(u, y, f)
      BY <2>4, LookedThen
    <2>6. Safe(s, y, f)
      BY <2>4, <2>5, SafeTrans
    <2>7. Safe(s, x.s, z.f)
      BY <2>1, <2>2, <2>6 DEF f
    <2> QED BY <2>7 DEF x, z
  <1> QED BY <1>7, <1>8, <1>9

=============================================================================
