----------------------------- MODULE SpawnProofs -----------------------------
(***************************************************************************)
(* Proofs about Spawn: a failed spawn leaves nothing behind, a child that  *)
(* runs has all of its memory, and its stack page is laid out right, for   *)
(* every page size, every program of the assumed shape and all arguments.  *)
(***************************************************************************)
EXTENDS Spawn, Division, WellFoundedInduction, TLAPS

-----------------------------------------------------------------------------
(* The lengths of the arguments.  Totals is a recursive function: that there *)
(* is one follows from the least number of turns for which there is none.    *)

Turns(lens, n, f) == f = [k \in 0..n |-> IF k = 0 THEN 0 ELSE f[k - 1] + lens[k] + 1]

LEMMA TurnsExist ==
  ASSUME NEW lens \in Seq(Nat), NEW n \in Nat
  PROVE  \E f : Turns(lens, n, f)
  <1> DEFINE Without == {m \in Nat : ~\E f : Turns(lens, m, f)}
  <1>1. ASSUME Without # {} PROVE FALSE
    <2>1. IsWellFoundedOn(OpToRel(<, Nat), Nat)
      BY NatLessThanWellFounded
    <2>2. PICK m \in Without : \A k \in Without : <<k, m>> \notin OpToRel(<, Nat)
      BY <1>1, <2>1, WFMin
    <2>3. \A k \in Nat : k < m => k \notin Without
      BY <2>2 DEF OpToRel
    <2>4. CASE m = 0
      <3> DEFINE f == [k \in 0..0 |-> 0]
      <3>1. f = [k \in 0..0 |-> IF k = 0 THEN 0 ELSE f[k - 1] + lens[k] + 1]
        OBVIOUS
      <3>2. Turns(lens, 0, f)
        BY <3>1 DEF Turns
      <3> QED BY <2>2, <2>4, <3>2
    <2>5. CASE m > 0
      <3>1. m - 1 \in Nat /\ m - 1 \notin Without
        BY <2>3, <2>5
      <3>2. PICK f : Turns(lens, m - 1, f)
        BY <3>1
      <3>3. f = [k \in 0..m - 1 |-> IF k = 0 THEN 0 ELSE f[k - 1] + lens[k] + 1]
        BY <3>2 DEF Turns
      <3> DEFINE g == [k \in 0..m |-> IF k < m THEN f[k] ELSE f[k - 1] + lens[k] + 1]
      <3>4. \A k \in 0..m : g[k] = IF k = 0 THEN 0 ELSE g[k - 1] + lens[k] + 1
        <4> TAKE k \in 0..m
        <4>1. CASE k = m
          <5>1. g[k - 1] = f[k - 1]
            BY <2>5, <4>1
          <5> QED BY <2>5, <4>1, <5>1
        <4>2. CASE k < m
          <5>1. f[k] = IF k = 0 THEN 0 ELSE f[k - 1] + lens[k] + 1
            BY <3>3, <4>2
          <5>2. k # 0 => g[k - 1] = f[k - 1]
            BY <4>2
          <5> QED BY <4>2, <5>1, <5>2
        <4> QED BY <4>1, <4>2
      <3>5. g = [k \in 0..m |-> IF k = 0 THEN 0 ELSE g[k - 1] + lens[k] + 1]
        <4> HIDE DEF g
        <4>1. g = [k \in 0..m |-> g[k]]
          BY DEF g
        <4> QED BY <3>4, <4>1
      <3>6. Turns(lens, m, g)
        BY <3>5 DEF Turns
      <3> QED BY <2>2, <3>6
    <2>6. m \in Nat
      BY <2>2
    <2> QED BY <2>4, <2>5, <2>6
  <1> QED BY <1>1

LEMMA TotalsIs ==
  ASSUME NEW lens \in Seq(Nat)
  PROVE  Turns(lens, Len(lens), Totals(lens))
  <1>1. Len(lens) \in Nat
    OBVIOUS
  <1>2. \E f : Turns(lens, Len(lens), f)
    BY <1>1, TurnsExist
  <1>3. Totals(lens) = CHOOSE f : Turns(lens, Len(lens), f)
    BY DEF Totals, Turns
  <1> QED BY <1>2, <1>3

LEMMA SumToIs ==
  ASSUME NEW lens \in Seq(Nat)
  PROVE  /\ SumTo(lens, 0) = 0
         /\ \A n \in 1..Len(lens) : SumTo(lens, n) = SumTo(lens, n - 1) + lens[n] + 1
  <1> DEFINE tot == Totals(lens)
  <1>1. tot = [k \in 0..Len(lens) |-> IF k = 0 THEN 0 ELSE tot[k - 1] + lens[k] + 1]
    BY TotalsIs DEF Turns
  <1>2. Len(lens) \in Nat
    OBVIOUS
  <1> HIDE DEF tot
  <1>3. \A k \in 0..Len(lens) : tot[k] = IF k = 0 THEN 0 ELSE tot[k - 1] + lens[k] + 1
    BY <1>1
  <1>4. tot[0] = 0
    BY <1>2, <1>3
  <1>5. \A n \in 1..Len(lens) : tot[n] = tot[n - 1] + lens[n] + 1
    BY <1>2, <1>3
  <1> QED BY <1>4, <1>5 DEF SumTo, tot

\* All of the totals are numbers: again by the least one that is not.
LEMMA SumToNat ==
  ASSUME NEW lens \in Seq(Nat), NEW n \in 0..Len(lens)
  PROVE  SumTo(lens, n) \in Nat
  <1> DEFINE Bad == {m \in Nat : m <= Len(lens) /\ SumTo(lens, m) \notin Nat}
  <1>1. ASSUME Bad # {} PROVE FALSE
    <2>1. IsWellFoundedOn(OpToRel(<, Nat), Nat)
      BY NatLessThanWellFounded
    <2>2. PICK m \in Bad : \A k \in Bad : <<k, m>> \notin OpToRel(<, Nat)
      BY <1>1, <2>1, WFMin
    <2>3. m \in Nat /\ m <= Len(lens) /\ SumTo(lens, m) \notin Nat /\ Len(lens) \in Nat
      <3>1. m \in Bad
        BY <2>2
      <3>2. Len(lens) \in Nat
        OBVIOUS
      <3> QED BY <3>1, <3>2
    <2>4. \A k \in Nat : k < m => k \notin Bad
      BY <2>2 DEF OpToRel
    <2>5. m # 0
      BY <2>3, SumToIs
    <2>6. m - 1 \in Nat /\ m - 1 <= Len(lens) /\ m \in 1..Len(lens)
      BY <2>3, <2>5
    <2>7. SumTo(lens, m - 1) \in Nat
      <3>1. m - 1 < m
        BY <2>3
      <3>2. m - 1 \notin Bad
        BY <2>4, <2>6, <3>1
      <3> QED BY <2>6, <3>2
    <2>8. lens[m] \in Nat
      BY <2>6
    <2> QED BY <2>3, <2>6, <2>7, <2>8, SumToIs
  <1> QED BY <1>1

\* What init_stack builds is laid out as StackFits says, if it fits.
LEMMA StackPageFits ==
  ASSUME NEW lens \in Seq(Nat), Fits(lens), NEW page, page = StackPage(lens)
  PROVE  /\ page.sp >= 0 /\ page.sp % 4 = 0
         /\ page.argv + 4 * (page.argc + 1) <= page.strings
         /\ \A n \in 1..Len(lens) :
              page.args[n] + lens[n] + 1 =
                IF n = Len(lens) THEN PAGE_SIZE ELSE page.args[n + 1]
  <1> DEFINE L == Len(lens)
             tot == SumTo(lens, L)
             up == ROUND(tot, 4)
  <1>1. L \in Nat /\ tot \in Nat /\ PAGE_SIZE \in Nat /\ PAGE_SIZE % 4 = 0
    BY SumToNat, SpawnSizes
  <1>2. page = [argc |-> L, sp |-> PAGE_SIZE - up - 4 * (L + 1) - 8,
                argv |-> PAGE_SIZE - up - 4 * (L + 1), strings |-> PAGE_SIZE - tot,
                args |-> [n \in 1..L + 1 |->
                            IF n <= L THEN (PAGE_SIZE - tot) + SumTo(lens, n - 1) ELSE PAGE_SIZE - 1]]
    BY DEF StackPage
  <1>3. up + 4 * (L + 3) <= PAGE_SIZE
    BY DEF Fits
  <1> HIDE DEF L
  <1>4. up \in Nat /\ up >= tot /\ up % 4 = 0
    <2> HIDE DEF tot
    <2> QED BY <1>1 DEF ROUND
  <1> HIDE DEF tot, up
  <1>5. page.sp >= 0 /\ page.argv + 4 * (page.argc + 1) <= page.strings
    BY <1>1, <1>2, <1>3, <1>4
  <1>6. page.sp % 4 = 0
    BY <1>1, <1>2, <1>4
  <1>7. ASSUME NEW n \in 1..L
        PROVE  page.args[n] + lens[n] + 1 = IF n = L THEN PAGE_SIZE ELSE page.args[n + 1]
    <2> DEFINE a == SumTo(lens, n - 1)
               b == SumTo(lens, n)
    <2>1. a \in Nat /\ b \in Nat /\ lens[n] \in Nat /\ b = a + lens[n] + 1
      BY <1>1, SumToIs, SumToNat DEF L
    <2>2. page.args[n] = (PAGE_SIZE - tot) + a
      BY <1>1, <1>2
    <2>3. CASE n = L
      <3>1. b = tot
        BY <2>3 DEF tot
      <3>2. page.args[n] + lens[n] + 1 = PAGE_SIZE
        <4> DEFINE x == page.args[n]
                   y == lens[n]
        <4>1. x = (PAGE_SIZE - tot) + a /\ y \in Nat /\ a \in Nat /\ tot = a + y + 1
          BY <2>1, <2>2, <3>1
        <4>2. PAGE_SIZE \in Nat /\ tot \in Nat
          BY <1>1
        <4> HIDE DEF a, b, x, y
        <4>3. x + y + 1 = PAGE_SIZE
          BY <4>1, <4>2
        <4> QED BY <4>3 DEF x, y
      <3> QED BY <2>3, <3>2
    <2>4. CASE n # L
      <3>1. page.args[n + 1] = (PAGE_SIZE - tot) + SumTo(lens, (n + 1) - 1)
        BY <1>1, <1>2, <2>4
      <3>2. (n + 1) - 1 = n
        OBVIOUS
      <3>3. page.args[n + 1] = (PAGE_SIZE - tot) + b
        BY <3>1, <3>2
      <3>4. page.args[n] + lens[n] + 1 = page.args[n + 1]
        <4> DEFINE x == page.args[n]
                   y == lens[n]
                   z == page.args[n + 1]
        <4>1. x = (PAGE_SIZE - tot) + a /\ y \in Nat /\ a \in Nat /\ b = a + y + 1
          BY <2>1, <2>2
        <4>2. PAGE_SIZE \in Nat /\ tot \in Nat /\ z = (PAGE_SIZE - tot) + b
          BY <1>1, <3>3
        <4> HIDE DEF a, b, x, y, z
        <4>3. x + y + 1 = z
          BY <4>1, <4>2
        <4> QED BY <4>3 DEF x, y, z
      <3> QED BY <2>4, <3>4
    <2> QED BY <2>3, <2>4
  <1> QED BY <1>5, <1>6, <1>7 DEF L

-----------------------------------------------------------------------------
(* One call of map_page, on any memory. *)

SegOK(seg) ==
  /\ seg \in [va : Nat, src : Nat, filesz : Nat, memsz : Nat \ {0}]
  /\ seg.filesz <= seg.memsz /\ LastPage(seg) < NPAGE
  /\ \/ seg.va % PAGE_SIZE = 0 \/ seg.filesz = seg.memsz
     \/ seg.filesz >= PAGE_SIZE - (seg.va % PAGE_SIZE)

PageOK(p) == p = NoPage \/ (p.off >= 0 /\ p.off + p.len <= PAGE_SIZE)
Memory == [Page -> [off : Int, src : Int, len : Nat]]

\* Byte, and what ChildComplete says of a segment, up to a position in it.
ByteIn(m, v) ==
  LET p == m[v \div PAGE_SIZE]
      o == v % PAGE_SIZE
  IN  IF p.off >= 0 /\ o >= p.off /\ o < p.off + p.len THEN p.src + o - p.off ELSE 0
Shows(m, seg, at) ==
  \A k \in 0..seg.memsz - 1 :
    k < at => ByteIn(m, seg.va + k) = IF k < seg.filesz THEN seg.src + k ELSE 0

\* The values of i: at the beginning of a page, or past the end.
Stands(seg, at) ==
  \/ at = Before /\ seg.va % PAGE_SIZE # 0
  \/ at \in Nat /\ (at >= seg.memsz \/ (seg.va + at) % PAGE_SIZE = 0)

LEMMA PageSize == PAGE_SIZE \in Nat /\ PAGE_SIZE > 0 /\ NPAGE \in Nat
  BY SpawnSizes

LEMMA SegFields ==
  ASSUME NEW seg, SegOK(seg)
  PROVE  /\ seg.va \in Nat /\ seg.src \in Nat /\ seg.filesz \in Nat /\ seg.memsz \in Nat
         /\ seg.memsz > 0 /\ seg.filesz <= seg.memsz
  BY DEF SegOK

\* The bytes of a segment are in its pages.
LEMMA InPages ==
  ASSUME NEW seg, SegOK(seg), NEW k \in 0..seg.memsz - 1
  PROVE  /\ FirstPage(seg) \in Nat /\ LastPage(seg) \in Nat
         /\ (seg.va + k) \div PAGE_SIZE \in FirstPage(seg)..LastPage(seg)
         /\ (seg.va + k) \div PAGE_SIZE \in Page
  <1> DEFINE a == seg.va
             b == seg.va + k
             z == seg.va + seg.memsz - 1
  <1>1. a \in Nat /\ b \in Nat /\ z \in Nat /\ a <= b /\ b <= z
    BY SegFields
  <1>2. FirstPage(seg) = a \div PAGE_SIZE /\ LastPage(seg) = z \div PAGE_SIZE
    BY DEF FirstPage, LastPage
  <1> HIDE DEF a, b, z
  <1>3. a \div PAGE_SIZE \in Nat /\ b \div PAGE_SIZE \in Nat /\ z \div PAGE_SIZE \in Nat
    BY <1>1, PageSize, DivMod
  <1>4. a \div PAGE_SIZE <= b \div PAGE_SIZE /\ b \div PAGE_SIZE <= z \div PAGE_SIZE
    BY <1>1, PageSize, PagesInOrder
  <1> DEFINE q == b \div PAGE_SIZE
  <1>5. q \in Nat /\ FirstPage(seg) \in Nat /\ LastPage(seg) \in Nat
        /\ FirstPage(seg) <= q /\ q <= LastPage(seg) /\ LastPage(seg) < NPAGE
    BY <1>2, <1>3, <1>4 DEF SegOK
  <1>6. b \div PAGE_SIZE = q
    OBVIOUS
  <1> HIDE DEF q
  <1>7. q \in FirstPage(seg)..LastPage(seg) /\ q \in Page
    BY <1>5, PageSize DEF Page
  <1> QED BY <1>5, <1>6, <1>7 DEF b

\* map_page is called for a page of the segment.
LEMMA MapAtIn ==
  ASSUME NEW seg, SegOK(seg), NEW at, Stands(seg, at), More(seg, at)
  PROVE  /\ MapAt(seg, at) \in FirstPage(seg)..LastPage(seg) /\ MapAt(seg, at) \in Page
         /\ at # Before => at \in Nat /\ at < seg.memsz /\ (seg.va + at) % PAGE_SIZE = 0
  <1>1. CASE at = Before
    <2>1. 0 \in 0..seg.memsz - 1 /\ seg.va + 0 = seg.va
      BY SegFields
    <2>2. MapAt(seg, at) = (seg.va + 0) \div PAGE_SIZE
      BY <1>1, <2>1 DEF MapAt, FirstPage
    <2> QED BY <1>1, <2>1, <2>2, InPages
  <1>2. CASE at # Before
    <2>1. at \in Nat /\ (at < seg.filesz \/ at < seg.memsz)
      BY <1>2 DEF Stands, More
    <2>2. at < seg.memsz /\ at \in 0..seg.memsz - 1
      BY <2>1, SegFields
    <2>3. (seg.va + at) % PAGE_SIZE = 0
      BY <1>2, <2>1, <2>2, SegFields DEF Stands
    <2>4. MapAt(seg, at) = (seg.va + at) \div PAGE_SIZE
      BY <1>2 DEF MapAt
    <2> QED BY <2>1, <2>2, <2>3, <2>4, InPages
  <1> QED BY <1>1, <1>2

LEMMA ByteElsewhere ==
  ASSUME NEW m \in Memory, NEW p \in Page, NEW c, NEW v \in Nat,
         v \div PAGE_SIZE \in Page, v \div PAGE_SIZE # p
  PROVE  ByteIn([m EXCEPT ![p] = c], v) = ByteIn(m, v)
  <1> DEFINE q == v \div PAGE_SIZE
             o == v % PAGE_SIZE
  <1>1. [m EXCEPT ![p] = c][q] = m[q]
    BY DEF Memory
  <1> HIDE DEF q
  <1> QED BY <1>1 DEF ByteIn, q

LEMMA ByteThere ==
  ASSUME NEW m \in Memory, NEW p \in Page, NEW c, NEW v \in Nat, v \div PAGE_SIZE = p
  PROVE  ByteIn([m EXCEPT ![p] = c], v) =
           IF c.off >= 0 /\ v % PAGE_SIZE >= c.off /\ v % PAGE_SIZE < c.off + c.len
           THEN c.src + (v % PAGE_SIZE) - c.off ELSE 0
  <1> DEFINE n == [m EXCEPT ![p] = c]
  <1>1. n[v \div PAGE_SIZE] = c
    BY DEF Memory
  <1> HIDE DEF n
  <1>2. ByteIn(n, v) = IF c.off >= 0 /\ v % PAGE_SIZE >= c.off /\ v % PAGE_SIZE < c.off + c.len
                       THEN c.src + (v % PAGE_SIZE) - c.off ELSE 0
    BY <1>1 DEF ByteIn
  <1> QED BY <1>2 DEF n

\* A segment on other pages keeps its bytes.
LEMMA OtherKept ==
  ASSUME NEW m \in Memory, NEW seg, SegOK(seg), NEW other, SegOK(other),
         LastPage(seg) < FirstPage(other) \/ LastPage(other) < FirstPage(seg),
         NEW at, Stands(seg, at), More(seg, at), NEW c, NEW upto,
         Shows(m, other, upto)
  PROVE  Shows([m EXCEPT ![MapAt(seg, at)] = c], other, upto)
  <1> DEFINE p == MapAt(seg, at)
  <1>1. p \in Page /\ p \in FirstPage(seg)..LastPage(seg)
    BY MapAtIn
  <1>2. FirstPage(seg) \in Nat /\ LastPage(seg) \in Nat /\ 0 \in 0..other.memsz - 1
    <2>1. 0 \in 0..seg.memsz - 1 /\ 0 \in 0..other.memsz - 1
      BY SegFields
    <2> QED BY <2>1, InPages
  <1> HIDE DEF p
  <1>3. ASSUME NEW k \in 0..other.memsz - 1
        PROVE  ByteIn([m EXCEPT ![p] = c], other.va + k) = ByteIn(m, other.va + k)
    <2> DEFINE q == (other.va + k) \div PAGE_SIZE
    <2>1. q \in Page /\ q \in FirstPage(other)..LastPage(other)
          /\ FirstPage(other) \in Nat /\ LastPage(other) \in Nat
      BY InPages
    <2>2. other.va + k \in Nat
      BY SegFields
    <2>3. q # p
      <3> HIDE DEF q
      <3> QED BY <1>1, <1>2, <2>1
    <2> QED BY <1>1, <2>1, <2>2, <2>3, ByteElsewhere
  <1> QED BY <1>3 DEF Shows, p

\* So do the bytes before the position in the segment itself.
LEMMA EarlierKept ==
  ASSUME NEW m \in Memory, NEW seg, SegOK(seg), NEW at, Stands(seg, at), More(seg, at), NEW c,
         Shows(m, seg, at)
  PROVE  Shows([m EXCEPT ![MapAt(seg, at)] = c], seg, at)
  <1> DEFINE p == MapAt(seg, at)
  <1>1. p \in Page
    BY MapAtIn
  <1>2. ASSUME NEW k \in 0..seg.memsz - 1, k < at
        PROVE  ByteIn([m EXCEPT ![p] = c], seg.va + k) = ByteIn(m, seg.va + k)
    <2>1. at # Before
      BY <1>2 DEF Before
    <2>2. at \in Nat /\ (seg.va + at) % PAGE_SIZE = 0 /\ p = (seg.va + at) \div PAGE_SIZE
      BY <2>1, MapAtIn DEF MapAt
    <2>3. seg.va + k \in Nat /\ seg.va + at \in Nat /\ seg.va + k < seg.va + at
      BY <1>2, <2>2, SegFields
    <2>4. (seg.va + k) \div PAGE_SIZE # (seg.va + at) \div PAGE_SIZE
      BY <2>2, <2>3, PageSize, EarlierPage
    <2>5. (seg.va + k) \div PAGE_SIZE \in Page
      BY InPages
    <2> HIDE DEF p
    <2>6. (seg.va + k) \div PAGE_SIZE # p
      BY <2>2, <2>4
    <2> QED BY <1>1, <2>3, <2>5, <2>6, ByteElsewhere
  <1> QED BY <1>2 DEF Shows, p

\* The position after the page.
LEMMA AdvanceStands ==
  ASSUME NEW seg, SegOK(seg), NEW at, Stands(seg, at), More(seg, at)
  PROVE  Stands(seg, Advance(seg, at)) /\ Advance(seg, at) \in Nat
  <1> DEFINE m == seg.va % PAGE_SIZE
  <1>1. seg.va \in Nat /\ seg.filesz \in Nat /\ seg.memsz \in Nat /\ PAGE_SIZE \in Nat /\ PAGE_SIZE > 0
    BY SegFields, PageSize
  <1>2. m \in 0..PAGE_SIZE - 1
    BY <1>1, DivMod
  <1>3. CASE at = Before
    <2>1. Advance(seg, at) = FirstLen(seg) /\ FirstLen(seg) = MIN(seg.filesz, PAGE_SIZE - m)
      BY <1>3 DEF Advance, FirstLen
    <2>2. m # 0
      BY <1>3 DEF Stands, Before
    <2>3. CASE seg.filesz < PAGE_SIZE - m
      <3>1. Advance(seg, at) = seg.filesz
        BY <2>1, <2>3 DEF MIN
      <3>2. seg.filesz = seg.memsz \/ seg.filesz >= PAGE_SIZE - m
        BY <2>2 DEF SegOK
      <3> HIDE DEF m
      <3>3. seg.filesz = seg.memsz
        BY <1>1, <1>2, <2>3, <3>2
      <3> QED BY <1>1, <3>1, <3>3 DEF Stands
    <2>4. CASE ~(seg.filesz < PAGE_SIZE - m)
      <3>1. Advance(seg, at) = PAGE_SIZE - m
        BY <2>1, <2>4 DEF MIN
      <3>2. (seg.va + (PAGE_SIZE - m)) % PAGE_SIZE = 0
        BY <1>1, NextPage
      <3> HIDE DEF m
      <3>3. PAGE_SIZE - m \in Nat
        BY <1>1, <1>2
      <3> QED BY <3>1, <3>2, <3>3 DEF Stands
    <2> QED BY <2>3, <2>4
  <1>4. CASE at # Before
    <2>1. at \in Nat /\ (seg.va + at) % PAGE_SIZE = 0
      BY <1>4, MapAtIn
    <2>2. Advance(seg, at) = at + PAGE_SIZE
      BY <1>4 DEF Advance
    <2>3. seg.va + at \in Nat /\ at + PAGE_SIZE \in Nat /\ (seg.va + at) + PAGE_SIZE = seg.va + (at + PAGE_SIZE)
      BY <1>1, <2>1
    <2>4. ((seg.va + at) + PAGE_SIZE) % PAGE_SIZE = 0
      BY <1>1, <2>1, <2>3, NextPage
    <2>5. (seg.va + (at + PAGE_SIZE)) % PAGE_SIZE = 0
      BY <2>3, <2>4
    <2> QED BY <2>2, <2>3, <2>5 DEF Stands
  <1> QED BY <1>3, <1>4

\* What is put into the page is what the segment says of it.
LEMMA PageShows ==
  ASSUME NEW m \in Memory, NEW seg, SegOK(seg), NEW at, Stands(seg, at), More(seg, at),
         Shows(m, seg, at)
  PROVE  Shows([m EXCEPT ![MapAt(seg, at)] = Content(seg, at)], seg, Advance(seg, at))
  <1> DEFINE p == MapAt(seg, at)
             c == Content(seg, at)
             n == [m EXCEPT ![p] = c]
  <1>1. seg.va \in Nat /\ seg.src \in Nat /\ seg.filesz \in Nat /\ seg.memsz \in Nat
        /\ PAGE_SIZE \in Nat /\ PAGE_SIZE > 0
    BY SegFields, PageSize
  <1>2. p \in Page
    BY MapAtIn
  <1>3. Shows(n, seg, at)
    BY EarlierKept
  <1>4. \A v \in Nat : v \div PAGE_SIZE = p =>
          ByteIn(n, v) = IF c.off >= 0 /\ v % PAGE_SIZE >= c.off /\ v % PAGE_SIZE < c.off + c.len
                         THEN c.src + (v % PAGE_SIZE) - c.off ELSE 0
    <2> HIDE DEF p, c
    <2> QED BY <1>2, ByteThere
  <1> HIDE DEF n
  <1>5. ASSUME NEW k \in 0..seg.memsz - 1, k < Advance(seg, at), ~(k < at)
        PROVE  ByteIn(n, seg.va + k) = IF k < seg.filesz THEN seg.src + k ELSE 0
    <2>1. seg.va + k \in Nat
      BY <1>1
    <2>2. CASE at = Before
      <3> DEFINE o == seg.va % PAGE_SIZE
                 len == FirstLen(seg)
      <3>1. o \in 0..PAGE_SIZE - 1
        BY <1>1, DivMod
      <3>2. p = seg.va \div PAGE_SIZE /\ c = [off |-> o, src |-> seg.src, len |-> len]
        BY <2>2 DEF MapAt, Content, FirstPage
      <3>3. k < len /\ len = MIN(seg.filesz, PAGE_SIZE - o)
        BY <1>5, <2>2 DEF Advance, FirstLen
      <3>4. (seg.va + k) \div PAGE_SIZE = seg.va \div PAGE_SIZE /\ (seg.va + k) % PAGE_SIZE = o + k
        <4>1. o + k < PAGE_SIZE
          <5> HIDE DEF o, len
          <5> QED BY <1>1, <3>1, <3>3 DEF MIN
        <4> DEFINE a == seg.va
        <4>2. a \in Nat /\ k \in Nat /\ (a % PAGE_SIZE) + k < PAGE_SIZE
          BY <1>1, <4>1
        <4> HIDE DEF a
        <4>3. (a + k) \div PAGE_SIZE = a \div PAGE_SIZE /\ (a + k) % PAGE_SIZE = (a % PAGE_SIZE) + k
          BY <1>1, <4>2, SamePage
        <4> QED BY <4>3 DEF a
      <3> HIDE DEF p, c
      <3>5. ByteIn(n, seg.va + k) = IF c.off >= 0 /\ o + k >= c.off /\ o + k < c.off + c.len
                                    THEN c.src + (o + k) - c.off ELSE 0
        BY <1>4, <2>1, <3>2, <3>4
      <3> HIDE DEF o, len
      <3>6. k < seg.filesz /\ len \in Nat
        BY <1>1, <3>1, <3>3 DEF MIN
      <3>7. ByteIn(n, seg.va + k) = seg.src + k
        BY <1>1, <3>1, <3>2, <3>3, <3>5, <3>6
      <3> QED BY <3>6, <3>7
    <2>3. CASE at # Before
      <3> DEFINE j == k - at
      <3>1. at \in Nat /\ (seg.va + at) % PAGE_SIZE = 0 /\ p = (seg.va + at) \div PAGE_SIZE
        BY <2>3, MapAtIn DEF MapAt
      <3>2. k < at + PAGE_SIZE
        BY <1>5, <2>3 DEF Advance
      <3>3. j \in Nat /\ j < PAGE_SIZE /\ (seg.va + at) + j = seg.va + k /\ seg.va + at \in Nat
        BY <1>1, <1>5, <3>1, <3>2
      <3>4. (seg.va + k) \div PAGE_SIZE = p /\ (seg.va + k) % PAGE_SIZE = j
        <4> DEFINE a == seg.va + at
        <4>1. a \in Nat /\ a % PAGE_SIZE = 0 /\ p = a \div PAGE_SIZE /\ a + j = seg.va + k
          BY <3>1, <3>3
        <4> HIDE DEF a, j, p
        <4>2. (a % PAGE_SIZE) + j < PAGE_SIZE /\ (a % PAGE_SIZE) + j = j
          BY <3>3, <4>1
        <4>3. PAGE_SIZE \in Nat /\ PAGE_SIZE > 0 /\ j \in Nat
          BY <1>1, <3>3
        <4>4. (a + j) \div PAGE_SIZE = a \div PAGE_SIZE /\ (a + j) % PAGE_SIZE = (a % PAGE_SIZE) + j
          <5>1. a \in Nat /\ (a % PAGE_SIZE) + j < PAGE_SIZE
            BY <4>1, <4>2
          <5> QED BY <4>3, <5>1, SamePage
        <4> QED BY <4>1, <4>2, <4>4
      <3>5. ByteIn(n, seg.va + k) = IF c.off >= 0 /\ j >= c.off /\ j < c.off + c.len
                                    THEN c.src + j - c.off ELSE 0
        <4> HIDE DEF p, c, j
        <4> QED BY <1>4, <2>1, <3>4
      <3>6. CASE at < seg.filesz
        <4>1. c = [off |-> 0, src |-> seg.src + at, len |-> MIN(seg.filesz - at, PAGE_SIZE)]
          BY <2>3, <3>6 DEF Content
        <4> HIDE DEF c
        <4>2. CASE k < seg.filesz
          <5>1. j < MIN(seg.filesz - at, PAGE_SIZE)
            BY <1>1, <3>1, <3>3, <4>2 DEF MIN
          <5>2. ByteIn(n, seg.va + k) = (seg.src + at) + j
            BY <1>1, <3>1, <3>3, <3>5, <3>6, <4>1, <5>1 DEF MIN
          <5>3. (seg.src + at) + j = seg.src + k
            BY <1>1, <3>1
          <5> QED BY <4>2, <5>2, <5>3
        <4>3. CASE ~(k < seg.filesz)
          <5>1. ~(j < MIN(seg.filesz - at, PAGE_SIZE))
            BY <1>1, <3>1, <3>3, <4>3 DEF MIN
          <5>2. 0 + MIN(seg.filesz - at, PAGE_SIZE) = MIN(seg.filesz - at, PAGE_SIZE)
            BY <1>1, <3>1 DEF MIN
          <5>3. ByteIn(n, seg.va + k) = 0
            BY <3>5, <4>1, <5>1, <5>2
          <5> QED BY <4>3, <5>3
        <4> QED BY <4>2, <4>3
      <3>7. CASE ~(at < seg.filesz)
        <4>1. c = ZeroPage
          BY <2>3, <3>7 DEF Content
        <4> HIDE DEF c
        <4>2. ~(k < seg.filesz)
          BY <1>1, <1>5, <3>1, <3>7
        <4>3. ByteIn(n, seg.va + k) = 0
          BY <3>3, <3>5, <4>1 DEF ZeroPage
        <4> QED BY <4>2, <4>3
      <3> QED BY <3>6, <3>7
    <2> QED BY <2>2, <2>3
  <1>6. Shows(n, seg, Advance(seg, at))
    BY <1>3, <1>5 DEF Shows
  <1> QED BY <1>6 DEF n

\* And it lies in the page.
LEMMA ContentFits ==
  ASSUME NEW seg, SegOK(seg), NEW at, Stands(seg, at)
  PROVE  Content(seg, at) \in [off : Int, src : Int, len : Nat] /\ PageOK(Content(seg, at))
  <1>1. seg.va \in Nat /\ seg.src \in Nat /\ seg.filesz \in Nat /\ PAGE_SIZE \in Nat /\ PAGE_SIZE > 0
    BY SegFields, PageSize
  <1>2. CASE at = Before
    <2> DEFINE o == seg.va % PAGE_SIZE
    <2>1. o \in 0..PAGE_SIZE - 1
      BY <1>1, DivMod
    <2>2. Content(seg, at) = [off |-> o, src |-> seg.src, len |-> MIN(seg.filesz, PAGE_SIZE - o)]
      BY <1>2 DEF Content, FirstLen
    <2> HIDE DEF o
    <2> QED BY <1>1, <2>1, <2>2 DEF MIN, PageOK
  <1>3. CASE at # Before
    <2>1. at \in Nat
      BY <1>3 DEF Stands
    <2> QED BY <1>1, <1>3, <2>1 DEF Content, MIN, PageOK, ZeroPage
  <1> QED BY <1>2, <1>3

-----------------------------------------------------------------------------
(* The inductive invariant. *)

JobOK == job \in [by : {"spawn", "load_icode"}, segs : Segments, lens : Args, lib : Library]

\* What spawn holds, by the place it is at.
Held ==
  /\ utemp => pc \in {"stack_map", "copy"}
  /\ fd => pc \notin {"open", "share", "err2", "done"}
  /\ ByKernel => ~fd /\ pc \in {"phdr", "load", "done"}
  /\ pc \in {"open", "readn", "exofork"} => child = "none"
  /\ pc \in {"err", "done"} => child # "ENV_NOT_RUNNABLE"
  /\ child = "ENV_RUNNABLE" => pc = "done"

StackBuilt ==
  /\ stack \in {NoStack, StackPage(job.lens)}
  /\ stack # NoStack \/ pc = "stack_map" => Fits(job.lens)
  /\ ~ByKernel /\ (pc \in {"phdr", "load", "map_utemp", "copy", "share"} \/ child = "ENV_RUNNABLE")
       => stack = StackPage(job.lens)
  /\ ~ByKernel /\ child = "ENV_RUNNABLE" => lib = job.lib

Loading == pc \in {"load", "map_utemp", "copy"}
Whole(n) == Shows(mem, job.segs[n], job.segs[n].memsz)

\* The segments before ph are in memory, segment ph up to i, in the end all.
Loaded ==
  /\ pc \in {"open", "readn", "exofork", "stack_alloc", "stack_map"} => ph = 1
  /\ Loading \/ pc = "phdr" => \A n \in DOMAIN job.segs : n < ph => Whole(n)
  /\ Loading => ph \in DOMAIN job.segs /\ Stands(Seg, i) /\ Shows(mem, Seg, i)
  /\ pc \in {"map_utemp", "copy"} => More(Seg, i)
  /\ pc = "share" \/ child = "ENV_RUNNABLE" => \A n \in DOMAIN job.segs : Whole(n)

SInv == JobOK /\ TypeOK /\ Held /\ StackBuilt /\ Loaded

LEMMA JobFacts ==
  ASSUME JobOK
  PROVE  /\ Len(job.segs) \in Nat /\ DOMAIN job.segs = 1..Len(job.segs)
         /\ job.lens \in Seq(Nat) /\ job.lib \in Nat
         /\ \A n \in DOMAIN job.segs : SegOK(job.segs[n])
         /\ \A n, m \in DOMAIN job.segs : n # m =>
              \/ LastPage(job.segs[m]) < FirstPage(job.segs[n])
              \/ LastPage(job.segs[n]) < FirstPage(job.segs[m])
  <1>1. job.segs \in Segments /\ job.lens \in Args /\ job.lib \in Library
    BY DEF JobOK
  <1>2. job.segs \in Seq([va : Nat, src : Nat, filesz : Nat, memsz : Nat \ {0}])
    BY <1>1, SegmentShapes
  <1> DEFINE R == [va : Nat, src : Nat, filesz : Nat, memsz : Nat \ {0}]
  <1>3. Len(job.segs) \in Nat /\ DOMAIN job.segs = 1..Len(job.segs)
    BY <1>2
  <1>4. \A n \in DOMAIN job.segs : job.segs[n] \in R
    <2>1. job.segs \in Seq(R)
      BY <1>2
    <2> HIDE DEF R
    <2> QED BY <2>1
  <1>5. \A n \in DOMAIN job.segs : SegOK(job.segs[n])
    BY <1>1, <1>4, SegmentShapes DEF SegOK
  <1>6. \A n, m \in DOMAIN job.segs : n # m =>
              \/ LastPage(job.segs[m]) < FirstPage(job.segs[n])
              \/ LastPage(job.segs[n]) < FirstPage(job.segs[m])
    BY <1>1, SegmentShapes
  <1> QED BY <1>1, <1>3, <1>5, <1>6, SpawnSizes

\* A step leaves what spawn holds to the place it goes to.
LEMMA HeldKeeps == SInv /\ [Next]_vars => Held'
  <1> SUFFICES ASSUME SInv, [Next]_vars PROVE Held'
    OBVIOUS
  <1> USE DEF SInv, Held, ByKernel
  <1>1. CASE open
    BY <1>1 DEF open, At, Goto, Held, ByKernel
  <1>2. CASE read_header
    BY <1>2 DEF read_header, At, Goto, Held, ByKernel
  <1>3. CASE exofork
    BY <1>3 DEF exofork, At, Goto, Held, ByKernel
  <1>4. CASE stack_alloc
    BY <1>4 DEF stack_alloc, At, Goto, Held, ByKernel
  <1>5. CASE stack_map
    BY <1>5 DEF stack_map, At, Goto, Exists, Held, ByKernel
  <1>6. CASE next_segment
    BY <1>6 DEF next_segment, At, Goto, ByKernel, Held
  <1>7. CASE end_segment
    BY <1>7 DEF end_segment, At, Goto, Held, ByKernel
  <1>8. CASE load_icode_mapper
    BY <1>8 DEF load_icode_mapper, At, Goto, ByKernel, Held
  <1>9. CASE mapper_alloc
    BY <1>9 DEF mapper_alloc, At, Goto, ByKernel, Held
  <1>10. CASE mapper_utemp
    BY <1>10 DEF mapper_utemp, At, Goto, Held, ByKernel
  <1>11. CASE mapper_copy
    BY <1>11 DEF mapper_copy, At, Goto, Held, ByKernel
  <1>12. CASE share
    BY <1>12 DEF share, At, Goto, Held, ByKernel
  <1>13. CASE set_env_status
    BY <1>13 DEF set_env_status, At, Goto, Held, ByKernel
  <1>14. CASE err2
    BY <1>14 DEF err2, At, Goto, destroy, Exists, Held, ByKernel
  <1>15. CASE err1
    BY <1>15 DEF err1, At, Goto, destroy, Exists, Held, ByKernel
  <1>16. CASE err
    BY <1>16 DEF err, At, Goto, Held, ByKernel
  <1>17. CASE UNCHANGED vars
    BY <1>17 DEF vars, Held, ByKernel
  <1> QED BY <1>1, <1>2, <1>3, <1>4, <1>5, <1>6, <1>7, <1>8, <1>9, <1>10, <1>11, <1>12, <1>13, <1>14, <1>15, <1>16, <1>17 DEF Next, Done

\* The stack page is built once, from arguments that fit.
LEMMA StackKeeps == SInv /\ [Next]_vars => StackBuilt'
  <1> SUFFICES ASSUME SInv, [Next]_vars PROVE StackBuilt'
    OBVIOUS
  <1> USE DEF SInv, StackBuilt, ByKernel
  <1>1. CASE open
    BY <1>1 DEF open, At, Goto, StackBuilt, Held, ByKernel
  <1>2. CASE read_header
    BY <1>2 DEF read_header, At, Goto, StackBuilt, Held, ByKernel
  <1>3. CASE exofork
    BY <1>3 DEF exofork, At, Goto, StackBuilt, Held, ByKernel
  <1>4. CASE stack_alloc
    BY <1>4 DEF stack_alloc, At, Goto, StackBuilt, Held, ByKernel
  <1>5. CASE stack_map
    BY <1>5 DEF stack_map, At, Goto, Exists, StackBuilt, Held, ByKernel
  <1>6. CASE next_segment
    BY <1>6 DEF next_segment, At, Goto, ByKernel, StackBuilt, Held
  <1>7. CASE end_segment
    BY <1>7 DEF end_segment, At, Goto, StackBuilt, Held, ByKernel
  <1>8. CASE load_icode_mapper
    BY <1>8 DEF load_icode_mapper, At, Goto, ByKernel, StackBuilt, Held
  <1>9. CASE mapper_alloc
    BY <1>9 DEF mapper_alloc, At, Goto, ByKernel, StackBuilt, Held
  <1>10. CASE mapper_utemp
    BY <1>10 DEF mapper_utemp, At, Goto, StackBuilt, Held, ByKernel
  <1>11. CASE mapper_copy
    BY <1>11 DEF mapper_copy, At, Goto, StackBuilt, Held, ByKernel
  <1>12. CASE share
    BY <1>12 DEF share, At, Goto, StackBuilt, Held, ByKernel
  <1>13. CASE set_env_status
    BY <1>13 DEF set_env_status, At, Goto, StackBuilt, Held, ByKernel
  <1>14. CASE err2
    BY <1>14 DEF err2, At, Goto, destroy, Exists, StackBuilt, Held, ByKernel
  <1>15. CASE err1
    BY <1>15 DEF err1, At, Goto, destroy, Exists, StackBuilt, Held, ByKernel
  <1>16. CASE err
    BY <1>16 DEF err, At, Goto, StackBuilt, Held, ByKernel
  <1>17. CASE UNCHANGED vars
    BY <1>17 DEF vars, StackBuilt, Held, ByKernel
  <1> QED BY <1>1, <1>2, <1>3, <1>4, <1>5, <1>6, <1>7, <1>8, <1>9, <1>10, <1>11, <1>12, <1>13, <1>14, <1>15, <1>16, <1>17 DEF Next, Done

LEMMA WriteTyped ==
  ASSUME NEW m \in Memory, \A n \in Page : PageOK(m[n]), NEW p, NEW c, PageOK(c),
         c \in [off : Int, src : Int, len : Nat]
  PROVE  /\ [m EXCEPT ![p] = c] \in Memory
         /\ \A n \in Page : PageOK([m EXCEPT ![p] = c][n])
  <1> DEFINE R == [off : Int, src : Int, len : Nat]
  <1>1. m \in [Page -> R] /\ c \in R
    BY DEF Memory
  <1> HIDE DEF R
  <1>2. [m EXCEPT ![p] = c] \in [Page -> R]
    BY <1>1
  <1>3. ASSUME NEW n \in Page PROVE PageOK([m EXCEPT ![p] = c][n])
    <2>1. [m EXCEPT ![p] = c][n] = m[n] \/ [m EXCEPT ![p] = c][n] = c
      BY <1>1
    <2> QED BY <2>1
  <1> QED BY <1>2, <1>3 DEF Memory, R

LEMMA EmptyPages ==
  /\ PageOK(NoPage) /\ NoPage \in [off : Int, src : Int, len : Nat]
  /\ PageOK(ZeroPage) /\ ZeroPage \in [off : Int, src : Int, len : Nat]
  BY PageSize DEF PageOK, NoPage, ZeroPage

MemOK == mem \in Memory /\ \A n \in Page : PageOK(mem[n])
Rest ==
  /\ pc \in {"open", "readn", "exofork", "stack_alloc", "stack_map", "phdr", "load", "map_utemp",
             "copy", "share", "err2", "err1", "err", "done", "panic"}
  /\ fd \in BOOLEAN /\ utemp \in BOOLEAN
  /\ child \in {"none", "ENV_NOT_RUNNABLE", "ENV_RUNNABLE", "ENV_FREE"}
  /\ ph \in 1..Len(job.segs) + 1 /\ i \in Nat \union {Before}
  /\ lib \in 0..job.lib /\ r \in E_NOT_FOUND..CHILD

LEMMA TypeParts == TypeOK <=> MemOK /\ Rest
  BY DEF TypeOK, MemOK, Rest, Memory, PageOK

\* The segment that is loaded has the assumed shape.
LEMMA SegFacts ==
  ASSUME SInv, Loading
  PROVE  /\ ph \in DOMAIN job.segs /\ ph \in 1..Len(job.segs) /\ Len(job.segs) \in Nat
         /\ SegOK(Seg) /\ Stands(Seg, i) /\ Shows(mem, Seg, i)
         /\ mem \in Memory /\ \A n \in Page : PageOK(mem[n])
  BY JobFacts, TypeParts DEF SInv, Loaded, Seg, MemOK

\* Pages of the child are only written with what fits a page.
LEMMA MemKeeps == SInv /\ [Next]_vars => MemOK'
  <1> SUFFICES ASSUME SInv, [Next]_vars PROVE MemOK'
    OBVIOUS
  <1>1. MemOK
    BY TypeParts DEF SInv
  <1>2. ASSUME NEW p, NEW c, PageOK(c), c \in [off : Int, src : Int, len : Nat],
               mem' = [mem EXCEPT ![p] = c]
        PROVE  MemOK'
    <2>1. [mem EXCEPT ![p] = c] \in Memory /\ \A n \in Page : PageOK([mem EXCEPT ![p] = c][n])
      BY <1>1, <1>2, WriteTyped DEF MemOK
    <2> QED BY <1>2, <2>1 DEF MemOK
  <1>3. ASSUME Loading PROVE PageOK(Content(Seg, i)) /\ Content(Seg, i) \in [off : Int, src : Int, len : Nat]
    BY <1>3, SegFacts, ContentFits
  <1>4. CASE UNCHANGED mem
    BY <1>1, <1>4 DEF MemOK
  <1>5. CASE load_icode_mapper
    BY <1>2, <1>3, <1>5 DEF load_icode_mapper, At, Loading
  <1>6. CASE mapper_alloc
    BY <1>2, <1>4, <1>6, EmptyPages DEF mapper_alloc
  <1>7. CASE mapper_utemp
    BY <1>2, <1>4, <1>7, EmptyPages DEF mapper_utemp
  <1>8. CASE mapper_copy
    BY <1>2, <1>3, <1>8 DEF mapper_copy, At, Loading
  <1> QED
    BY <1>4, <1>5, <1>6, <1>7, <1>8
    DEF Next, vars, Done, open, read_header, exofork, stack_alloc, stack_map, next_segment,
        end_segment, share, set_env_status, err2, err1, err

\* The other variables keep their types.
LEMMA RestKeeps == SInv /\ [Next]_vars => Rest'
  <1> SUFFICES ASSUME SInv, [Next]_vars PROVE Rest'
    OBVIOUS
  <1>0. Rest /\ job.lib \in Nat /\ Len(job.segs) \in Nat
    BY TypeParts, JobFacts DEF SInv
  <1>1. CASE open
    <2>1. fd' \in BOOLEAN
      BY <1>0, <1>1, Zenon DEF open, Rest
    <2>2. UNCHANGED <<job, child, lib, utemp, ph, i>> /\ pc' \in {"readn", "done"}
      BY <1>1 DEF open, Goto
    <2>3. r' \in E_NOT_FOUND..CHILD
      <3>1. r \in E_NOT_FOUND..CHILD /\ (r' = r \/ r' = E_NOT_FOUND)
        BY <1>0, <1>1, Zenon DEF open, Rest
      <3> QED BY <3>1 DEF E_NOT_FOUND, CHILD
    <2> QED BY <1>0, <2>1, <2>2, <2>3 DEF Rest
  <1>2. CASE read_header
    BY <1>0, <1>2 DEF read_header, At, Goto, Rest, Failed, E_NOT_FOUND, E_NOT_EXEC, E_NO_MEM, CHILD
  <1>3. CASE exofork
    BY <1>0, <1>3 DEF exofork, At, Goto, Rest
  <1>4. CASE stack_alloc
    BY <1>0, <1>4 DEF stack_alloc, At, Goto, Rest
  <1>5. CASE stack_map
    BY <1>0, <1>5 DEF stack_map, At, Goto, Exists, Rest
  <1>6. CASE next_segment
    <2>1. Begin(Seg) \in Nat \union {Before}
      BY DEF Begin
    <2>2. fd' \in BOOLEAN
      BY <1>0, <1>6, Zenon DEF next_segment, Rest
    <2>3. UNCHANGED <<job, lib, utemp, ph>> /\ pc' \in {"load", "err1", "share", "done"}
      BY <1>6 DEF next_segment, Goto
    <2>4. child' \in {child, "ENV_RUNNABLE"} /\ r' \in {r, Failed, CHILD} /\ i' \in {i, Begin(Seg)}
      BY <1>6, Zenon DEF next_segment
    <2>5. r' \in E_NOT_FOUND..CHILD
      BY <1>0, <2>4 DEF Rest, Failed, E_NOT_FOUND, CHILD
    <2> QED BY <1>0, <2>1, <2>2, <2>3, <2>4, <2>5 DEF Rest
  <1>7. CASE end_segment
    <2>1. ph \in 1..Len(job.segs) /\ Len(job.segs) \in Nat
      BY <1>7, SegFacts DEF end_segment, At, Loading
    <2> QED BY <1>7, <2>1, <1>0 DEF end_segment, At, Goto, Rest
  <1>8. CASE load_icode_mapper
    <2>1. More(Seg, i) => Advance(Seg, i) \in Nat
      BY <1>8, SegFacts, AdvanceStands DEF load_icode_mapper, At, Loading
    <2> QED BY <1>8, <2>1, <1>0 DEF load_icode_mapper, At, Goto, Rest
  <1>9. CASE mapper_alloc
    <2>1. More(Seg, i) => Advance(Seg, i) \in Nat
      BY <1>9, SegFacts, AdvanceStands DEF mapper_alloc, At, Loading
    <2> QED BY <1>9, <2>1, <1>0 DEF mapper_alloc, At, Goto, Rest
  <1>10. CASE mapper_utemp
    BY <1>0, <1>10 DEF mapper_utemp, At, Goto, Rest
  <1>11. CASE mapper_copy
    <2>1. More(Seg, i)
      BY <1>0, <1>11 DEF mapper_copy, At, SInv, Loaded
    <2>2. Advance(Seg, i) \in Nat
      BY <1>11, <2>1, SegFacts, AdvanceStands DEF mapper_copy, At, Loading
    <2> QED BY <1>11, <2>2, <1>0 DEF mapper_copy, At, Goto, Rest
  <1>12. CASE share
    BY <1>0, <1>12 DEF share, At, Goto, Rest, E_NOT_FOUND, E_NOT_EXEC, E_NO_MEM, CHILD
  <1>13. CASE set_env_status
    BY <1>0, <1>13 DEF set_env_status, At, Goto, Rest, E_NOT_FOUND, E_NOT_EXEC, E_NO_MEM, CHILD
  <1>14. CASE err2
    BY <1>0, <1>14 DEF err2, At, Goto, destroy, Exists, Rest
  <1>15. CASE err1
    BY <1>0, <1>15 DEF err1, At, Goto, destroy, Exists, Rest
  <1>16. CASE err
    BY <1>0, <1>16 DEF err, At, Goto, Rest
  <1>17. CASE UNCHANGED vars
    BY <1>0, <1>17 DEF vars, Rest
  <1> QED BY <1>1, <1>2, <1>3, <1>4, <1>5, <1>6, <1>7, <1>8, <1>9, <1>10, <1>11, <1>12, <1>13, <1>14, <1>15, <1>16, <1>17 DEF Next, Done

\* One call of map_page leaves the segments before this one and the bytes
\* before the position as they are.
LEMMA OthersWhole ==
  ASSUME SInv, Loading, More(Seg, i), NEW c, mem' = [mem EXCEPT ![MapAt(Seg, i)] = c],
         UNCHANGED <<job, ph>>
  PROVE  /\ (\A n \in DOMAIN job.segs : n < ph => Whole(n))'
         /\ Shows(mem', Seg, i)
  <1>1. /\ ph \in DOMAIN job.segs /\ SegOK(Seg) /\ Stands(Seg, i) /\ Shows(mem, Seg, i)
        /\ mem \in Memory
    BY SegFacts
  <1>2. ASSUME NEW n \in DOMAIN job.segs, n < ph
        PROVE  Shows(mem', job.segs[n], job.segs[n].memsz)
    <2>1. Shows(mem, job.segs[n], job.segs[n].memsz)
      BY <1>2 DEF SInv, Loaded, Whole
    <2>2. n # ph
      BY <1>1, <1>2, JobFacts DEF SInv
    <2>3. SegOK(job.segs[n])
          /\ (LastPage(Seg) < FirstPage(job.segs[n]) \/ LastPage(job.segs[n]) < FirstPage(Seg))
      BY <1>1, <2>2, JobFacts DEF SInv, Seg
    <2>4. Shows([mem EXCEPT ![MapAt(Seg, i)] = c], job.segs[n], job.segs[n].memsz)
      BY <1>1, <2>1, <2>3, OtherKept
    <2> QED BY <2>4
  <1>3. Shows([mem EXCEPT ![MapAt(Seg, i)] = c], Seg, i)
    BY <1>1, EarlierKept
  <1> QED BY <1>2, <1>3 DEF Whole

\* So does one that is complete, and the position moves on behind its bytes.
LEMMA PageLoaded ==
  ASSUME SInv, Loading, More(Seg, i), mem' = [mem EXCEPT ![MapAt(Seg, i)] = Content(Seg, i)],
         i' = Advance(Seg, i), pc' = "load", UNCHANGED <<job, ph, child>>
  PROVE  Loaded'
  <1>1. /\ ph \in DOMAIN job.segs /\ SegOK(Seg) /\ Stands(Seg, i) /\ Shows(mem, Seg, i)
        /\ mem \in Memory
    BY SegFacts
  <1>2. (\A n \in DOMAIN job.segs : n < ph => Whole(n))'
    BY OthersWhole
  <1>3. Stands(Seg, i') /\ Shows(mem', Seg, i')
    BY <1>1, AdvanceStands, PageShows
  <1>4. Seg' = Seg
    BY DEF Seg
  <1>5. child' # "ENV_RUNNABLE"
    BY DEF SInv, Held, Loading
  <1>6. (ph \in DOMAIN job.segs /\ Stands(Seg, i) /\ Shows(mem, Seg, i))'
    BY <1>1, <1>3, <1>4
  <1> QED BY <1>2, <1>5, <1>6 DEF Loaded, Loading

\* Every step keeps what is loaded.
LEMMA LoadedKeeps == SInv /\ [Next]_vars => Loaded'
  <1> SUFFICES ASSUME SInv, [Next]_vars PROVE Loaded'
    OBVIOUS
  <1>1. Len(job.segs) \in Nat /\ DOMAIN job.segs = 1..Len(job.segs) /\ ph \in Nat
    BY JobFacts, TypeParts DEF SInv, Rest
  <1>2. child = "ENV_RUNNABLE" => pc = "done"
    BY DEF SInv, Held
  <1>3. Loaded
    BY DEF SInv
  <1>4. CASE next_segment
    <2>1. /\ pc = "phdr" /\ UNCHANGED <<job, mem, ph>>
          /\ \/ ph <= Len(job.segs) /\ i' = Begin(Seg) /\ pc' = "load" /\ child' = child
             \/ pc' = "err1" /\ child' = child
             \/ ph > Len(job.segs) /\ pc' \in {"share", "done"}
      BY <1>4 DEF next_segment, At, Goto
    <2>2. Seg' = Seg /\ (\A n \in DOMAIN job.segs : Whole(n)' <=> Whole(n))
      BY <2>1 DEF Seg, Whole
    <2>3. CASE ph <= Len(job.segs) /\ i' = Begin(Seg) /\ pc' = "load" /\ child' = child
      <3>1. Stands(Seg, Begin(Seg)) /\ Shows(mem, Seg, Begin(Seg))
        <4>1. ph \in DOMAIN job.segs /\ SegOK(Seg)
          <5>1. ph \in DOMAIN job.segs
            BY <1>1, <2>3, TypeParts DEF SInv, Rest
          <5> QED BY <5>1, JobFacts DEF SInv, Seg
        <4>2. CASE Begin(Seg) = Before
          BY <4>2 DEF Begin, Before, Stands, Shows
        <4>3. CASE Begin(Seg) = 0 /\ Seg.va % PAGE_SIZE = 0
          <5>1. Seg.va + 0 = Seg.va
            BY <4>1, SegFields
          <5> QED BY <4>3, <5>1 DEF Stands, Shows
        <4> QED BY <4>2, <4>3 DEF Begin
      <3>2. ph \in DOMAIN job.segs
        BY <1>1, <2>3, TypeParts DEF SInv, Rest
      <3>3. \A n \in DOMAIN job.segs : n < ph => Whole(n)
        BY <1>3, <2>1 DEF Loaded
      <3> QED BY <1>2, <2>1, <2>2, <2>3, <3>1, <3>2, <3>3 DEF Loaded, Loading
    <2>4. CASE pc' = "err1" /\ child' = child
      BY <1>2, <2>1, <2>4 DEF Loaded, Loading
    <2>5. CASE ph > Len(job.segs) /\ pc' \in {"share", "done"}
      <3>1. \A n \in DOMAIN job.segs : n < ph
        BY <1>1, <2>5
      <3>2. \A n \in DOMAIN job.segs : Whole(n)
        BY <1>3, <2>1, <3>1 DEF Loaded
      <3> QED BY <2>1, <2>2, <2>5, <3>2 DEF Loaded, Loading
    <2> QED BY <2>1, <2>3, <2>4, <2>5
  <1>5. CASE end_segment
    <2>1. pc = "load" /\ pc' = "phdr" /\ ph' = ph + 1 /\ ~More(Seg, i) /\ UNCHANGED <<job, mem, child>>
      BY <1>5 DEF end_segment, At, Goto
    <2>2. SegOK(Seg) /\ Stands(Seg, i) /\ Shows(mem, Seg, i)
      BY <2>1, SegFacts DEF Loading
    <2>3. i \in Nat /\ i >= Seg.memsz
      BY <2>1, <2>2, SegFields DEF Stands, More
    <2>4. Shows(mem, Seg, Seg.memsz)
      <3>1. \A k \in 0..Seg.memsz - 1 : k < i
        BY <2>2, <2>3, SegFields
      <3> QED BY <2>2, <3>1 DEF Shows
    <2>5. \A n \in DOMAIN job.segs : n < ph + 1 => n < ph \/ n = ph
      BY <1>1
    <2>6. \A n \in DOMAIN job.segs : n < ph + 1 => Whole(n)
      BY <1>3, <2>1, <2>4, <2>5 DEF Loaded, Loading, Whole, Seg
    <2>7. \A n \in DOMAIN job.segs : Whole(n)' <=> Whole(n)
      BY <2>1 DEF Whole
    <2> QED BY <1>2, <2>1, <2>6, <2>7 DEF Loaded, Loading
  <1>6. CASE load_icode_mapper
    BY <1>6, PageLoaded DEF load_icode_mapper, At, Loading
  <1>7. CASE mapper_alloc
    <2>1. /\ pc = "load" /\ More(Seg, i) /\ UNCHANGED <<job, child, ph>>
          /\ \/ /\ mem' = [mem EXCEPT ![MapAt(Seg, i)] = ZeroPage]
                /\ HasBytes(Seg, i) /\ pc' = "map_utemp" /\ i' = i
             \/ /\ mem' = [mem EXCEPT ![MapAt(Seg, i)] = ZeroPage]
                /\ ~HasBytes(Seg, i) /\ pc' = "load" /\ i' = Advance(Seg, i)
             \/ pc' = "err1"
      BY <1>7 DEF mapper_alloc, At, Goto
    <2>2. CASE /\ mem' = [mem EXCEPT ![MapAt(Seg, i)] = ZeroPage]
               /\ HasBytes(Seg, i) /\ pc' = "map_utemp" /\ i' = i
      <3>1. (\A n \in DOMAIN job.segs : n < ph => Whole(n))' /\ Shows(mem', Seg, i)
        BY <2>1, <2>2, OthersWhole DEF Loading
      <3>2. Seg' = Seg /\ ph \in DOMAIN job.segs /\ Stands(Seg, i)
        BY <2>1, SegFacts DEF Seg, Loading
      <3>3. (ph \in DOMAIN job.segs /\ Stands(Seg, i) /\ Shows(mem, Seg, i) /\ More(Seg, i))'
        BY <2>1, <2>2, <3>1, <3>2
      <3> QED BY <1>2, <2>1, <2>2, <3>1, <3>3 DEF Loaded, Loading
    <2>3. CASE /\ mem' = [mem EXCEPT ![MapAt(Seg, i)] = ZeroPage]
               /\ ~HasBytes(Seg, i) /\ pc' = "load" /\ i' = Advance(Seg, i)
      <3>1. Content(Seg, i) = ZeroPage
        BY <2>3 DEF HasBytes, Content
      <3> QED BY <2>1, <2>3, <3>1, PageLoaded DEF Loading
    <2>4. CASE pc' = "err1"
      BY <1>2, <2>1, <2>4 DEF Loaded, Loading
    <2> QED BY <2>1, <2>2, <2>3, <2>4
  <1>8. CASE mapper_utemp
    <2>1. /\ pc = "map_utemp" /\ UNCHANGED <<job, child, ph, i>>
          /\ (pc' = "copy" /\ mem' = mem) \/ pc' = "err1"
      BY <1>8 DEF mapper_utemp, At, Goto
    <2>2. CASE pc' = "err1"
      BY <1>2, <2>1, <2>2 DEF Loaded, Loading
    <2>3. CASE pc' = "copy" /\ mem' = mem
      <3>1. Seg' = Seg /\ (\A n \in DOMAIN job.segs : Whole(n)' <=> Whole(n))
        BY <2>1, <2>3 DEF Seg, Whole
      <3> QED BY <1>2, <1>3, <2>1, <2>3, <3>1 DEF Loaded, Loading
    <2> QED BY <2>1, <2>2, <2>3
  <1>9. CASE mapper_copy
    <2>1. Loading /\ More(Seg, i)
      BY <1>3, <1>9 DEF mapper_copy, At, Loaded, Loading
    <2> QED BY <1>9, <2>1, PageLoaded DEF mapper_copy, Goto
  <1>10. CASE stack_map
    <2>1. /\ pc = "stack_map" /\ UNCHANGED <<job, mem, child, ph, i>> /\ pc' \in {"phdr", "err1"}
      BY <1>10 DEF stack_map, At, Goto
    <2>2. \A n \in DOMAIN job.segs : ~(n < ph)
      BY <1>1, <1>3, <2>1 DEF Loaded
    <2> QED BY <1>2, <2>1, <2>2 DEF Loaded, Loading
  <1>11. CASE set_env_status
    <2>1. pc = "share" /\ pc' = "done" /\ UNCHANGED <<job, mem>>
      BY <1>11 DEF set_env_status, At, Goto
    <2>2. \A n \in DOMAIN job.segs : Whole(n)
      BY <1>3, <2>1 DEF Loaded
    <2>3. (\A n \in DOMAIN job.segs : Whole(n))'
      BY <2>1, <2>2 DEF Whole
    <2> QED BY <2>1, <2>3 DEF Loaded, Loading
  <1>12. CASE share
    <2>1. pc = "share" /\ pc' \in {"share", "err2"} /\ UNCHANGED <<job, mem, child>>
      BY <1>12 DEF share, At, Goto
    <2>2. \A n \in DOMAIN job.segs : Whole(n)
      BY <1>3, <2>1 DEF Loaded
    <2>3. (\A n \in DOMAIN job.segs : Whole(n))'
      BY <2>1, <2>2 DEF Whole
    <2> QED BY <1>2, <2>1, <2>3 DEF Loaded, Loading
  <1>13. CASE UNCHANGED vars
    <2>1. Seg' = Seg /\ (\A n \in DOMAIN job.segs : Whole(n)' <=> Whole(n))
      BY <1>13 DEF Seg, Whole, vars
    <2> QED BY <1>3, <1>13, <2>1 DEF Loaded, Loading, vars
  <1>14. CASE open \/ read_header \/ exofork \/ stack_alloc \/ err2 \/ err1 \/ err
    <2>1. /\ pc \notin {"done"} /\ child' \in {child, "none", "ENV_NOT_RUNNABLE", "ENV_FREE"}
          /\ \/ /\ pc \in {"open", "readn", "exofork", "stack_alloc"}
                /\ pc' \in {"readn", "done", "err", "exofork", "stack_alloc", "stack_map", "err1"}
             \/ pc' \in {"err", "done", "panic"}
          /\ ph' = ph
      BY <1>14 DEF open, read_header, exofork, stack_alloc, err2, err1, err, At, Goto, destroy
    <2> QED BY <1>2, <1>3, <2>1 DEF Loaded, Loading
  <1> QED
    BY <1>4, <1>5, <1>6, <1>7, <1>8, <1>9, <1>10, <1>11, <1>12, <1>13, <1>14 DEF Next, Done

LEMMA SInvInit == Init => SInv
  <1> SUFFICES ASSUME Init PROVE SInv
    OBVIOUS
  <1>1. JobOK
    BY DEF Init, JobOK
  <1>2. job.by \in {"spawn", "load_icode"} /\ Len(job.segs) \in Nat /\ job.lib \in Nat
    BY <1>1, JobFacts DEF JobOK
  <1>3. mem = [n \in Page |-> NoPage] /\ ph = 1 /\ i = 0 /\ r = 0 /\ lib = 0 /\ stack = NoStack
    BY DEF Init
  <1>4. fd = FALSE /\ utemp = FALSE
    BY DEF Init
  <1>5. \/ job.by = "spawn" /\ pc = "open" /\ child = "none"
        \/ job.by = "load_icode" /\ pc = "phdr" /\ child = "ENV_NOT_RUNNABLE"
    BY <1>2 DEF Init
  <1>6. MemOK
    <2> DEFINE R == [off : Int, src : Int, len : Nat]
    <2>1. PageOK(NoPage) /\ NoPage \in R
      BY EmptyPages
    <2> HIDE DEF R
    <2>2. mem \in [Page -> R] /\ \A n \in Page : mem[n] = NoPage
      BY <1>3, <2>1
    <2> QED BY <2>1, <2>2 DEF MemOK, Memory, R
  <1>7. Rest
    <2>1. fd \in BOOLEAN /\ utemp \in BOOLEAN
      BY <1>4, Zenon
    <2> QED BY <1>2, <1>3, <1>5, <2>1 DEF Rest, E_NOT_FOUND, CHILD
  <1>8. Held
    BY <1>4, <1>5 DEF Held, ByKernel
  <1>9. StackBuilt
    BY <1>3, <1>5 DEF StackBuilt, ByKernel
  <1>10. Loaded
    <2>1. \A n \in DOMAIN job.segs : ~(n < ph)
      BY <1>1, <1>3, JobFacts
    <2> QED BY <1>3, <1>5, <2>1 DEF Loaded, Loading
  <1> QED BY <1>1, <1>6, <1>7, <1>8, <1>9, <1>10, TypeParts DEF SInv

LEMMA SInvStep == SInv /\ [Next]_vars => SInv'
  <1> SUFFICES ASSUME SInv, [Next]_vars PROVE SInv'
    OBVIOUS
  <1>1. job' = job
    BY DEF Next, Done, vars, open, read_header, exofork, stack_alloc, stack_map, next_segment,
           end_segment, load_icode_mapper, mapper_alloc, mapper_utemp, mapper_copy, share,
           set_env_status, err2, err1, err
  <1>2. JobOK'
    BY <1>1 DEF SInv, JobOK
  <1>3. MemOK' /\ Rest'
    BY MemKeeps, RestKeeps
  <1>4. TypeOK'
    BY <1>3 DEF TypeOK, MemOK, Rest, Memory, PageOK
  <1> QED BY <1>2, <1>4, HeldKeeps, StackKeeps, LoadedKeeps DEF SInv

-----------------------------------------------------------------------------
(* The theorems. *)

\* Every reachable state of spawn and load_icode satisfies the invariant.
THEOREM SInvHolds == Spec => []SInv
  <1> QED BY SInvInit, SInvStep, PTL DEF Spec

\* TypeOK of Spawn: whatever program is loaded, a copy of spawn_mapper or
\* load_icode_mapper ends in the page it began in.
THEOREM SpawnTypesHold == Spec => []TypeOK
  <1>1. SInv => TypeOK
    BY DEF SInv
  <1> QED BY <1>1, SInvHolds, PTL

\* NoLeak: if spawn returns, its file is closed, UTEMP is unmapped and no
\* child holds a slot without ever running, whichever system call has failed.
\* That it returns is not claimed: err1 and err2 may stop the kernel.
THEOREM NoLeakHolds == Spec => []NoLeak
  <1>1. SInv => NoLeak
    <2> SUFFICES ASSUME SInv, pc = "done" PROVE ~fd /\ ~utemp /\ child # "ENV_NOT_RUNNABLE"
      BY DEF NoLeak, At
    <2> QED BY DEF SInv, Held
  <1> QED BY <1>1, SInvHolds, PTL

\* StackFits: init_stack lays out the stack page right, for any number of
\* arguments of any length that pass its test.
THEOREM StackFitsHolds == Spec => []StackFits
  <1>1. SInv => StackFits
    <2> SUFFICES ASSUME SInv, stack # NoStack PROVE StackFits
      BY DEF StackFits
    <2>1. stack = StackPage(job.lens) /\ Fits(job.lens) /\ job.lens \in Seq(Nat)
      BY JobFacts DEF SInv, StackBuilt
    <2> QED BY <2>1, StackPageFits DEF StackFits
  <1> QED BY <1>1, SInvHolds, PTL

\* ChildComplete: a child that may run has every byte of every segment where
\* the program file puts it, zeros up to memsz, its stack and the shared pages,
\* for every page size and every program of the assumed shape.
THEOREM ChildCompleteHolds == Spec => []ChildComplete
  <1>1. SInv => ChildComplete
    <2> SUFFICES ASSUME SInv, child = "ENV_RUNNABLE" PROVE ChildComplete
      BY DEF ChildComplete
    <2>1. \A v : Byte(v) = ByteIn(mem, v)
      BY DEF Byte, ByteIn
    <2>2. ASSUME NEW n \in DOMAIN job.segs, NEW k \in 0..job.segs[n].memsz - 1
          PROVE  Byte(job.segs[n].va + k) =
                   IF k < job.segs[n].filesz THEN job.segs[n].src + k ELSE 0
      <3>1. Shows(mem, job.segs[n], job.segs[n].memsz)
        BY DEF SInv, Loaded, Whole
      <3>2. k < job.segs[n].memsz
        BY JobFacts, SegFields DEF SInv
      <3> QED BY <2>1, <3>1, <3>2 DEF Shows
    <2>3. job.by = "spawn" => stack.argc = Len(job.lens) /\ lib = job.lib
      BY DEF SInv, StackBuilt, ByKernel, StackPage
    <2> QED BY <2>2, <2>3 DEF ChildComplete
  <1> QED BY <1>1, SInvHolds, PTL


=============================================================================
