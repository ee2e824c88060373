----------------------------- MODULE PipeProofs -----------------------------
(***************************************************************************)
(* Proofs about pipes, for every size of the buffer, any number of         *)
(* environments and all programs in which one environment reads the pipe   *)
(* and one writes it: the ring buffer is a queue, although each side moves *)
(* its position in steps of its own and with an interrupt in between; and  *)
(* the two counts of _pipe_is_closed tell whether the other end is open,   *)
(* although close, dup, fork and exit change them one at a time.           *)
(***************************************************************************)
EXTENDS Pipeline, Division, FiniteSetTheorems, WellFoundedInduction, TLAPS

-----------------------------------------------------------------------------
(* The calls a program still has to make. *)

IsSeq(s) == \E S : s \in Seq(S)

\* A descriptor that is duplicated or handed down is one of the table.
OnFd(x) == x[1] \in {"dup", "dup_while", "map_fd", "map_data"} => x[2] \in Fdnum

\* Calls that the library makes for a program: none reads or writes a pipe.
PlainCall(x) == x[1] \notin {"read", "write"} /\ OnFd(x)
Plain(calls) == IsSeq(calls) /\ \A x \in ToSet(calls) : PlainCall(x)

LEMMA SeqConcat ==
  ASSUME NEW a, IsSeq(a), NEW b, IsSeq(b)
  PROVE  IsSeq(a \o b) /\ ToSet(a \o b) \subseteq ToSet(a) \union ToSet(b)
  <1>1. PICK S : a \in Seq(S)
    BY DEF IsSeq
  <1>2. PICK T : b \in Seq(T)
    BY DEF IsSeq
  <1>3. a \in Seq(S \union T) /\ b \in Seq(S \union T)
    BY <1>1, <1>2
  <1> DEFINE U == S \union T
  <1> HIDE DEF U
  <1>4. a \in Seq(U) /\ b \in Seq(U)
    BY <1>3 DEF U
  <1>5. a \o b \in Seq(U)
    BY <1>4
  <1>6. ASSUME NEW n \in DOMAIN (a \o b)
        PROVE  (a \o b)[n] \in ToSet(a) \union ToSet(b)
    <2>1. n \in 1..Len(a) + Len(b)
      BY <1>4
    <2>2. CASE n <= Len(a)
      <3>1. n \in DOMAIN a /\ (a \o b)[n] = a[n]
        BY <1>4, <2>1, <2>2
      <3> QED BY <3>1 DEF ToSet
    <2>3. CASE n > Len(a)
      <3>1. n - Len(a) \in DOMAIN b /\ (a \o b)[n] = b[n - Len(a)]
        BY <1>4, <2>1, <2>3
      <3> QED BY <3>1 DEF ToSet
    <2> QED BY <1>4, <2>1, <2>2, <2>3
  <1> DEFINE c == a \o b
  <1> HIDE DEF c
  <1>7. ToSet(c) \subseteq ToSet(a) \union ToSet(b)
    <2>1. \A n \in DOMAIN c : c[n] \in ToSet(a) \union ToSet(b)
      BY <1>6 DEF c
    <2> QED BY <2>1 DEF ToSet
  <1> QED BY <1>5, <1>7 DEF IsSeq, c

LEMMA SeqTail ==
  ASSUME NEW b, IsSeq(b), b # <<>>
  PROVE  IsSeq(Tail(b)) /\ ToSet(Tail(b)) \subseteq ToSet(b) /\ Head(b) \in ToSet(b)
  <1>1. PICK T : b \in Seq(T)
    BY DEF IsSeq
  <1>2. Tail(b) \in Seq(T) /\ Len(b) \in Nat
        /\ DOMAIN Tail(b) = 1..Len(b) - 1 /\ DOMAIN b = 1..Len(b)
    BY <1>1
  <1>3. \A n \in DOMAIN Tail(b) : n + 1 \in DOMAIN b /\ Tail(b)[n] = b[n + 1]
    BY <1>1, <1>2
  <1>4. 1 \in DOMAIN b /\ Head(b) = b[1]
    BY <1>1
  <1> DEFINE t == Tail(b)
             h == Head(b)
  <1> HIDE DEF t, h
  <1>5. ToSet(t) \subseteq ToSet(b)
    BY <1>3 DEF ToSet, t
  <1>6. h \in ToSet(b)
    BY <1>4 DEF ToSet, h
  <1> QED BY <1>2, <1>5, <1>6 DEF IsSeq, t, h

LEMMA PlainConcat ==
  ASSUME NEW a, Plain(a), NEW b, Plain(b)
  PROVE  Plain(a \o b)
  <1>1. IsSeq(a \o b) /\ ToSet(a \o b) \subseteq ToSet(a) \union ToSet(b)
    BY SeqConcat DEF Plain
  <1> QED BY <1>1 DEF Plain

\* A call for each number up to k.
LEMMA PlainEach ==
  ASSUME NEW k \in Nat, NEW f, f = [n \in 1..k |-> f[n]],
         \A n \in 1..k : PlainCall(f[n])
  PROVE  Plain(f)
  <1> DEFINE S == {f[n] : n \in 1..k}
  <1>1. f \in [1..k -> S] /\ DOMAIN f = 1..k
    OBVIOUS
  <1>2. \A x \in ToSet(f) : PlainCall(x)
    BY <1>1 DEF ToSet
  <1> HIDE DEF S
  <1>3. f \in Seq(S)
    BY <1>1
  <1> QED BY <1>2, <1>3 DEF Plain, IsSeq

LEMMA PlainNone == Plain(<<>>)
  <1>1. <<>> \in Seq({}) /\ DOMAIN <<>> = {}
    OBVIOUS
  <1> QED BY <1>1 DEF Plain, IsSeq, ToSet

LEMMA PlainOne ==
  ASSUME NEW x, PlainCall(x)
  PROVE  Plain(<<x>>)
  <1> DEFINE f == [n \in 1..1 |-> x]
  <1>1. f = <<x>>
    OBVIOUS
  <1>2. f = [n \in 1..1 |-> f[n]] /\ \A n \in 1..1 : PlainCall(f[n])
    OBVIOUS
  <1> HIDE DEF f
  <1>3. Plain(f)
    BY <1>2, PlainEach
  <1> QED BY <1>1, <1>3

LEMMA CloseCallsPlain ==
  ASSUME NEW k, NEW i
  PROVE  Plain(CloseCalls(k, i))
  <1>1. PlainCall(<<"unmap_fd", i>>) /\ PlainCall(<<"unmap_data", i>>)
    BY DEF PlainCall, OnFd
  <1>2. Plain(<<<<"unmap_fd", i>>>>)
    BY <1>1, PlainOne
  <1> DEFINE u == <<"unmap_fd", i>>
             d == <<"unmap_data", i>>
  <1>3. PlainCall(u) /\ PlainCall(d)
    BY <1>1
  <1> HIDE DEF u, d
  <1>4. Plain(<<u, d, u>>)
    <2> DEFINE f == <<u, d, u>>
    <2>1. f = [n \in 1..3 |-> f[n]]
      OBVIOUS
    <2>2. f[1] = u /\ f[2] = d /\ f[3] = u
      OBVIOUS
    <2> HIDE DEF f
    <2>3. \A n \in 1..3 : PlainCall(f[n])
      <3>1. \A n \in 1..3 : n = 1 \/ n = 2 \/ n = 3
        OBVIOUS
      <3> QED BY <1>3, <2>2, <3>1
    <2>4. Plain(f)
      BY <2>1, <2>3, PlainEach
    <2> QED BY <2>4 DEF f
  <1> QED BY <1>2, <1>4 DEF CloseCalls, u, d

LEMMA DupCallsPlain ==
  ASSUME NEW e, NEW o \in Fdnum, NEW n
  PROVE  Plain(<<<<"close", n>>>> \o DupCalls(e, o, n))
  <1>1. PlainCall(<<"close", n>>) /\ PlainCall(<<"map_data", o, e, n>>) /\ PlainCall(<<"map_fd", o, e, n>>)
    BY DEF PlainCall, OnFd
  <1>2. Plain(<<<<"close", n>>>>) /\ Plain(<<<<"map_data", o, e, n>>>>) /\ Plain(<<<<"map_fd", o, e, n>>>>)
    BY <1>1, PlainOne
  <1>3. Plain(IF data[e][o] THEN <<<<"map_data", o, e, n>>>> ELSE <<>>)
    BY <1>2, PlainNone
  <1>4. Plain(DupCalls(e, o, n))
    BY <1>2, <1>3, PlainConcat DEF DupCalls
  <1> QED BY <1>2, <1>4, PlainConcat

LEMMA CloseAllPlain == Plain(close_all)
  <1>1. MAXFD \in Nat
    BY PipeSizes
  <1>2. close_all = [n \in 1..MAXFD |-> close_all[n]]
    BY DEF close_all
  <1>3. \A n \in 1..MAXFD : close_all[n] = <<"close", n - 1>>
    BY DEF close_all
  <1>4. \A n \in 1..MAXFD : PlainCall(close_all[n])
    BY <1>3 DEF PlainCall, OnFd
  <1> QED BY <1>1, <1>2, <1>4, PlainEach

\* fork and spawn find every descriptor that is open, in order: the nth of
\* them is below the least bound under which there are n.
LEMMA InOrderIn ==
  ASSUME NEW S, S \subseteq Fdnum
  PROVE  \E k \in Nat : DOMAIN InOrder(S) = 1..k /\ \A n \in 1..k : InOrder(S)[n] \in S
  <1> DEFINE Below(b) == {j \in S : j < b}
  <1>0. MAXFD \in Nat /\ S \subseteq 0..MAXFD - 1 /\ \A j \in S : j \in Nat /\ j < MAXFD
    BY PipeSizes DEF Fdnum
  <1>1. IsFiniteSet(S)
    <2>1. IsFiniteSet(0..MAXFD - 1)
      BY <1>0, FS_Interval
    <2> QED BY <1>0, <2>1, FS_Subset
  <1>2. Cardinality(S) \in Nat
    BY <1>1, FS_CardinalityType
  <1>3. \A b : IsFiniteSet(Below(b)) /\ Cardinality(Below(b)) \in Nat
    <2>1. \A b : Below(b) \in SUBSET S
      OBVIOUS
    <2>2. \A b : IsFiniteSet(Below(b))
      BY <1>1, <2>1, FS_Subset
    <2> QED BY <2>2, FS_CardinalityType
  <1>4. ASSUME NEW n \in 1..Cardinality(S)
        PROVE  \E i \in S : Cardinality(Below(i)) = n - 1
    <2> DEFINE Enough == {b \in Nat : Cardinality(Below(b)) >= n}
    <2>1. Below(MAXFD) = S
      <3>1. \A j \in S : j < MAXFD
        BY <1>0
      <3>2. \A j : j \in Below(MAXFD) <=> j \in S
        BY <3>1
      <3> HIDE DEF Below
      <3> QED BY <3>2, Zenon
    <2>2. MAXFD \in Enough
      <3>1. Cardinality(Below(MAXFD)) >= n
        <4> HIDE DEF Below
        <4> QED BY <1>2, <2>1
      <3> QED BY <1>0, <3>1
    <2>3. IsWellFoundedOn(OpToRel(<, Nat), Nat)
      BY NatLessThanWellFounded
    <2>4. PICK b \in Enough : \A k \in Enough : <<k, b>> \notin OpToRel(<, Nat)
      BY <2>2, <2>3, WFMin
    <2>5. b \in Nat /\ Cardinality(Below(b)) >= n
      BY <2>4
    <2>6. \A k \in Nat : k < b => ~(Cardinality(Below(k)) >= n)
      BY <2>4, <2>5 DEF OpToRel
    <2>7. b # 0
      <3>1. Below(0) = {}
        <4>1. \A j \in S : ~(j < 0)
          BY <1>0
        <4> QED BY <4>1, Zenon
      <3> QED BY <1>2, <2>5, <3>1, FS_EmptySet
    <2>8. b - 1 \in Nat /\ b - 1 < b
      BY <2>5, <2>7
    <2>9. Cardinality(Below(b - 1)) < n
      BY <1>2, <1>3, <2>6, <2>8
    <2>10. Below(b) \subseteq Below(b - 1) \union {b - 1}
      <3>1. \A j \in S : j < b => j < b - 1 \/ j = b - 1
        BY <1>0, <2>5
      <3> QED BY <3>1, Zenon
    <2>11. b - 1 \in S
      <3>1. CASE b - 1 \notin S
        <4>1. Below(b) \subseteq Below(b - 1)
          BY <2>10, <3>1
        <4>2. Cardinality(Below(b)) <= Cardinality(Below(b - 1))
          BY <1>3, <4>1, FS_Subset
        <4> QED BY <1>2, <1>3, <2>5, <2>9, <4>2
      <3> QED BY <3>1
    <2>12. Cardinality(Below(b)) <= Cardinality(Below(b - 1)) + 1
      <3>1. b - 1 \notin Below(b - 1)
        BY <2>8
      <3>2. IsFiniteSet(Below(b - 1) \union {b - 1})
            /\ Cardinality(Below(b - 1) \union {b - 1}) = Cardinality(Below(b - 1)) + 1
        <4> DEFINE B == Below(b - 1)
        <4>1. IsFiniteSet(B) /\ b - 1 \notin B
          BY <1>3, <3>1
        <4> HIDE DEF B
        <4>2. IsFiniteSet(B \union {b - 1}) /\ Cardinality(B \union {b - 1}) = Cardinality(B) + 1
          BY <4>1, FS_AddElement
        <4> QED BY <4>2 DEF B
      <3> QED BY <2>10, <3>2, FS_Subset
    <2>13. Cardinality(Below(b - 1)) = n - 1
      BY <1>2, <1>3, <2>5, <2>9, <2>12
    <2> QED BY <2>11, <2>13
  <1>5. \A n \in 1..Cardinality(S) : InOrder(S)[n] = CHOOSE i \in S : Cardinality(Below(i)) = n - 1
    BY DEF InOrder
  <1>6. DOMAIN InOrder(S) = 1..Cardinality(S)
    BY DEF InOrder
  <1> HIDE DEF Below
  <1>7. \A n \in 1..Cardinality(S) : InOrder(S)[n] \in S
    BY <1>4, <1>5
  <1> QED BY <1>2, <1>6, <1>7

LEMMA SharedPlain ==
  ASSUME NEW e, NEW c
  PROVE  Plain(Shared(e, c) \o <<<<"start", c>>>>)
  <1> DEFINE f == InOrder({i \in Fdnum : fd[e][i] # None})
             d == InOrder({i \in Fdnum : data[e][i]})
             F == [n \in DOMAIN f |-> <<"map_fd", f[n], c, f[n]>>]
             D == [n \in DOMAIN d |-> <<"map_data", d[n], c, d[n]>>]
  <1>1. Plain(F)
    <2>1. PICK k \in Nat : DOMAIN f = 1..k /\ \A n \in 1..k : f[n] \in Fdnum
      <3>1. {i \in Fdnum : fd[e][i] # None} \subseteq Fdnum
        OBVIOUS
      <3>2. PICK k \in Nat : DOMAIN f = 1..k /\ \A n \in 1..k : f[n] \in {i \in Fdnum : fd[e][i] # None}
        BY <3>1, InOrderIn
      <3> HIDE DEF f
      <3>3. \A n \in 1..k : f[n] \in Fdnum
        BY <3>2
      <3> QED BY <3>2, <3>3
    <2> HIDE DEF f
    <2>2. F = [n \in 1..k |-> F[n]] /\ \A n \in 1..k : F[n] = <<"map_fd", f[n], c, f[n]>>
      BY <2>1
    <2>3. \A n \in 1..k : PlainCall(F[n])
      BY <2>1, <2>2 DEF PlainCall, OnFd
    <2> HIDE DEF F
    <2> QED BY <2>2, <2>3, PlainEach
  <1>2. Plain(D)
    <2>1. PICK k \in Nat : DOMAIN d = 1..k /\ \A n \in 1..k : d[n] \in Fdnum
      <3>1. {i \in Fdnum : data[e][i]} \subseteq Fdnum
        OBVIOUS
      <3>2. PICK k \in Nat : DOMAIN d = 1..k /\ \A n \in 1..k : d[n] \in {i \in Fdnum : data[e][i]}
        BY <3>1, InOrderIn
      <3> HIDE DEF d
      <3>3. \A n \in 1..k : d[n] \in Fdnum
        BY <3>2
      <3> QED BY <3>2, <3>3
    <2> HIDE DEF d
    <2>2. D = [n \in 1..k |-> D[n]] /\ \A n \in 1..k : D[n] = <<"map_data", d[n], c, d[n]>>
      BY <2>1
    <2>3. \A n \in 1..k : PlainCall(D[n])
      BY <2>1, <2>2 DEF PlainCall, OnFd
    <2> HIDE DEF D
    <2> QED BY <2>2, <2>3, PlainEach
  <1>3. Shared(e, c) = F \o D
    BY DEF Shared
  <1> HIDE DEF F, D
  <1>4. PlainCall(<<"start", c>>)
    BY DEF PlainCall, OnFd
  <1>5. Plain(F \o D) /\ Plain(<<<<"start", c>>>>)
    BY <1>1, <1>2, <1>4, PlainConcat, PlainOne
  <1> QED BY <1>3, <1>5, PlainConcat

\* What e has to do changes; it does not become a reader or a writer.
Goes(e, new) ==
  /\ code' = [code EXCEPT ![e] = new] /\ IsSeq(new)
  /\ \A x \in ToSet(new) : x \in ToSet(code[e]) \/ PlainCall(x)

CodeOK ==
  /\ code = [e \in Env |-> code[e]] /\ \A e \in Env : IsSeq(code[e])
  /\ \A e \in Env : \A x \in ToSet(code[e]) : OnFd(x)
  /\ \A e, f \in Env : \A op \in {"read", "write"} :
       Uses(code[e], op) /\ Uses(code[f], op) => e = f

LEMMA ThenGoes ==
  ASSUME CodeOK, NEW e \in Env, code[e] # <<>>, NEW calls, Plain(calls), Then(e, calls)
  PROVE  \E new : Goes(e, new)
  <1> DEFINE new == calls \o Tail(code[e])
  <1>1. code' = [code EXCEPT ![e] = new]
    BY DEF Then, CodeOK
  <1>2. IsSeq(Tail(code[e])) /\ ToSet(Tail(code[e])) \subseteq ToSet(code[e])
    BY SeqTail DEF CodeOK
  <1>3. IsSeq(new) /\ ToSet(new) \subseteq ToSet(calls) \union ToSet(Tail(code[e]))
    BY <1>2, SeqConcat DEF Plain
  <1> HIDE DEF new
  <1> QED BY <1>1, <1>2, <1>3 DEF Goes, Plain

LEMMA AgainGoes ==
  ASSUME CodeOK, NEW e \in Env, NEW calls, Plain(calls), Again(e, calls)
  PROVE  \E new : Goes(e, new)
  <1> DEFINE new == calls \o code[e]
  <1>1. code' = [code EXCEPT ![e] = new]
    BY DEF Again, CodeOK
  <1>2. IsSeq(new) /\ ToSet(new) \subseteq ToSet(calls) \union ToSet(code[e])
    BY SeqConcat DEF Plain, CodeOK
  <1> HIDE DEF new
  <1> QED BY <1>1, <1>2 DEF Goes, Plain

LEMMA PlainGoes ==
  ASSUME CodeOK, NEW e \in Env, NEW calls, Plain(calls), code' = [code EXCEPT ![e] = calls]
  PROVE  \E new : Goes(e, new)
  BY DEF Goes, Plain

LEMMA GoesKeeps ==
  ASSUME CodeOK, NEW e \in Env, NEW new, Goes(e, new)
  PROVE  CodeOK' /\ \A f \in Env : f # e => code'[f] = code[f]
  <1>1. code' = [f \in Env |-> code'[f]] /\ code'[e] = new /\ \A f \in Env : f # e => code'[f] = code[f]
    BY DEF Goes, CodeOK
  <1>2. \A f \in Env : IsSeq(code'[f])
    BY <1>1 DEF Goes, CodeOK
  <1>3. \A f \in Env : \A x \in ToSet(code'[f]) : x \in ToSet(code[f]) \/ PlainCall(x)
    BY <1>1 DEF Goes
  <1>4. \A f \in Env : \A op \in {"read", "write"} : Uses(code'[f], op) => Uses(code[f], op)
    BY <1>3 DEF Uses, PlainCall
  <1>5. \A f \in Env : \A x \in ToSet(code'[f]) : OnFd(x)
    BY <1>3 DEF PlainCall, CodeOK
  <1>6. \A f, g \in Env : \A op \in {"read", "write"} :
          Uses(code'[f], op) /\ Uses(code'[g], op) => f = g
    BY <1>4 DEF CodeOK
  <1> QED BY <1>1, <1>2, <1>5, <1>6 DEF CodeOK

-----------------------------------------------------------------------------
(* The inductive invariant. *)

IoRec == [ph : Phases, i : Nat, fd_ref : Nat, same : BOOLEAN]
IoOK == io \in [Env -> IoRec]
MapsOK ==
  /\ fd \in [Env -> [Fdnum -> FdPage \union {None}]]
  /\ data \in [Env -> [Fdnum -> BOOLEAN]]
  /\ status \in [Env -> {"FREE", "RUNNABLE", "NOT_RUNNABLE"}]
PipeOK ==
  /\ p_rpos \in Nat /\ p_wpos \in Nat
  /\ p_buf \in [0..PIPE_SIZE - 1 -> Nat]
  /\ got \in Seq(Nat \ {0}) /\ eof \in [Env -> BOOLEAN]

\* The read or write under way is the next call of the program.
Op(e) == Head(code[e])[1]
InCalls ==
  \A e \in Env : io[e].ph # "idle" =>
    /\ code[e] # <<>> /\ Op(e) \in {"read", "write", "is_closed"}
    /\ io[e].ph \in {"test", "copy", "advance"} => Op(e) # "is_closed"

\* Between the test of the positions and the one that moves, and between the
\* byte and its position.
Copying(e, op) == io[e].ph \in {"copy", "advance"} /\ Op(e) = op
Moving(e, op) == io[e].ph = "advance" /\ Op(e) = op
taken == IF \E e \in Env : Moving(e, "read") THEN 1 ELSE 0

\* The bytes between the positions are the ones written and not yet read; a
\* side that has passed its test still finds a byte, or room for one, because
\* the other side can only have made more of it.
Ring ==
  /\ p_rpos <= p_wpos /\ p_wpos <= p_rpos + PIPE_SIZE
  /\ \A n \in Nat : p_rpos <= n /\ n < p_wpos => p_buf[n % PIPE_SIZE] = n + 1
  /\ \A e \in Env : Copying(e, "read") => p_rpos < p_wpos
  /\ \A e \in Env : Copying(e, "write") => p_wpos < p_rpos + PIPE_SIZE
  /\ \A e \in Env : Moving(e, "write") => p_buf[p_wpos % PIPE_SIZE] = p_wpos + 1
  /\ Len(got) = p_rpos + taken
  /\ \A n \in DOMAIN got : got[n] = n

PInv == CodeOK /\ IoOK /\ MapsOK /\ PipeOK /\ InCalls /\ Ring

\* One environment reads and one writes.
LEMMA OneSide ==
  ASSUME CodeOK, InCalls, NEW e \in Env, NEW f \in Env, NEW op \in {"read", "write"},
         Copying(e, op), Copying(f, op)
  PROVE  e = f
  <1>1. code[e] # <<>> /\ code[f] # <<>>
    BY DEF InCalls, Copying
  <1>2. Head(code[e]) \in ToSet(code[e]) /\ Head(code[f]) \in ToSet(code[f])
    BY <1>1, SeqTail DEF CodeOK
  <1>3. Uses(code[e], op) /\ Uses(code[f], op)
    BY <1>2 DEF Uses, Copying, Op
  <1> QED BY <1>3 DEF CodeOK

-----------------------------------------------------------------------------
(* The steps of one environment leave the calls of the others where they are. *)

Others(e) == \A f \in Env : f # e => io'[f].ph = io[f].ph /\ code'[f] = code[f]

LEMMA RunsKeeps ==
  ASSUME IoOK, NEW e \in Env, NEW r \in IoRec, Runs(e, r)
  PROVE  IoOK' /\ io'[e] = r /\ \A f \in Env : f # e => io'[f].ph = io[f].ph
  <1>1. io' = [f \in Env |-> io'[f]] /\ io'[e] = r
    BY DEF Runs
  <1>2. PICK t : t = FALSE
    OBVIOUS
  <1>3. t \in BOOLEAN
    BY <1>2
  <1>4. \A f \in Env : f # e => io'[f] = [io[f] EXCEPT !.same = t]
    BY <1>2 DEF Runs
  <1>5. \A f \in Env : f # e => io'[f] \in IoRec /\ io'[f].ph = io[f].ph
    <2> TAKE f \in Env
    <2> HAVE f # e
    <2>1. io[f] \in IoRec
      BY DEF IoOK
    <2> DEFINE x == io[f]
    <2> HIDE DEF x
    <2>2. x \in IoRec
      BY <2>1 DEF x
    <2>3. [x EXCEPT !.same = t] \in IoRec /\ [x EXCEPT !.same = t].ph = x.ph
      BY <1>3, <2>2 DEF IoRec
    <2> QED BY <1>4, <2>3 DEF x
  <1>6. \A f \in Env : io'[f] \in IoRec
    BY <1>1, <1>5
  <1> QED BY <1>1, <1>5, <1>6 DEF IoOK

LEMMA CallsKeep ==
  ASSUME InCalls, NEW e \in Env, Others(e),
         \/ io'[e].ph = "idle"
         \/ /\ code'[e] = code[e] /\ code[e] # <<>> /\ Op(e) \in {"read", "write", "is_closed"}
            /\ io'[e].ph \in {"test", "copy", "advance"} => Op(e) # "is_closed"
  PROVE  InCalls'
  BY DEF InCalls, Others, Op

LEMMA OthersCopy ==
  ASSUME NEW e \in Env, Others(e), NEW f \in Env, f # e, NEW op
  PROVE  (Copying(f, op)' <=> Copying(f, op)) /\ (Moving(f, op)' <=> Moving(f, op))
  BY DEF Others, Copying, Moving, Op

\* A step that neither starts nor ends a transfer leaves the ring as it is.
LEMMA QuietRing ==
  ASSUME Ring, NEW e \in Env, Others(e), UNCHANGED <<p_rpos, p_wpos, p_buf, got>>,
         io[e].ph \notin {"copy", "advance"}, io'[e].ph \notin {"copy", "advance"}
  PROVE  Ring'
  <1>1. \A f \in Env : \A op : (Copying(f, op)' <=> Copying(f, op)) /\ (Moving(f, op)' <=> Moving(f, op))
    <2> TAKE f \in Env
    <2>1. CASE f = e
      BY <2>1 DEF Copying, Moving
    <2>2. CASE f # e
      BY <2>2, OthersCopy
    <2> QED BY <2>1, <2>2
  <1>2. taken' = taken
    BY <1>1 DEF taken
  <1> QED BY <1>1, <1>2 DEF Ring

-----------------------------------------------------------------------------
(* Everything but read, write and pipe_is_closed happens between calls. *)

Outside(e) ==
  /\ io[e].ph = "idle" /\ Runs(e, io[e]) /\ UNCHANGED pipe_vars
  /\ \E new : Goes(e, new)

LEMMA AtIdle ==
  ASSUME InCalls, NEW e \in Env, NEW c, At(e, c), c \notin {"read", "write", "is_closed"}
  PROVE  io[e].ph = "idle" /\ code[e] # <<>>
  BY DEF InCalls, At, Op

LEMMA HeadOnFd ==
  ASSUME CodeOK, NEW e \in Env, code[e] # <<>>
  PROVE  OnFd(Head(code[e]))
  <1>1. Head(code[e]) \in ToSet(code[e])
    BY SeqTail DEF CodeOK
  <1> QED BY <1>1 DEF CodeOK

LEMMA OutsideSteps ==
  ASSUME CodeOK, InCalls, NEW e \in Env,
         \/ close(e) \/ dup(e) \/ pipe(e) \/ fork(e) \/ spawn(e) \/ wait(e) \/ exit(e)
         \/ mem_unmap(e) \/ mem_map(e) \/ set_env_status(e) \/ env_destroy(e)
         \/ while_runnable(e)
  PROVE  Outside(e)
  <1>1. ASSUME NEW c, At(e, c), c \notin {"read", "write", "is_closed"},
               NEW calls, Plain(calls), Then(e, calls), Step(e)
        PROVE  Outside(e)
    BY <1>1, AtIdle, ThenGoes DEF Outside, Step
  <1>2. CASE close(e)
    <2>1. Plain(IF fd[e][Arg(e, 2)] = None THEN <<>> ELSE CloseCalls(fd[e][Arg(e, 2)], Arg(e, 2)))
      BY PlainNone, CloseCallsPlain
    <2> QED BY <1>1, <1>2, <2>1 DEF close
  <1>3. CASE dup(e)
    <2> DEFINE o == Arg(e, 2)
               n == Arg(e, 3)
    <2>1. At(e, "dup") /\ Step(e)
          /\ Then(e, IF fd[e][o] = None THEN <<>> ELSE <<<<"close", n>>>> \o DupCalls(e, o, n))
      BY <1>3 DEF dup
    <2>2. o \in Fdnum
      BY <2>1, HeadOnFd DEF At, Arg, OnFd
    <2> HIDE DEF o, n
    <2>3. Plain(IF fd[e][o] = None THEN <<>> ELSE <<<<"close", n>>>> \o DupCalls(e, o, n))
      BY <2>2, PlainNone, DupCallsPlain
    <2> QED BY <1>1, <2>1, <2>3
  <1>4. CASE pipe(e)
    <2>1. At(e, "pipe") /\ Step(e) /\ (Then(e, <<>>) \/ code' = [code EXCEPT ![e] = <<<<"exit">>>>])
      BY <1>4 DEF pipe
    <2>2. CASE Then(e, <<>>)
      BY <1>1, <2>1, <2>2, PlainNone
    <2>3. CASE code' = [code EXCEPT ![e] = <<<<"exit">>>>]
      <3>1. PlainCall(<<"exit">>)
        BY DEF PlainCall, OnFd
      <3>2. Plain(<<<<"exit">>>>)
        BY <3>1, PlainOne
      <3> QED BY <2>1, <2>3, <3>2, PlainGoes, AtIdle DEF Outside, Step
    <2> QED BY <2>1, <2>2, <2>3
  <1>5. CASE fork(e)
    <2>1. At(e, "fork") /\ Step(e) /\ Then(e, Shared(e, Arg(e, 2)) \o <<<<"start", Arg(e, 2)>>>>)
      BY <1>5 DEF fork
    <2> QED BY <1>1, <2>1, SharedPlain
  <1>6. CASE spawn(e)
    <2>1. PlainCall(<<"fork", Arg(e, 2)>>)
      BY DEF PlainCall, OnFd
    <2>2. Plain(<<<<"fork", Arg(e, 2)>>>>)
      BY <2>1, PlainOne
    <2> QED BY <1>1, <1>6, <2>2, PlainNone DEF spawn
  <1>7. CASE wait(e)
    BY <1>1, <1>7, PlainNone DEF wait
  <1>8. CASE exit(e)
    <2>1. PlainCall(<<"destroy">>)
      BY DEF PlainCall, OnFd
    <2>2. Plain(close_all \o <<<<"destroy">>>>)
      BY <2>1, PlainOne, CloseAllPlain, PlainConcat
    <2> QED BY <1>1, <1>8, <2>2 DEF exit
  <1>9. CASE mem_unmap(e)
    <2>1. Then(e, <<>>) /\ Step(e) /\ (At(e, "unmap_fd") \/ At(e, "unmap_data"))
      BY <1>9 DEF mem_unmap
    <2> QED BY <1>1, <2>1, PlainNone
  <1>10. CASE mem_map(e)
    <2>1. Then(e, <<>>) /\ Step(e) /\ (At(e, "map_fd") \/ At(e, "map_data"))
      BY <1>10 DEF mem_map
    <2> QED BY <1>1, <2>1, PlainNone
  <1>11. CASE set_env_status(e)
    <2>1. Then(e, <<>>) /\ Step(e) /\ (At(e, "start") \/ At(e, "block"))
      BY <1>11 DEF set_env_status
    <2> QED BY <1>1, <2>1, PlainNone
  <1>12. CASE env_destroy(e)
    <2>1. At(e, "destroy") /\ Step(e) /\ code' = [code EXCEPT ![e] = <<>>]
      BY <1>12 DEF env_destroy
    <2> QED BY <2>1, PlainNone, PlainGoes, AtIdle DEF Outside, Step
  <1>13. CASE while_runnable(e)
    <2>1. At(e, "dup_while") /\ Step(e)
          /\ (Again(e, <<<<"dup", Arg(e, 2), Arg(e, 3)>>>>) \/ Then(e, <<>>))
      BY <1>13 DEF while_runnable
    <2>2. CASE Then(e, <<>>)
      BY <1>1, <2>1, <2>2, PlainNone
    <2>3. CASE Again(e, <<<<"dup", Arg(e, 2), Arg(e, 3)>>>>)
      <3>1. Arg(e, 2) \in Fdnum
        BY <2>1, HeadOnFd DEF At, Arg, OnFd
      <3>2. PlainCall(<<"dup", Arg(e, 2), Arg(e, 3)>>)
        BY <3>1 DEF PlainCall, OnFd
      <3>3. Plain(<<<<"dup", Arg(e, 2), Arg(e, 3)>>>>)
        BY <3>2, PlainOne
      <3> QED BY <2>1, <2>3, <3>3, AgainGoes, AtIdle DEF Outside, Step
    <2> QED BY <2>1, <2>2, <2>3
  <1> QED BY <1>2, <1>3, <1>4, <1>5, <1>6, <1>7, <1>8, <1>9, <1>10, <1>11, <1>12, <1>13

\* A step that neither starts nor ends the transfer of a byte.
LEMMA QuietKeeps ==
  ASSUME PInv, NEW e \in Env, NEW r \in IoRec, Runs(e, r), UNCHANGED <<p_rpos, p_wpos, p_buf, got>>,
         io[e].ph \notin {"copy", "advance"}, r.ph \notin {"copy", "advance"},
         code' = code \/ \E new : Goes(e, new),
         \/ r.ph = "idle"
         \/ /\ code' = code /\ code[e] # <<>> /\ Op(e) \in {"read", "write", "is_closed"}
            /\ r.ph \in {"test", "copy", "advance"} => Op(e) # "is_closed"
  PROVE  CodeOK' /\ IoOK' /\ InCalls' /\ Ring'
  <1>1. CodeOK' /\ \A f \in Env : f # e => code'[f] = code[f]
    <2>1. CASE code' = code
      BY <2>1 DEF PInv, CodeOK
    <2>2. CASE \E new : Goes(e, new)
      BY <2>2, GoesKeeps DEF PInv
    <2> QED BY <2>1, <2>2
  <1>2. IoOK' /\ io'[e] = r /\ \A f \in Env : f # e => io'[f].ph = io[f].ph
    BY RunsKeeps DEF PInv
  <1>3. Others(e)
    BY <1>1, <1>2 DEF Others
  <1>4. InCalls'
    BY <1>2, <1>3, CallsKeep DEF PInv
  <1>5. Ring'
    BY <1>2, <1>3, QuietRing DEF PInv
  <1> QED BY <1>1, <1>2, <1>4, <1>5

LEMMA OutsideKeeps ==
  ASSUME PInv, NEW e \in Env, Outside(e)
  PROVE  CodeOK' /\ IoOK' /\ PipeOK' /\ InCalls' /\ Ring'
  <1>1. io[e] \in IoRec
    BY DEF PInv, IoOK
  <1>2. UNCHANGED <<p_rpos, p_wpos, p_buf, got, eof>>
    BY DEF Outside, pipe_vars
  <1>3. CodeOK' /\ IoOK' /\ InCalls' /\ Ring'
    BY <1>1, <1>2, QuietKeeps DEF Outside
  <1>4. PipeOK'
    BY <1>2 DEF PInv, PipeOK
  <1> QED BY <1>3, <1>4

-----------------------------------------------------------------------------
(* The steps of read, write and pipe_is_closed. *)

LEMMA IdleRec == Idle \in IoRec /\ Idle.ph = "idle"
  <1>1. PICK t : t = FALSE
    OBVIOUS
  <1>2. t \in BOOLEAN /\ Idle = [ph |-> "idle", i |-> 0, fd_ref |-> 0, same |-> t]
    BY <1>1 DEF Idle
  <1> QED BY <1>2 DEF IoRec, Phases

LEMMA Counts ==
  ASSUME NEW k
  PROVE  FdRef(k) \in Nat
  <1>1. IsFiniteSet(Fdnum)
    BY PipeSizes, FS_Interval DEF Fdnum
  <1>2. IsFiniteSet(Env \X Fdnum)
    BY <1>1, PipeSizes, FS_Product
  <1>3. {m \in Env \X Fdnum : fd[m[1]][m[2]] = k} \in SUBSET (Env \X Fdnum)
    OBVIOUS
  <1>4. IsFiniteSet({m \in Env \X Fdnum : fd[m[1]][m[2]] = k})
    BY <1>2, <1>3, FS_Subset
  <1> QED BY <1>4, FS_CardinalityType DEF FdRef

\* What a step in the middle of a call makes of its record.
LEMMA RecMoves ==
  ASSUME NEW x \in IoRec, NEW p \in Phases, NEW n \in Nat
  PROVE  /\ [x EXCEPT !.ph = p] \in IoRec /\ [x EXCEPT !.ph = p].ph = p
         /\ [x EXCEPT !.ph = p, !.i = n] \in IoRec /\ [x EXCEPT !.ph = p, !.i = n].ph = p
  BY DEF IoRec

InTheCall(e) == code[e] # <<>> /\ Op(e) \in {"read", "write", "is_closed"}

LEMMA InCallHead ==
  ASSUME NEW e, NEW ph, InCall(e, ph)
  PROVE  InTheCall(e) /\ io[e].ph = ph
  BY DEF InCall, At, InTheCall, Op

LEMMA CallKeeps ==
  ASSUME PInv, NEW e \in Env, call(e)
  PROVE  CodeOK' /\ IoOK' /\ InCalls' /\ Ring'
  <1>1. InTheCall(e) /\ io[e].ph = "idle"
    BY InCallHead DEF call
  <1>2. UNCHANGED <<p_rpos, p_wpos, p_buf, got>>
    BY DEF call, pipe_vars
  <1>3. CASE Page(e) \in {"rd", "wr"} /\ Allowed(e)
    <2> DEFINE p == IF Arg(e, 1) = "is_closed" THEN "fd_ref" ELSE "test"
    <2>1. p \in Phases /\ (p = "fd_ref" \/ p = "test") /\ (p = "test" => Op(e) # "is_closed")
      BY DEF Phases, Op, Arg
    <2>2. code' = code /\ Runs(e, [Idle EXCEPT !.ph = p])
      BY <1>3 DEF call
    <2> HIDE DEF p
    <2>3. [Idle EXCEPT !.ph = p] \in IoRec /\ [Idle EXCEPT !.ph = p].ph = p
      BY <2>1, IdleRec, RecMoves
    <2> DEFINE r == [Idle EXCEPT !.ph = p]
    <2>4. r \in IoRec /\ r.ph = p /\ Runs(e, r)
      BY <2>2, <2>3
    <2> HIDE DEF r
    <2> QED BY <1>1, <1>2, <2>1, <2>2, <2>4, QuietKeeps DEF InTheCall
  <1>4. CASE ~(Page(e) \in {"rd", "wr"} /\ Allowed(e))
    <2>1. Runs(e, Idle) /\ Then(e, <<>>)
      BY <1>4 DEF call
    <2>2. \E new : Goes(e, new)
      BY <1>1, <2>1, PlainNone, ThenGoes DEF PInv, InTheCall
    <2> QED BY <1>1, <1>2, <2>1, <2>2, IdleRec, QuietKeeps
  <1> QED BY <1>3, <1>4

\* _pipe_is_closed, one look at the counts after the other.
LEMMA RefsKeep ==
  ASSUME PInv, NEW e \in Env, fd_ref(e) \/ pipe_ref(e) \/ yield(e)
  PROVE  CodeOK' /\ IoOK' /\ InCalls' /\ Ring'
  <1>0. io[e] \in IoRec
    BY DEF PInv, IoOK
  <1>1. InTheCall(e) /\ io[e].ph \in {"fd_ref", "pipe_ref", "open"}
    BY InCallHead DEF fd_ref, pipe_ref, yield
  <1>2. code' = code /\ UNCHANGED <<p_rpos, p_wpos, p_buf, got>>
    BY DEF fd_ref, pipe_ref, yield, pipe_vars
  <1>3. PICK r \in IoRec : /\ Runs(e, r) /\ r.ph \in {"fd_ref", "pipe_ref", "open", "closed", "test"}
                           /\ r.ph = "test" => Op(e) # "is_closed"
    <2>1. PICK t : t = TRUE
      OBVIOUS
    <2>2. PICK u : u = FALSE
      OBVIOUS
    <2>3. t \in BOOLEAN /\ u \in BOOLEAN
      BY <2>1, <2>2
    <2>4. CASE fd_ref(e)
      <3> DEFINE k == FdRef(Page(e))
      <3>1. k \in Nat
        BY Counts
      <3>2. Runs(e, [io[e] EXCEPT !.ph = "pipe_ref", !.fd_ref = k, !.same = t])
        BY <2>1, <2>4 DEF fd_ref
      <3> HIDE DEF k
      <3>3. "pipe_ref" \in Phases
        BY DEF Phases
      <3> DEFINE r == [io[e] EXCEPT !.ph = "pipe_ref", !.fd_ref = k, !.same = t]
      <3>4. r \in IoRec /\ r.ph = "pipe_ref"
        <4> DEFINE x == io[e]
        <4>1. x \in IoRec
          BY <1>0
        <4> HIDE DEF x
        <4> QED BY <2>3, <3>1, <3>3, <4>1 DEF IoRec, x
      <3>5. Runs(e, r)
        BY <3>2
      <3> HIDE DEF r
      <3> QED BY <3>3, <3>4, <3>5
    <2>5. CASE pipe_ref(e)
      <3>1. \E p \in {"fd_ref", "closed", "open"} :
               Runs(e, [io[e] EXCEPT !.ph = p, !.fd_ref = 0, !.same = u])
        <4>1. CASE ~Undisturbed(e)
          BY <2>2, <2>5, <4>1 DEF pipe_ref
        <4>2. CASE Undisturbed(e)
          BY <2>2, <2>5, <4>2 DEF pipe_ref
        <4> QED BY <4>1, <4>2
      <3>2. PICK p \in {"fd_ref", "closed", "open"} :
               Runs(e, [io[e] EXCEPT !.ph = p, !.fd_ref = 0, !.same = u])
        BY <3>1
      <3>3. p \in Phases /\ p # "test" /\ 0 \in Nat
        BY DEF Phases
      <3> DEFINE r == [io[e] EXCEPT !.ph = p, !.fd_ref = 0, !.same = u]
      <3>4. r \in IoRec /\ r.ph = p
        <4> DEFINE x == io[e]
        <4>1. x \in IoRec
          BY <1>0
        <4> HIDE DEF x
        <4> QED BY <2>3, <3>3, <4>1 DEF IoRec, x
      <3>5. Runs(e, r)
        BY <3>2
      <3> HIDE DEF r
      <3> QED BY <3>3, <3>4, <3>5
    <2>6. CASE yield(e)
      <3>1. Runs(e, [io[e] EXCEPT !.ph = "test"]) /\ Op(e) # "is_closed"
        BY <2>6 DEF yield, Op, Arg
      <3>2. "test" \in Phases
        BY DEF Phases
      <3> DEFINE r == [io[e] EXCEPT !.ph = "test"]
      <3>4. r \in IoRec /\ r.ph = "test"
        BY <1>0, <3>2, RecMoves
      <3>5. Runs(e, r)
        BY <3>1
      <3> HIDE DEF r
      <3> QED BY <3>1, <3>4, <3>5
    <2> QED BY <2>4, <2>5, <2>6
  <1> QED BY <1>1, <1>2, <1>3, QuietKeeps DEF InTheCall

\* The call returns.
LEMMA ReturnKeeps ==
  ASSUME PInv, NEW e \in Env, return(e) \/ verdict(e)
  PROVE  CodeOK' /\ IoOK' /\ InCalls' /\ Ring'
  <1>1. InTheCall(e) /\ io[e].ph \in {"test", "closed", "open"}
    BY DEF return, verdict, At, InCall, InTheCall, Op
  <1>2. Runs(e, Idle) /\ UNCHANGED <<p_rpos, p_wpos, p_buf, got>> /\ (code' = code \/ Then(e, <<>>))
    BY DEF return, verdict, pipe_vars
  <1>3. code' = code \/ \E new : Goes(e, new)
    BY <1>1, <1>2, PlainNone, ThenGoes DEF PInv, InTheCall
  <1> QED BY <1>1, <1>2, <1>3, IdleRec, QuietKeeps

-----------------------------------------------------------------------------
(* One byte after the other. *)

\* The step of a transfer, but for the ring.
LEMMA ByteKeeps ==
  ASSUME PInv, NEW e \in Env, NEW r \in IoRec, Runs(e, r), code' = code, InTheCall(e),
         r.ph \in {"test", "copy", "advance"}, Op(e) # "is_closed"
  PROVE  CodeOK' /\ IoOK' /\ InCalls' /\ Others(e) /\ io'[e] = r /\ Op(e)' = Op(e)
  <1>1. IoOK' /\ io'[e] = r /\ \A f \in Env : f # e => io'[f].ph = io[f].ph
    BY RunsKeeps DEF PInv
  <1>2. Others(e)
    BY <1>1 DEF Others
  <1>3. InCalls'
    BY <1>1, <1>2, CallsKeep DEF PInv, InTheCall
  <1>4. CodeOK'
    BY DEF PInv, CodeOK
  <1> QED BY <1>1, <1>2, <1>3, <1>4 DEF Op

LEMMA TestKeeps ==
  ASSUME PInv, NEW e \in Env, test(e)
  PROVE  CodeOK' /\ IoOK' /\ InCalls' /\ Ring'
  <1>0. io[e] \in IoRec /\ 0 \in Nat
    BY DEF PInv, IoOK
  <1>1. InTheCall(e) /\ io[e].ph = "test"
    BY InCallHead DEF test
  <1>2. Op(e) \in {"read", "write"}
    BY <1>1 DEF PInv, InCalls, InTheCall
  <1>3. code' = code /\ UNCHANGED <<p_rpos, p_wpos, p_buf, got>>
    BY DEF test, pipe_vars
  <1>4. CASE MustWait(e)
    <2>1. Runs(e, [io[e] EXCEPT !.ph = "fd_ref"])
      BY <1>4 DEF test
    <2>2. "fd_ref" \in Phases
      BY DEF Phases
    <2> DEFINE r == [io[e] EXCEPT !.ph = "fd_ref"]
    <2>3. r \in IoRec /\ r.ph = "fd_ref" /\ Runs(e, r)
      BY <1>0, <2>1, <2>2, RecMoves
    <2> HIDE DEF r
    <2> QED BY <1>1, <1>3, <2>3, QuietKeeps DEF InTheCall
  <1>5. CASE ~MustWait(e)
    <2>1. Runs(e, [io[e] EXCEPT !.ph = "copy"])
      BY <1>5 DEF test
    <2>2. "copy" \in Phases
      BY DEF Phases
    <2> DEFINE r == [io[e] EXCEPT !.ph = "copy"]
    <2>3. r \in IoRec /\ r.ph = "copy" /\ Runs(e, r)
      BY <1>0, <2>1, <2>2, RecMoves
    <2> HIDE DEF r
    <2>4. CodeOK' /\ IoOK' /\ InCalls' /\ Others(e) /\ io'[e].ph = "copy" /\ Op(e)' = Op(e)
      BY <1>1, <1>2, <1>3, <2>3, ByteKeeps
    <2>5. /\ \A f \in Env : f # e => \A op : Copying(f, op)' <=> Copying(f, op)
          /\ \A f \in Env : \A op : Moving(f, op)' <=> Moving(f, op)
      <3>1. \A op : Moving(e, op)' <=> Moving(e, op)
        BY <1>1, <2>4 DEF Moving
      <3> QED BY <2>4, <3>1, OthersCopy
    <2>6. taken' = taken
      BY <2>5 DEF taken
    <2>7. Op(e) = "read" => p_rpos < p_wpos
      BY <1>5 DEF MustWait, Op, Arg, Empty, PInv, PipeOK
    <2>8. Op(e) = "write" => p_wpos < p_rpos + PIPE_SIZE
      BY <1>5, PipeSizes DEF MustWait, Op, Arg, Full, PInv, PipeOK
    <2>9. \A f \in Env : Copying(f, "read")' => p_rpos < p_wpos
      BY <2>4, <2>5, <2>7 DEF Copying, PInv, Ring
    <2>10. \A f \in Env : Copying(f, "write")' => p_wpos < p_rpos + PIPE_SIZE
      BY <2>4, <2>5, <2>8 DEF Copying, PInv, Ring
    <2>11. Ring'
      BY <1>3, <2>5, <2>6, <2>9, <2>10 DEF PInv, Ring
    <2> QED BY <2>4, <2>11
  <1> QED BY <1>4, <1>5

\* The byte: the reader's is the oldest one written, the writer's goes where
\* nothing that is still to be read lies.
LEMMA CopyKeeps ==
  ASSUME PInv, NEW e \in Env, copy(e)
  PROVE  CodeOK' /\ IoOK' /\ InCalls' /\ PipeOK' /\ Ring'
  <1>0. io[e] \in IoRec /\ 0 \in Nat
    BY DEF PInv, IoOK
  <1>1. InTheCall(e) /\ io[e].ph = "copy"
    BY InCallHead DEF copy
  <1>2. Op(e) \in {"read", "write"}
    BY <1>1 DEF PInv, InCalls, InTheCall
  <1>3. code' = code /\ UNCHANGED <<p_rpos, p_wpos, eof>>
    BY DEF copy
  <1>4. CodeOK' /\ IoOK' /\ InCalls' /\ Others(e) /\ io'[e].ph = "advance" /\ Op(e)' = Op(e)
    <2>1. "advance" \in Phases
      BY DEF Phases
    <2> DEFINE r == [io[e] EXCEPT !.ph = "advance"]
    <2>2. Runs(e, r)
      BY DEF copy
    <2>3. r \in IoRec /\ r.ph = "advance"
      BY <1>0, <2>1, RecMoves
    <2> HIDE DEF r
    <2> QED BY <1>1, <1>2, <1>3, <2>2, <2>3, ByteKeeps
  <1>5. \A f \in Env : f # e => \A op : (Copying(f, op)' <=> Copying(f, op)) /\ (Moving(f, op)' <=> Moving(f, op))
    BY <1>4, OthersCopy
  <1>6. \A op : (Copying(e, op)' <=> Copying(e, op)) /\ ~Moving(e, op) /\ (Moving(e, op)' <=> Op(e) = op)
    BY <1>1, <1>4 DEF Copying, Moving
  <1>7. p_rpos \in Nat /\ p_wpos \in Nat /\ PIPE_SIZE \in Nat /\ PIPE_SIZE > 0
    BY PipeSizes DEF PInv, PipeOK
  <1>8. \A f \in Env : Moving(f, Op(e)) => FALSE
    <2> TAKE f \in Env
    <2> HAVE Moving(f, Op(e))
    <2>1. Copying(f, Op(e)) /\ Copying(e, Op(e))
      BY <1>1 DEF Moving, Copying
    <2>2. f = e
      BY <1>2, <2>1, OneSide DEF PInv
    <2> QED BY <1>6, <2>2
  <1>9. CASE Op(e) = "read"
    <2> DEFINE b == p_buf[p_rpos % PIPE_SIZE]
    <2>1. got' = Append(got, b) /\ p_buf' = p_buf
      BY <1>9 DEF copy, Op, Arg
    <2>2. Copying(e, "read")
      BY <1>1, <1>9 DEF Copying
    <2>3. p_rpos < p_wpos
      BY <2>2 DEF PInv, Ring
    <2>4. b = p_rpos + 1
      BY <1>7, <2>3 DEF PInv, Ring
    <2>5. taken = 0
      BY <1>8, <1>9 DEF taken
    <2>6. taken' = 1
      BY <1>6, <1>9 DEF taken
    <2>7. Len(got) = p_rpos /\ got \in Seq(Nat \ {0})
      BY <1>7, <2>5 DEF PInv, Ring, PipeOK
    <2> HIDE DEF b
    <2>8. got' \in Seq(Nat \ {0}) /\ Len(got') = p_rpos + 1 /\ \A n \in DOMAIN got' : got'[n] = n
      <3>1. \A n \in DOMAIN got : got[n] = n
        BY DEF PInv, Ring
      <3> QED BY <1>7, <2>1, <2>4, <2>7, <3>1
    <2>9. PipeOK'
      BY <1>3, <2>1, <2>8 DEF PInv, PipeOK
    <2>10. \A f \in Env : /\ Copying(f, "read")' => Copying(f, "read")
                          /\ Copying(f, "write")' => Copying(f, "write")
                          /\ Moving(f, "write")' => Moving(f, "write")
      BY <1>5, <1>6, <1>9
    <2>11. Ring'
      BY <1>3, <2>1, <2>6, <2>8, <2>10 DEF PInv, Ring
    <2> QED BY <1>4, <2>9, <2>11
  <1>10. CASE Op(e) = "write"
    <2> DEFINE w == p_wpos % PIPE_SIZE
    <2>1. p_buf' = [p_buf EXCEPT ![w] = p_wpos + 1] /\ got' = got
      BY <1>10 DEF copy, Op, Arg
    <2>2. Copying(e, "write")
      BY <1>1, <1>10 DEF Copying
    <2>3. p_wpos < p_rpos + PIPE_SIZE
      BY <2>2 DEF PInv, Ring
    <2>4. w \in 0..PIPE_SIZE - 1
      BY <1>7, DivMod
    <2>5. \A n \in Nat : p_rpos <= n /\ n < p_wpos => n % PIPE_SIZE # w /\ n % PIPE_SIZE \in 0..PIPE_SIZE - 1
      <3> TAKE n \in Nat
      <3> HAVE p_rpos <= n /\ n < p_wpos
      <3>1. p_wpos - n < PIPE_SIZE
        BY <1>7, <2>3
      <3> QED BY <1>7, <3>1, RingDistinct, DivMod
    <2> HIDE DEF w
    <2>6. p_buf' \in [0..PIPE_SIZE - 1 -> Nat] /\ p_buf'[w] = p_wpos + 1
      BY <1>7, <2>1, <2>4 DEF PInv, PipeOK
    <2>7. \A n \in Nat : p_rpos <= n /\ n < p_wpos => p_buf'[n % PIPE_SIZE] = n + 1
      <3> TAKE n \in Nat
      <3> HAVE p_rpos <= n /\ n < p_wpos
      <3> DEFINE m == n % PIPE_SIZE
      <3>1. p_buf[m] = n + 1 /\ m # w /\ m \in 0..PIPE_SIZE - 1
        BY <2>5 DEF PInv, Ring
      <3> HIDE DEF m
      <3>2. p_buf'[m] = n + 1
        BY <2>1, <2>4, <3>1 DEF PInv, PipeOK
      <3> QED BY <3>2 DEF m
    <2>8. PipeOK'
      BY <1>3, <2>1, <2>6 DEF PInv, PipeOK
    <2>9. \A f \in Env : /\ Copying(f, "read")' => Copying(f, "read")
                         /\ Copying(f, "write")' => Copying(f, "write")
                         /\ Moving(f, "read")' <=> Moving(f, "read")
      BY <1>5, <1>6, <1>10
    <2>10. taken' = taken
      BY <2>9 DEF taken
    <2>11. p_buf'[p_wpos % PIPE_SIZE] = p_wpos + 1
      BY <2>6 DEF w
    <2>12. Ring'
      BY <1>3, <2>1, <2>7, <2>9, <2>10, <2>11 DEF PInv, Ring
    <2> QED BY <1>4, <2>8, <2>12
  <1> QED BY <1>2, <1>9, <1>10

\* The position that gives the byte, or its place, to the other side.
LEMMA AdvanceKeeps ==
  ASSUME PInv, NEW e \in Env, advance(e)
  PROVE  CodeOK' /\ IoOK' /\ InCalls' /\ PipeOK' /\ Ring'
  <1>0. io[e] \in IoRec /\ io[e].i + 1 \in Nat
    BY DEF PInv, IoOK, IoRec
  <1>1. InTheCall(e) /\ io[e].ph = "advance"
    BY InCallHead DEF advance
  <1>2. Op(e) \in {"read", "write"}
    BY <1>1 DEF PInv, InCalls, InTheCall
  <1>3. code' = code /\ UNCHANGED <<p_buf, got, eof>>
    BY DEF advance
  <1>4. CodeOK' /\ IoOK' /\ InCalls' /\ Others(e) /\ io'[e].ph = "test" /\ Op(e)' = Op(e)
    <2>1. "test" \in Phases
      BY DEF Phases
    <2> DEFINE n == io[e].i + 1
    <2> DEFINE r == [io[e] EXCEPT !.ph = "test", !.i = n]
    <2>2. Runs(e, r)
      BY <1>0 DEF advance, IoRec
    <2>3. n \in Nat
      BY <1>0
    <2> HIDE DEF n
    <2>4. r \in IoRec /\ r.ph = "test"
      BY <1>0, <2>1, <2>3, RecMoves
    <2> HIDE DEF r
    <2> QED BY <1>1, <1>2, <1>3, <2>2, <2>4, ByteKeeps
  <1>5. \A f \in Env : f # e => \A op : (Copying(f, op)' <=> Copying(f, op)) /\ (Moving(f, op)' <=> Moving(f, op))
    BY <1>4, OthersCopy
  <1>6. Copying(e, Op(e)) /\ Moving(e, Op(e)) /\ \A op : ~Copying(e, op)' /\ ~Moving(e, op)'
    BY <1>1, <1>4 DEF Copying, Moving
  <1>7. p_rpos \in Nat /\ p_wpos \in Nat /\ PIPE_SIZE \in Nat /\ PIPE_SIZE > 0
    BY PipeSizes DEF PInv, PipeOK
  <1>8. \A f \in Env : \A op : op = Op(e) => ~Copying(f, op)' /\ ~Moving(f, op)'
    <2> TAKE f \in Env
    <2> TAKE op
    <2> HAVE op = Op(e)
    <2>1. f # e => ~Copying(f, op)
      BY <1>2, <1>6, OneSide DEF PInv
    <2>2. f # e => ~Moving(f, op)
      BY <2>1 DEF Moving, Copying
    <2>3. CASE f = e
      BY <1>6, <2>3
    <2>4. CASE f # e
      BY <1>5, <2>1, <2>2, <2>4
    <2> QED BY <2>3, <2>4
  <1>9. CASE Op(e) = "read"
    <2>1. p_rpos' = p_rpos + 1 /\ p_wpos' = p_wpos
      BY <1>9 DEF advance, Op, Arg
    <2>2. p_rpos < p_wpos
      BY <1>6, <1>9 DEF PInv, Ring
    <2>3. taken = 1
      BY <1>6, <1>9 DEF taken
    <2>4. taken' = 0
      BY <1>4, <1>8, <1>9 DEF taken
    <2>5. \A f \in Env : /\ ~Copying(f, "read")'
                         /\ Copying(f, "write")' => Copying(f, "write")
                         /\ Moving(f, "write")' => Moving(f, "write")
      BY <1>5, <1>6, <1>8, <1>9
    <2>6. PipeOK'
      BY <1>3, <1>7, <2>1 DEF PInv, PipeOK
    <2>7. Ring'
      BY <1>3, <1>7, <2>1, <2>2, <2>3, <2>4, <2>5 DEF PInv, Ring
    <2> QED BY <1>4, <2>6, <2>7
  <1>10. CASE Op(e) = "write"
    <2>1. p_wpos' = p_wpos + 1 /\ p_rpos' = p_rpos
      BY <1>10 DEF advance, Op, Arg
    <2>2. p_wpos < p_rpos + PIPE_SIZE
      BY <1>6, <1>10 DEF PInv, Ring
    <2>3. p_buf[p_wpos % PIPE_SIZE] = p_wpos + 1
      BY <1>6, <1>10 DEF PInv, Ring
    <2>4. \A f \in Env : /\ ~Copying(f, "write")' /\ ~Moving(f, "write")'
                         /\ Copying(f, "read")' => Copying(f, "read")
                         /\ Moving(f, "read")' <=> Moving(f, "read")
      <3>1. ~Moving(e, "read")
        BY <1>10 DEF Moving
      <3> QED BY <1>5, <1>6, <1>8, <1>10, <3>1
    <2>5. taken' = taken
      BY <2>4 DEF taken
    <2>6. \A n \in Nat : p_rpos <= n /\ n < p_wpos + 1 => p_buf[n % PIPE_SIZE] = n + 1
      <3> TAKE n \in Nat
      <3> HAVE p_rpos <= n /\ n < p_wpos + 1
      <3>1. CASE n = p_wpos
        BY <2>3, <3>1
      <3>2. CASE n < p_wpos
        BY <3>2 DEF PInv, Ring
      <3> QED BY <1>7, <3>1, <3>2
    <2>7. PipeOK'
      BY <1>3, <1>7, <2>1 DEF PInv, PipeOK
    <2>8. Ring'
      BY <1>3, <1>7, <2>1, <2>2, <2>4, <2>5, <2>6 DEF PInv, Ring
    <2> QED BY <1>4, <2>7, <2>8
  <1> QED BY <1>2, <1>9, <1>10

-----------------------------------------------------------------------------
(* The tables of the environments. *)

\* A page may be mapped at any descriptor, of any environment.
LEMMA TableSet ==
  ASSUME NEW T, NEW t \in [Env -> [Fdnum -> T]], NEW e, NEW i, NEW v \in T
  PROVE  [t EXCEPT ![e][i] = v] \in [Env -> [Fdnum -> T]]
  <1> DEFINE row(f) == IF f = e THEN [t[f] EXCEPT ![i] = v] ELSE t[f]
  <1>1. \A f \in Env : row(f) \in [Fdnum -> T]
    OBVIOUS
  <1>2. [t EXCEPT ![e][i] = v] = [f \in Env |-> row(f)]
    OBVIOUS
  <1> HIDE DEF row
  <1> QED BY <1>1, <1>2

LEMMA RowSet ==
  ASSUME NEW T, NEW t \in [Env -> T], NEW e, NEW v \in T
  PROVE  [t EXCEPT ![e] = v] \in [Env -> T]
  OBVIOUS

FdVal == FdPage \union {None}

LEMMA MapsKeep ==
  ASSUME PInv, NEW e \in Env, Do(e)
  PROVE  MapsOK'
  <1> DEFINE Status == {"FREE", "RUNNABLE", "NOT_RUNNABLE"}
  <1>0. fd \in [Env -> [Fdnum -> FdVal]] /\ data \in [Env -> [Fdnum -> BOOLEAN]] /\ status \in [Env -> Status]
    BY DEF PInv, MapsOK, FdVal
  <1>1. "rd" \in FdVal /\ "wr" \in FdVal /\ None \in FdVal /\ TRUE \in BOOLEAN /\ FALSE \in BOOLEAN
    BY DEF FdVal, FdPage
  <1>2. "FREE" \in Status /\ "RUNNABLE" \in Status /\ "NOT_RUNNABLE" \in Status
    OBVIOUS
  <1> HIDE DEF Status
  <1>3. SUFFICES /\ fd' \in [Env -> [Fdnum -> FdVal]] /\ data' \in [Env -> [Fdnum -> BOOLEAN]]
                 /\ status' \in [Env -> Status]
    BY DEF MapsOK, FdVal, Status
  <1>4. CASE UNCHANGED <<fd, data, status>>
    BY <1>0, <1>4
  <1>5. CASE pipe(e)
    <2> DEFINE f0 == fd_alloc(fd[e])
               f1 == fd_alloc([fd[e] EXCEPT ![f0] = "rd"])
               fda == [fd EXCEPT ![e][f0] = "rd"]
               dataa == [data EXCEPT ![e][f0] = TRUE]
    <2>1. \/ fd' = [fda EXCEPT ![e][f1] = "wr"] /\ data' = [dataa EXCEPT ![e][f1] = TRUE]
          \/ UNCHANGED <<fd, data>>
      BY <1>5 DEF pipe
    <2>2. status' = status
      BY <1>5 DEF pipe
    <2> HIDE DEF f0, f1
    <2>3. fda \in [Env -> [Fdnum -> FdVal]] /\ dataa \in [Env -> [Fdnum -> BOOLEAN]]
      BY <1>0, <1>1, TableSet
    <2> HIDE DEF fda, dataa
    <2>4. CASE fd' = [fda EXCEPT ![e][f1] = "wr"] /\ data' = [dataa EXCEPT ![e][f1] = TRUE]
      BY <1>0, <1>1, <2>2, <2>3, <2>4, TableSet
    <2>5. CASE UNCHANGED <<fd, data>>
      BY <1>0, <2>2, <2>5
    <2> QED BY <2>1, <2>4, <2>5
  <1>6. CASE fork(e)
    <2>1. status' = [status EXCEPT ![Arg(e, 2)] = "NOT_RUNNABLE"] /\ UNCHANGED <<fd, data>>
      BY <1>6 DEF fork
    <2> QED BY <1>0, <1>2, <2>1, RowSet
  <1>7. CASE mem_unmap(e)
    <2>1. /\ \/ fd' = [fd EXCEPT ![e][Arg(e, 2)] = None] /\ data' = data
             \/ data' = [data EXCEPT ![e][Arg(e, 2)] = FALSE] /\ fd' = fd
          /\ status' = status
      BY <1>7 DEF mem_unmap
    <2>2. CASE fd' = [fd EXCEPT ![e][Arg(e, 2)] = None] /\ data' = data
      BY <1>0, <1>1, <2>1, <2>2, TableSet
    <2>3. CASE data' = [data EXCEPT ![e][Arg(e, 2)] = FALSE] /\ fd' = fd
      BY <1>0, <1>1, <2>1, <2>3, TableSet
    <2> QED BY <2>1, <2>2, <2>3
  <1>8. CASE mem_map(e)
    <2>1. /\ \/ /\ At(e, "map_fd") /\ data' = data
                /\ fd' = [fd EXCEPT ![Arg(e, 3)][Arg(e, 4)] = fd[e][Arg(e, 2)]]
             \/ /\ At(e, "map_data") /\ fd' = fd
                /\ data' = [data EXCEPT ![Arg(e, 3)][Arg(e, 4)] = data[e][Arg(e, 2)]]
          /\ status' = status
      BY <1>8 DEF mem_map
    <2>2. OnFd(Head(code[e])) /\ Head(code[e])[1] \in {"map_fd", "map_data"}
      BY <2>1, HeadOnFd DEF PInv, At
    <2>3. Arg(e, 2) \in Fdnum
      BY <2>2 DEF OnFd, Arg
    <2>4. fd[e][Arg(e, 2)] \in FdVal /\ data[e][Arg(e, 2)] \in BOOLEAN
      BY <1>0, <2>3
    <2>5. CASE data' = data /\ fd' = [fd EXCEPT ![Arg(e, 3)][Arg(e, 4)] = fd[e][Arg(e, 2)]]
      BY <1>0, <2>1, <2>4, <2>5, TableSet
    <2>6. CASE fd' = fd /\ data' = [data EXCEPT ![Arg(e, 3)][Arg(e, 4)] = data[e][Arg(e, 2)]]
      <3> DEFINE v == data[e][Arg(e, 2)]
      <3>1. v \in BOOLEAN /\ data' = [data EXCEPT ![Arg(e, 3)][Arg(e, 4)] = v]
        BY <2>4, <2>6
      <3> HIDE DEF v
      <3>2. data' \in [Env -> [Fdnum -> BOOLEAN]]
        BY <1>0, <3>1, TableSet
      <3> QED BY <1>0, <2>1, <2>6, <3>2
    <2> QED BY <2>1, <2>5, <2>6
  <1>9. CASE set_env_status(e)
    <2>1. /\ \/ status' = [status EXCEPT ![Arg(e, 2)] = "RUNNABLE"]
             \/ status' = [status EXCEPT ![e] = "NOT_RUNNABLE"]
          /\ UNCHANGED <<fd, data>>
      BY <1>9 DEF set_env_status
    <2> QED BY <1>0, <1>2, <2>1, RowSet
  <1>10. CASE env_destroy(e)
    <2>1. /\ fd' = [fd EXCEPT ![e] = [i \in Fdnum |-> None]]
          /\ data' = [data EXCEPT ![e] = [i \in Fdnum |-> FALSE]]
          /\ status' = [status EXCEPT ![e] = "FREE"]
      BY <1>10 DEF env_destroy
    <2>2. [i \in Fdnum |-> None] \in [Fdnum -> FdVal] /\ [i \in Fdnum |-> FALSE] \in [Fdnum -> BOOLEAN]
      BY <1>1
    <2> QED BY <1>0, <1>2, <2>1, <2>2, RowSet
  <1>11. \/ UNCHANGED <<fd, data, status>> \/ pipe(e) \/ fork(e) \/ mem_unmap(e) \/ mem_map(e)
         \/ set_env_status(e) \/ env_destroy(e)
    BY DEF Do, close, dup, spawn, wait, exit, call, test, fd_ref, pipe_ref, yield, copy, advance,
           return, verdict, while_runnable
  <1> QED BY <1>4, <1>5, <1>6, <1>7, <1>8, <1>9, <1>10, <1>11

-----------------------------------------------------------------------------
(* The theorems. *)

LEMMA PipeInit == Init => PInv
  <1> SUFFICES ASSUME Init PROVE PInv
    OBVIOUS
  <1>1. PICK s \in Scenario :
          /\ fd = [e \in Env |-> IF e = s.start THEN s.fd ELSE [i \in Fdnum |-> None]]
          /\ data = [e \in Env |-> [i \in Fdnum |-> FALSE]]
          /\ status = [e \in Env |-> IF e = s.start THEN "RUNNABLE" ELSE "FREE"]
          /\ code = s.code
          /\ io = [e \in Env |-> Idle]
          /\ p_rpos = 0 /\ p_wpos = 0 /\ p_buf = [i \in 0..PIPE_SIZE - 1 |-> 0]
          /\ got = <<>>
          /\ eof = [e \in Env |-> FALSE]
    BY DEF Init
  <1>2. CodeOK
    <2>1. code \in [Env -> Seq(Calls)]
      BY <1>1, ScenarioShape
    <2>2. \A e \in Env : IsSeq(code[e])
      BY <2>1 DEF IsSeq
    <2>3. \A e \in Env : \A x \in ToSet(code[e]) : x \in Calls
      BY <2>1 DEF ToSet
    <2>4. \A x \in Calls : OnFd(x)
      BY DEF Calls, OnFd
    <2>5. \A e, f \in Env : \A op \in {"read", "write"} :
            Uses(code[e], op) /\ Uses(code[f], op) => e = f
      BY <1>1, ScenarioShape
    <2> QED BY <2>1, <2>2, <2>3, <2>4, <2>5 DEF CodeOK
  <1>3. IoOK /\ \A e \in Env : io[e].ph = "idle"
    BY <1>1, IdleRec DEF IoOK
  <1>4. MapsOK
    <2>1. s.fd \in [Fdnum -> FdPage \union {None}] /\ [i \in Fdnum |-> None] \in [Fdnum -> FdPage \union {None}]
      BY <1>1, ScenarioShape DEF FdPage
    <2>2. fd \in [Env -> [Fdnum -> FdPage \union {None}]]
      BY <1>1, <2>1
    <2>3. data \in [Env -> [Fdnum -> BOOLEAN]]
      BY <1>1, Zenon
    <2>4. status \in [Env -> {"FREE", "RUNNABLE", "NOT_RUNNABLE"}]
      BY <1>1
    <2> QED BY <2>2, <2>3, <2>4 DEF MapsOK
  <1>5. PipeOK
    <2>1. eof \in [Env -> BOOLEAN]
      BY <1>1, Zenon
    <2>2. <<>> \in Seq(Nat \ {0})
      OBVIOUS
    <2> QED BY <1>1, <2>1, <2>2, PipeSizes DEF PipeOK
  <1>6. InCalls
    BY <1>3 DEF InCalls
  <1>7. Ring
    <2>1. taken = 0 /\ \A e \in Env : \A op : ~Copying(e, op) /\ ~Moving(e, op)
      BY <1>3 DEF taken, Copying, Moving
    <2>2. Len(got) = 0 /\ DOMAIN got = {}
      BY <1>1
    <2> QED BY <1>1, <2>1, <2>2, PipeSizes DEF Ring
  <1> QED BY <1>2, <1>3, <1>4, <1>5, <1>6, <1>7 DEF PInv

LEMMA PipeSame == PInv /\ UNCHANGED vars => PInv'
  <1> SUFFICES ASSUME PInv, UNCHANGED vars PROVE PInv'
    OBVIOUS
  <1>1. UNCHANGED <<fd, data, status, code, io, p_rpos, p_wpos, p_buf, got, eof>>
    BY DEF vars, pipe_vars
  <1>2. taken' = taken /\ \A e \in Env : \A op : (Copying(e, op)' <=> Copying(e, op))
                                            /\ (Moving(e, op)' <=> Moving(e, op))
    BY <1>1 DEF taken, Copying, Moving, Op
  <1>3. CodeOK' /\ IoOK' /\ MapsOK'
    BY <1>1 DEF PInv, CodeOK, IoOK, MapsOK
  <1>4. PipeOK' /\ InCalls'
    BY <1>1 DEF PInv, PipeOK, InCalls, Op
  <1>5. Ring'
    BY <1>1, <1>2 DEF PInv, Ring
  <1> QED BY <1>3, <1>4, <1>5 DEF PInv

LEMMA PipeNext == PInv /\ Next => PInv'
  <1> SUFFICES ASSUME PInv, Next PROVE PInv'
    OBVIOUS
  <1>1. CASE Done
    BY <1>1, PipeSame DEF Done
  <1>2. ASSUME NEW e \in Env, Do(e) PROVE PInv'
    <2>1. MapsOK'
      BY <1>2, MapsKeep
    <2>2. CASE \/ close(e) \/ dup(e) \/ pipe(e) \/ fork(e) \/ spawn(e) \/ wait(e) \/ exit(e)
               \/ mem_unmap(e) \/ mem_map(e) \/ set_env_status(e) \/ env_destroy(e)
               \/ while_runnable(e)
      <3>1. Outside(e)
        BY <2>2, OutsideSteps DEF PInv
      <3> QED BY <2>1, <3>1, OutsideKeeps DEF PInv
    <2>3. CASE call(e) \/ test(e) \/ fd_ref(e) \/ pipe_ref(e) \/ yield(e) \/ verdict(e)
      <3>1. CodeOK' /\ IoOK' /\ InCalls' /\ Ring'
        BY <2>3, CallKeeps, TestKeeps, RefsKeep, ReturnKeeps
      <3>2. UNCHANGED pipe_vars
        BY <2>3 DEF call, test, fd_ref, pipe_ref, yield, verdict
      <3>3. PipeOK'
        BY <3>2 DEF PInv, PipeOK, pipe_vars
      <3> QED BY <2>1, <3>1, <3>3 DEF PInv
    <2>4. CASE return(e)
      <3>1. CodeOK' /\ IoOK' /\ InCalls' /\ Ring'
        BY <2>4, ReturnKeeps
      <3>2. eof' \in [Env -> BOOLEAN]
        <4> DEFINE v == eof[e] \/ (Arg(e, 1) = "read" /\ io[e].i = 0)
        <4>1. eof' = [eof EXCEPT ![e] = v] /\ v \in BOOLEAN
          BY <2>4 DEF return
        <4> HIDE DEF v
        <4>2. eof \in [Env -> BOOLEAN]
          BY DEF PInv, PipeOK
        <4> QED BY <4>1, <4>2, RowSet
      <3>3. UNCHANGED <<p_rpos, p_wpos, p_buf, got>>
        BY <2>4 DEF return
      <3>4. PipeOK'
        BY <3>2, <3>3 DEF PInv, PipeOK
      <3> QED BY <2>1, <3>1, <3>4 DEF PInv
    <2>5. CASE copy(e)
      BY <2>1, <2>5, CopyKeeps DEF PInv
    <2>6. CASE advance(e)
      BY <2>1, <2>6, AdvanceKeeps DEF PInv
    <2> QED BY <1>2, <2>2, <2>3, <2>4, <2>5, <2>6 DEF Do
  <1> QED BY <1>1, <1>2 DEF Next

\* The ring of a pipe is a queue between its two positions, in every
\* interleaving of _pipe_is_closed, pipe_read and pipe_write.
THEOREM PInvHolds == Spec => []PInv
  <1>1. PInv /\ [Next]_vars => PInv'
    BY PipeNext, PipeSame
  <1> QED BY PipeInit, <1>1, PTL DEF Spec

\* The tables, the calls under way and the pipe keep their types; above all,
\* a descriptor that is duplicated or handed down is one of the table.
THEOREM PipeTypesHold == Spec => []TypeOK
  <1>1. PInv => TypeOK
    BY DEF PInv, IoOK, IoRec, MapsOK, PipeOK, TypeOK
  <1> QED BY PInvHolds, <1>1, PTL

\* pipe_read gets every byte that pipe_write wrote once and in order, for any
\* size of the buffer and any number of bytes.
THEOREM FifoHolds == Spec => []Fifo
  <1>1. PInv => Fifo
    BY DEF PInv, Ring, Fifo
  <1> QED BY PInvHolds, <1>1, PTL

\* The writer is at most a buffer ahead of the reader, the reader never ahead
\* of the writer.
Bounded == p_rpos <= p_wpos /\ p_wpos <= p_rpos + PIPE_SIZE

\* Bounded: neither side of pipe_read and pipe_write passes the other, although
\* each tests both positions some steps before it moves its own.
THEOREM BoundedHolds == Spec => []Bounded
  <1>1. PInv => Bounded
    BY DEF PInv, Ring, Bounded
  <1> QED BY PInvHolds, <1>1, PTL

-----------------------------------------------------------------------------
(* The end of a pipe: the calls that are left to a program. *)

\* The Fd pages of the pipe; the system calls that a library call leaves to be
\* made; every call that can be left.
Ends == {"rd", "wr"}
Sys == {"unmap_fd", "unmap_data", "map_fd", "map_data", "start"}
AllCalls ==
  Calls \union ({"unmap_fd", "unmap_data"} \X Fdnum)
  \union ({"map_fd", "map_data"} \X Fdnum \X Env \X Fdnum)
  \union ({"start"} \X Env) \union {<<"destroy">>}

\* The calls s that are left to e, and what e has mapped when it comes to each.
\* System calls come before the calls of the program, but for the close that
\* dup begins with; start, and the map_fd of dup, are the last of them.
NoSys(s) == \A n \in 1..Len(s) : s[n][1] \notin Sys
Order(s) ==
  \A m \in 1..Len(s) : s[m][1] \in Sys => \A n \in 1..m - 1 : s[n][1] \in Sys \union {"close"}
Final(e, s) ==
  \A n \in 1..Len(s) : s[n][1] = "start" \/ (s[n][1] = "map_fd" /\ s[n][3] = e) =>
    \A m \in n + 1..Len(s) : s[m][1] \notin Sys
\* pipe_close and dup: the Fd page goes before the pipe and comes after it.
Unmaps(e, s) ==
  \A n \in 1..Len(s) : s[n][1] = "unmap_data" =>
    IF n = 1 THEN fd[e][s[n][2]] = None ELSE s[n - 1] = <<"unmap_fd", s[n][2]>>
DupData(e, s) ==
  \A n \in 1..Len(s) : s[n][1] = "map_data" /\ s[n][3] = e =>
    IF n = 1 THEN fd[e][s[n][4]] = None
    ELSE s[n - 1] = <<"close", s[n][4]>> \/ s[n - 1] = <<"unmap_fd", s[n][4]>>
DupFd(e, s) ==
  \A n \in 1..Len(s) : s[n][1] = "map_fd" /\ s[n][3] = e =>
    \/ fd[e][s[n][2]] \notin Ends
    \/ IF n = 1 THEN data[e][s[n][4]] ELSE s[n - 1] = <<"map_data", s[n][2], e, s[n][4]>>
\* fork: the child waits, gets every page under the number its parent has it,
\* and the pipe after each Fd page of it.
Starts(e, s) ==
  \A n \in 1..Len(s) : s[n][1] = "start" =>
    /\ s[n][2] # e /\ status[s[n][2]] = "NOT_RUNNABLE"
    /\ \A m \in 1..n - 1 : s[m][1] \in {"map_fd", "map_data"} /\ s[m][3] = s[n][2]
Hands(e, s) ==
  \A n \in 1..Len(s) : s[n][1] \in {"map_fd", "map_data"} /\ s[n][3] # e =>
    /\ s[n][4] = s[n][2]
    /\ \E m \in n + 1..Len(s) : s[m] = <<"start", s[n][3]>>
    /\ s[n][1] = "map_data" => data[e][s[n][2]]
    /\ s[n][1] = "map_fd" /\ fd[e][s[n][2]] \in Ends =>
         \E m \in n + 1..Len(s) : s[m] = <<"map_data", s[n][2], s[n][3], s[n][2]>>
WfSeq(e, s) ==
  /\ Order(s) /\ Final(e, s) /\ Unmaps(e, s) /\ DupData(e, s) /\ DupFd(e, s)
  /\ Starts(e, s) /\ Hands(e, s)

\* Who does not run has only calls of its program left, and who is in a call
\* runs and has an end of the pipe.
CodeTyped == code \in [Env -> Seq(AllCalls)]
CodeWf == \A e \in Env : WfSeq(e, code[e])
Still == \A e \in Env : status[e] # "RUNNABLE" => NoSys(code[e])
InCallRuns == \A e \in Env : io[e].ph # "idle" => status[e] = "RUNNABLE" /\ Page(e) \in Ends
\* A child is started by one parent.
OneParent ==
  \A e, f \in Env : \A m \in 1..Len(code[e]) : \A n \in 1..Len(code[f]) :
    code[e][m][1] = "start" /\ code[f][n] = code[e][m] => e = f
\* An Fd page of the pipe comes with the pipe, except in a child to whom the
\* parent that gave it has still to give the pipe.
Backed ==
  \A c \in Env : \A i \in Fdnum : fd[c][i] \in Ends /\ ~data[c][i] =>
    \E e \in Env : e # c /\ fd[e][i] = fd[c][i] /\ data[e][i]
      /\ \E n \in 1..Len(code[e]) : code[e][n] = <<"map_data", i, c, i>>
\* One pipe is made, and before that there are no pages of it.
OnePipe ==
  /\ \A e, f \in Env : Uses(code[e], "pipe") /\ Uses(code[f], "pipe") => e = f
  /\ \A e \in Env : \A m, n \in 1..Len(code[e]) :
       code[e][m][1] = "pipe" /\ code[e][n][1] = "pipe" => m = n
  /\ \A e \in Env : Uses(code[e], "pipe") => \A c \in Env : \A i \in Fdnum : fd[c][i] \notin Ends
\* A first count that nobody has disturbed is still the count.
Counted ==
  \A e \in Env : io[e].ph = "pipe_ref" /\ io[e].same => io[e].fd_ref = FdRef(Page(e))
\* The inductive invariant behind NoFalseEof.
EInv ==
  /\ CodeTyped /\ CodeWf /\ Still /\ InCallRuns /\ OneParent
  /\ Backed /\ OnePipe /\ Counted /\ NoFalseEof

-----------------------------------------------------------------------------
(* Sequences of calls. *)

LEMMA ConcatAt ==
  ASSUME NEW a \in Seq(AllCalls), NEW b \in Seq(AllCalls)
  PROVE  /\ a \o b \in Seq(AllCalls) /\ Len(a \o b) = Len(a) + Len(b)
         /\ Len(a) \in Nat /\ Len(b) \in Nat
         /\ \A n \in 1..Len(a) : (a \o b)[n] = a[n]
         /\ \A n \in Len(a) + 1..Len(a) + Len(b) : (a \o b)[n] = b[n - Len(a)]
  <1> HIDE DEF AllCalls
  <1> QED OBVIOUS

LEMMA TailAt ==
  ASSUME NEW s \in Seq(AllCalls), s # <<>>
  PROVE  /\ Tail(s) \in Seq(AllCalls) /\ Len(s) \in Nat \ {0} /\ Len(Tail(s)) = Len(s) - 1
         /\ \A n \in 1..Len(s) - 1 : Tail(s)[n] = s[n + 1]
         /\ Head(s) = s[1]
  <1> HIDE DEF AllCalls
  <1> QED OBVIOUS

\* What is left after the first call, or with calls in its place.
Rest(s, t) == t = Tail(s)
Instead(s, a, t) == t = a \o Tail(s)

LEMMA RestAt ==
  ASSUME NEW s \in Seq(AllCalls), s # <<>>, NEW t, Rest(s, t)
  PROVE  /\ t \in Seq(AllCalls) /\ Len(s) \in Nat \ {0} /\ Len(t) = Len(s) - 1
         /\ \A n \in 1..Len(t) : n + 1 \in 1..Len(s) /\ t[n] = s[n + 1]
  BY TailAt DEF Rest

LEMMA InsteadAt ==
  ASSUME NEW s \in Seq(AllCalls), s # <<>>, NEW a \in Seq(AllCalls), NEW t, Instead(s, a, t)
  PROVE  /\ t \in Seq(AllCalls) /\ Len(s) \in Nat \ {0} /\ Len(a) \in Nat /\ Len(t) = Len(a) + (Len(s) - 1)
         /\ \A n \in 1..Len(a) : n \in 1..Len(t) /\ t[n] = a[n]
         /\ \A n \in Len(a) + 1..Len(t) : (n - Len(a)) + 1 \in 2..Len(s) /\ t[n] = s[(n - Len(a)) + 1]
  <1>1. Tail(s) \in Seq(AllCalls) /\ Len(s) \in Nat \ {0} /\ Len(Tail(s)) = Len(s) - 1
        /\ \A n \in 1..Len(s) - 1 : Tail(s)[n] = s[n + 1]
    BY TailAt
  <1> DEFINE r == Tail(s)
  <1> HIDE DEF r
  <1>2. r \in Seq(AllCalls) /\ Len(r) = Len(s) - 1 /\ \A n \in 1..Len(s) - 1 : r[n] = s[n + 1]
    BY <1>1 DEF r
  <1>3. t = a \o r
    BY DEF Instead, r
  <1>4. /\ t \in Seq(AllCalls) /\ Len(t) = Len(a) + Len(r) /\ Len(a) \in Nat
        /\ \A n \in 1..Len(a) : t[n] = a[n]
        /\ \A n \in Len(a) + 1..Len(a) + Len(r) : t[n] = r[n - Len(a)]
    BY <1>2, <1>3, ConcatAt
  <1>5. ASSUME NEW n \in Len(a) + 1..Len(t)
        PROVE  (n - Len(a)) + 1 \in 2..Len(s) /\ t[n] = s[(n - Len(a)) + 1]
    <2>1. n \in Len(a) + 1..Len(a) + Len(r) /\ n - Len(a) \in 1..Len(s) - 1 /\ (n - Len(a)) + 1 \in 2..Len(s)
      BY <1>1, <1>2, <1>4
    <2>2. t[n] = r[n - Len(a)] /\ r[n - Len(a)] = s[(n - Len(a)) + 1]
      BY <1>2, <1>4, <2>1
    <2> QED BY <2>1, <2>2
  <1>6. Len(t) = Len(a) + (Len(s) - 1) /\ \A n \in 1..Len(a) : n \in 1..Len(t)
    BY <1>1, <1>2, <1>4
  <1> QED BY <1>1, <1>4, <1>5, <1>6

LEMMA CallShapes ==
  ASSUME NEW x \in AllCalls
  PROVE  /\ x[1] \in {"unmap_fd", "unmap_data", "close", "is_closed"} => x[2] \in Fdnum /\ x = <<x[1], x[2]>>
         /\ x[1] \in {"read", "write"} => x[2] \in Fdnum
         /\ x[1] \in {"map_fd", "map_data"} =>
              x[2] \in Fdnum /\ x[3] \in Env /\ x[4] \in Fdnum /\ x = <<x[1], x[2], x[3], x[4]>>
         /\ x[1] \in {"dup", "dup_while"} => x[2] \in Fdnum /\ x[3] \in Fdnum
         /\ x[1] \in {"start", "fork", "spawn", "wait"} => x[2] \in Env /\ x = <<x[1], x[2]>>
         /\ x[1] \in Sys \union {"close", "dup", "dup_while", "pipe", "fork", "spawn", "wait", "exit",
                                 "destroy", "block", "read", "write", "is_closed"}
  BY DEF AllCalls, Calls, Sys

LEMMA NoSysWf ==
  ASSUME NEW e, NEW s, NoSys(s)
  PROVE  WfSeq(e, s)
  BY DEF NoSys, WfSeq, Order, Final, Unmaps, DupData, DupFd, Starts, Hands, Sys

\* Before a call of the program other than close, no system call is left.
LEMMA HeadPlain ==
  ASSUME NEW e, NEW s \in Seq(AllCalls), s # <<>>, WfSeq(e, s), s[1][1] \notin Sys \union {"close"}
  PROVE  NoSys(s)
  <1>1. Len(s) \in Nat \ {0}
    BY TailAt
  <1>2. \A m \in 1..Len(s) : s[m][1] \in Sys => m = 1 \/ 1 \in 1..m - 1
    BY <1>1
  <1> QED BY <1>1, <1>2 DEF WfSeq, Order, NoSys

\* A program that hands down to c does nothing else before it starts c.
LEMMA Handing ==
  ASSUME NEW e, NEW s \in Seq(AllCalls), WfSeq(e, s), NEW n \in 1..Len(s),
         s[n][1] \in {"map_fd", "map_data"}, s[n][3] # e
  PROVE  s # <<>> /\ s[1][1] \in {"map_fd", "map_data"} /\ s[1][3] = s[n][3]
  <1>1. PICK m \in n + 1..Len(s) : s[m] = <<"start", s[n][3]>>
    BY DEF WfSeq, Hands
  <1>2. Len(s) \in Nat /\ m \in 1..Len(s) /\ 1 \in 1..m - 1 /\ s # <<>>
    BY <1>1
  <1>3. s[m][1] = "start" /\ s[m][2] = s[n][3]
    BY <1>1
  <1> QED BY <1>2, <1>3 DEF WfSeq, Starts

\* The first call is made: what is left is in order for what has changed.
LEMMA TailWf ==
  ASSUME NEW e \in Env, NEW s \in Seq(AllCalls), s # <<>>, WfSeq(e, s),
         NEW t, Rest(s, t), None \notin Ends,
         s[1][1] = "map_fd" => s[1][3] # e,
         \A i \in Fdnum : fd'[e][i] = fd[e][i] \/ fd'[e][i] = None,
         s[1][1] \in {"close", "unmap_fd"} => fd'[e][s[1][2]] = None,
         s[1][1] = "map_data" /\ s[1][3] = e => (fd[e][s[1][2]] \in Ends => data'[e][s[1][4]]),
         s[1][1] \in {"map_fd", "map_data"} /\ s[1][3] # e => fd'[e] = fd[e] /\ data'[e] = data[e],
         \A n \in 1..Len(s) : s[n][1] = "start" => status'[s[n][2]] = status[s[n][2]]
  PROVE  WfSeq(e, t)'
  <1>1. Len(s) \in Nat \ {0} /\ Len(t) = Len(s) - 1 /\ \A n \in 1..Len(t) : n + 1 \in 1..Len(s) /\ t[n] = s[n + 1]
    BY RestAt
  <1>2. \A n \in 2..Len(s) : n - 1 \in 1..Len(t) /\ t[n - 1] = s[n]
    BY <1>1
  <1>3. Order(t)
    <2> SUFFICES ASSUME NEW m \in 1..Len(t), t[m][1] \in Sys, NEW n \in 1..m - 1
                 PROVE  t[n][1] \in Sys \union {"close"}
      BY DEF Order
    <2>1. m + 1 \in 1..Len(s) /\ t[m] = s[m + 1] /\ n + 1 \in 1..(m + 1) - 1 /\ n \in 1..Len(t) /\ t[n] = s[n + 1]
      BY <1>1
    <2> QED BY <2>1 DEF WfSeq, Order
  <1>4. Final(e, t)
    <2> SUFFICES ASSUME NEW n \in 1..Len(t), t[n][1] = "start" \/ (t[n][1] = "map_fd" /\ t[n][3] = e),
                        NEW m \in n + 1..Len(t)
                 PROVE  t[m][1] \notin Sys
      BY DEF Final
    <2>1. n + 1 \in 1..Len(s) /\ t[n] = s[n + 1] /\ m + 1 \in (n + 1) + 1..Len(s) /\ m \in 1..Len(t) /\ t[m] = s[m + 1]
      BY <1>1
    <2> QED BY <2>1 DEF WfSeq, Final
  <1>5. \A n \in 1..Len(t) : t[n] \in AllCalls /\ s[n] \in AllCalls /\ s[n + 1] = t[n]
    <2>1. t \in Seq(AllCalls)
      BY RestAt
    <2> HIDE DEF AllCalls
    <2> QED BY <1>1, <2>1
  <1>6. Unmaps(e, t)'
    <2> SUFFICES ASSUME NEW n \in 1..Len(t), t[n][1] = "unmap_data"
                 PROVE  IF n = 1 THEN fd'[e][t[n][2]] = None ELSE t[n - 1] = <<"unmap_fd", t[n][2]>>
      BY DEF Unmaps
    <2>1. n + 1 \in 1..Len(s) /\ n + 1 # 1 /\ (n + 1) - 1 = n /\ t[n] = s[n + 1]
      BY <1>1
    <2>2. s[n] = <<"unmap_fd", t[n][2]>>
      BY <2>1 DEF WfSeq, Unmaps
    <2>3. CASE n = 1
      BY <2>2, <2>3
    <2>4. CASE n # 1
      <3>1. n - 1 \in 1..Len(t) /\ (n - 1) + 1 = n
        BY <1>1, <2>4
      <3> QED BY <1>1, <2>2, <2>4, <3>1
    <2> QED BY <2>3, <2>4
  <1>7. DupData(e, t)'
    <2> SUFFICES ASSUME NEW n \in 1..Len(t), t[n][1] = "map_data", t[n][3] = e
                 PROVE  IF n = 1 THEN fd'[e][t[n][4]] = None
                        ELSE t[n - 1] = <<"close", t[n][4]>> \/ t[n - 1] = <<"unmap_fd", t[n][4]>>
      BY DEF DupData
    <2>1. n + 1 \in 1..Len(s) /\ n + 1 # 1 /\ (n + 1) - 1 = n /\ t[n] = s[n + 1]
      BY <1>1
    <2>2. s[n] = <<"close", t[n][4]>> \/ s[n] = <<"unmap_fd", t[n][4]>>
      BY <2>1 DEF WfSeq, DupData
    <2>3. CASE n = 1
      BY <2>2, <2>3
    <2>4. CASE n # 1
      <3>1. n - 1 \in 1..Len(t) /\ (n - 1) + 1 = n
        BY <1>1, <2>4
      <3> QED BY <1>1, <2>2, <2>4, <3>1
    <2> QED BY <2>3, <2>4
  <1>8. DupFd(e, t)'
    <2> SUFFICES ASSUME NEW n \in 1..Len(t), t[n][1] = "map_fd", t[n][3] = e
                 PROVE  \/ fd'[e][t[n][2]] \notin Ends
                        \/ IF n = 1 THEN data'[e][t[n][4]]
                           ELSE t[n - 1] = <<"map_data", t[n][2], e, t[n][4]>>
      BY DEF DupFd
    <2>1. n + 1 \in 1..Len(s) /\ n + 1 # 1 /\ (n + 1) - 1 = n /\ t[n] = s[n + 1]
      BY <1>1
    <2>2. fd[e][t[n][2]] \notin Ends \/ s[n] = <<"map_data", t[n][2], e, t[n][4]>>
      BY <2>1 DEF WfSeq, DupFd
    <2>3. t[n][2] \in Fdnum
      BY <1>5, CallShapes
    <2>4. CASE fd[e][t[n][2]] \notin Ends
      BY <2>3, <2>4
    <2>5. CASE fd[e][t[n][2]] \in Ends /\ n = 1
      BY <2>2, <2>5
    <2>6. CASE fd[e][t[n][2]] \in Ends /\ n # 1
      <3>1. n - 1 \in 1..Len(t) /\ (n - 1) + 1 = n
        BY <1>1, <2>6
      <3> QED BY <1>1, <2>2, <2>6, <3>1
    <2> QED BY <2>4, <2>5, <2>6
  <1>9. Starts(e, t)'
    <2> SUFFICES ASSUME NEW n \in 1..Len(t), t[n][1] = "start"
                 PROVE  /\ t[n][2] # e /\ status'[t[n][2]] = "NOT_RUNNABLE"
                        /\ \A m \in 1..n - 1 : t[m][1] \in {"map_fd", "map_data"} /\ t[m][3] = t[n][2]
      BY DEF Starts
    <2>1. n + 1 \in 1..Len(s) /\ t[n] = s[n + 1]
      BY <1>1
    <2>2. t[n][2] # e /\ status[t[n][2]] = "NOT_RUNNABLE"
          /\ \A m \in 1..(n + 1) - 1 : s[m][1] \in {"map_fd", "map_data"} /\ s[m][3] = t[n][2]
      BY <2>1 DEF WfSeq, Starts
    <2>3. status'[t[n][2]] = status[t[n][2]]
      BY <2>1
    <2>4. \A m \in 1..n - 1 : m + 1 \in 1..(n + 1) - 1 /\ t[m] = s[m + 1]
      BY <1>1
    <2> QED BY <2>2, <2>3, <2>4
  <1>10. Hands(e, t)'
    <2> SUFFICES ASSUME NEW n \in 1..Len(t), t[n][1] \in {"map_fd", "map_data"}, t[n][3] # e
                 PROVE  /\ t[n][4] = t[n][2]
                        /\ \E m \in n + 1..Len(t) : t[m] = <<"start", t[n][3]>>
                        /\ t[n][1] = "map_data" => data'[e][t[n][2]]
                        /\ t[n][1] = "map_fd" /\ fd'[e][t[n][2]] \in Ends =>
                             \E m \in n + 1..Len(t) : t[m] = <<"map_data", t[n][2], t[n][3], t[n][2]>>
      BY DEF Hands
    <2>1. n + 1 \in 1..Len(s) /\ t[n] = s[n + 1]
      BY <1>1
    <2>2. s[1][1] \in {"map_fd", "map_data"} /\ s[1][3] # e
      BY <2>1, Handing
    <2>3. fd'[e] = fd[e] /\ data'[e] = data[e]
      BY <2>2
    <2>4. \A m \in (n + 1) + 1..Len(s) : m - 1 \in n + 1..Len(t) /\ t[m - 1] = s[m]
      BY <1>1, <1>2
    <2>5. /\ t[n][4] = t[n][2]
          /\ \E m \in (n + 1) + 1..Len(s) : s[m] = <<"start", t[n][3]>>
          /\ t[n][1] = "map_data" => data[e][t[n][2]]
          /\ t[n][1] = "map_fd" /\ fd[e][t[n][2]] \in Ends =>
               \E m \in (n + 1) + 1..Len(s) : s[m] = <<"map_data", t[n][2], t[n][3], t[n][2]>>
      <3>1. Hands(e, s)
        BY DEF WfSeq
      <3>2. PICK q : q = n + 1
        OBVIOUS
      <3>3. q \in 1..Len(s) /\ s[q] = t[n] /\ s[q][1] \in {"map_fd", "map_data"} /\ s[q][3] # e
        BY <2>1, <3>2
      <3>4. /\ s[q][4] = s[q][2]
            /\ \E m \in q + 1..Len(s) : s[m] = <<"start", s[q][3]>>
            /\ s[q][1] = "map_data" => data[e][s[q][2]]
            /\ s[q][1] = "map_fd" /\ fd[e][s[q][2]] \in Ends =>
                 \E m \in q + 1..Len(s) : s[m] = <<"map_data", s[q][2], s[q][3], s[q][2]>>
        BY <3>1, <3>3, Zenon DEF Hands
      <3>5. t[n][1] = "map_data" => data[e][t[n][2]]
        <4>1. s[q][1] = "map_data" => data[e][s[q][2]]
          BY <3>4
        <4>2. s[q] = t[n]
          BY <3>3
        <4> QED BY <4>1, <4>2, Zenon
      <3>6. t[n][4] = t[n][2] /\ \E m \in (n + 1) + 1..Len(s) : s[m] = <<"start", t[n][3]>>
        BY <3>2, <3>3, <3>4
      <3>7. t[n][1] = "map_fd" /\ fd[e][t[n][2]] \in Ends =>
               \E m \in (n + 1) + 1..Len(s) : s[m] = <<"map_data", t[n][2], t[n][3], t[n][2]>>
        BY <3>2, <3>3, <3>4
      <3> QED BY <3>5, <3>6, <3>7
    <2>6. t[n][1] = "map_data" => data'[e][t[n][2]]
      BY <2>3, <2>5, Zenon
    <2>7. \E m \in n + 1..Len(t) : t[m] = <<"start", t[n][3]>>
      <3>1. PICK m \in (n + 1) + 1..Len(s) : s[m] = <<"start", t[n][3]>>
        BY <2>5
      <3> QED BY <2>4, <3>1
    <2>8. ASSUME t[n][1] = "map_fd", fd'[e][t[n][2]] \in Ends
          PROVE  \E m \in n + 1..Len(t) : t[m] = <<"map_data", t[n][2], t[n][3], t[n][2]>>
      <3>1. fd[e][t[n][2]] \in Ends
        BY <2>3, <2>8
      <3>2. PICK m \in (n + 1) + 1..Len(s) : s[m] = <<"map_data", t[n][2], t[n][3], t[n][2]>>
        BY <2>5, <2>8, <3>1
      <3> QED BY <2>4, <3>2
    <2> QED BY <2>5, <2>6, <2>7, <2>8
  <1> QED BY <1>3, <1>4, <1>6, <1>7, <1>8, <1>9, <1>10 DEF WfSeq, Order, Final

\* close of a descriptor that is open.
LEMMA CloseWf ==
  ASSUME NEW e \in Env, NEW s \in Seq(AllCalls), s # <<>>, WfSeq(e, s), s[1][1] = "close",
         NEW k, NEW t, Instead(s, CloseCalls(k, s[1][2]), t)
  PROVE  WfSeq(e, t) /\ t \in Seq(AllCalls)
  <1> DEFINE i == s[1][2]
             a == CloseCalls(k, i)
             L == Len(a)
  <1>0. Len(s) \in Nat \ {0} /\ s[1] = <<"close", i>> /\ i \in Fdnum
    <2>1. s[1] \in AllCalls
      <3> HIDE DEF AllCalls
      <3> QED OBVIOUS
    <2> QED BY <2>1, TailAt, CallShapes
  <1>1. a \in Seq(AllCalls) /\ L \in {1, 3} /\ a[L] = <<"unmap_fd", i>> /\ a[1] = <<"unmap_fd", i>>
        /\ (L = 3 => a[2] = <<"unmap_data", i>>)
    <2>1. <<"unmap_fd", i>> \in AllCalls /\ <<"unmap_data", i>> \in AllCalls
      BY <1>0 DEF AllCalls
    <2> HIDE DEF AllCalls, i
    <2> QED BY <2>1 DEF CloseCalls
  <1> HIDE DEF i, a
  <1>2. /\ t \in Seq(AllCalls) /\ Len(t) = L + (Len(s) - 1)
        /\ \A n \in 1..L : t[n] = a[n]
        /\ \A n \in L + 1..Len(t) : (n - L) + 1 \in 2..Len(s) /\ t[n] = s[(n - L) + 1]
    <2>1. Instead(s, a, t)
      BY DEF a, i
    <2> QED BY <1>1, <2>1, InsteadAt
  <1>21. L \in Nat /\ Len(t) \in Nat
    BY <1>0, <1>1, <1>2
  <1> HIDE DEF L
  <1>22. t[1] = <<"unmap_fd", i>> /\ t[L] = <<"unmap_fd", i>> /\ (L = 3 => t[2] = <<"unmap_data", i>>)
    BY <1>1, <1>2, <1>21
  <1>3. \A n \in 1..L : t[n][1] \in {"unmap_fd", "unmap_data"}
    <2> TAKE n \in 1..L
    <2>1. n = 1 \/ n = L \/ (n = 2 /\ L = 3)
      BY <1>1, <1>21
    <2> QED BY <1>22, <2>1
  \* Nothing is being handed down.
  <1>4. \A n \in 1..Len(s) : s[n][1] # "start" /\ (s[n][1] \in {"map_fd", "map_data"} => s[n][3] = e)
    <2>1. \A n \in 1..Len(s) : s[n][1] \in {"map_fd", "map_data"} => s[n][3] = e
      <3>1. s[1][1] \notin {"map_fd", "map_data"}
        BY <1>0
      <3> QED BY <3>1, Handing
    <2>2. ASSUME NEW n \in 1..Len(s), s[n][1] = "start" PROVE FALSE
      <3>1. n # 1 /\ 1 \in 1..n - 1
        BY <1>0, <2>2
      <3> QED BY <1>0, <2>2, <3>1 DEF WfSeq, Starts
    <2> QED BY <2>1, <2>2
  <1>5. Order(t)
    <2> SUFFICES ASSUME NEW m \in 1..Len(t), t[m][1] \in Sys, NEW n \in 1..m - 1
                 PROVE  t[n][1] \in Sys \union {"close"}
      BY DEF Order
    <2>1. CASE n <= L
      BY <1>3, <1>21, <2>1 DEF Sys
    <2>2. CASE n > L
      <3>1. (m - L) + 1 \in 1..Len(s) /\ t[m] = s[(m - L) + 1] /\ t[n] = s[(n - L) + 1]
            /\ (n - L) + 1 \in 1..((m - L) + 1) - 1
        BY <1>0, <1>2, <1>21, <2>2
      <3> QED BY <3>1 DEF WfSeq, Order
    <2> QED BY <1>21, <2>1, <2>2
  <1>6. Final(e, t)
    <2> SUFFICES ASSUME NEW n \in 1..Len(t), t[n][1] = "start" \/ (t[n][1] = "map_fd" /\ t[n][3] = e),
                        NEW m \in n + 1..Len(t)
                 PROVE  t[m][1] \notin Sys
      BY DEF Final
    <2>1. n > L
      BY <1>3, <1>21
    <2>2. (n - L) + 1 \in 1..Len(s) /\ t[n] = s[(n - L) + 1] /\ t[m] = s[(m - L) + 1]
          /\ (m - L) + 1 \in ((n - L) + 1) + 1..Len(s)
      BY <1>0, <1>2, <1>21, <2>1
    <2> QED BY <2>2 DEF WfSeq, Final
  \* The call before one that was there already.
  <1>7. ASSUME NEW n \in L + 1..Len(t)
        PROVE  \E q \in 1..Len(s) :
                 /\ n # 1 /\ q # 1 /\ t[n] = s[q]
                 /\ \/ s[q - 1] = <<"close", i>> /\ t[n - 1] = <<"unmap_fd", i>>
                    \/ t[n - 1] = s[q - 1]
    <2>0. (n - L) + 1 \in 2..Len(s) /\ t[n] = s[(n - L) + 1]
      BY <1>2
    <2>1. (n - L) + 1 \in 1..Len(s) /\ (n - L) + 1 # 1 /\ n # 1 /\ t[n] = s[(n - L) + 1]
      <3>1. L >= 1
        BY <1>1
      <3>2. n # 1
        BY <1>21, <3>1
      <3> QED BY <1>0, <2>0, <3>2
    <2>2. CASE n = L + 1
      <3>1. ((n - L) + 1) - 1 = 1 /\ n - 1 = L
        BY <1>21, <2>2
      <3> QED BY <1>0, <1>22, <2>1, <3>1
    <2>3. CASE n # L + 1
      <3>1. n - 1 \in L + 1..Len(t) /\ ((n - 1) - L) + 1 = ((n - L) + 1) - 1
        BY <1>21, <2>3
      <3> QED BY <1>2, <2>1, <3>1
    <2> QED BY <2>2, <2>3
  <1>8. Unmaps(e, t)
    <2> SUFFICES ASSUME NEW n \in 1..Len(t), t[n][1] = "unmap_data"
                 PROVE  n # 1 /\ t[n - 1] = <<"unmap_fd", t[n][2]>>
      BY DEF Unmaps
    <2>1. CASE n <= L
      <3>1. n = 1 \/ n = L \/ (n = 2 /\ L = 3)
        BY <1>1, <1>21, <2>1
      <3>2. n = 2 /\ L = 3
        BY <1>22, <3>1
      <3>3. n # 1 /\ n - 1 = 1
        BY <3>2
      <3> QED BY <1>22, <3>2, <3>3
    <2>2. CASE n > L
      <3>1. n \in L + 1..Len(t)
        BY <1>21, <2>2
      <3>2. PICK q \in 1..Len(s) :
              /\ n # 1 /\ q # 1 /\ t[n] = s[q]
              /\ \/ s[q - 1] = <<"close", i>> /\ t[n - 1] = <<"unmap_fd", i>>
                 \/ t[n - 1] = s[q - 1]
        BY <1>7, <3>1
      <3>3. s[q - 1] = <<"unmap_fd", t[n][2]>>
        BY <3>2 DEF WfSeq, Unmaps
      <3> QED BY <3>2, <3>3
    <2> QED BY <1>21, <2>1, <2>2
  <1>9. DupData(e, t)
    <2> SUFFICES ASSUME NEW n \in 1..Len(t), t[n][1] = "map_data", t[n][3] = e
                 PROVE  n # 1 /\ (t[n - 1] = <<"close", t[n][4]>> \/ t[n - 1] = <<"unmap_fd", t[n][4]>>)
      BY DEF DupData
    <2>1. n \in L + 1..Len(t)
      BY <1>3, <1>21
    <2>2. PICK q \in 1..Len(s) :
            /\ n # 1 /\ q # 1 /\ t[n] = s[q]
            /\ \/ s[q - 1] = <<"close", i>> /\ t[n - 1] = <<"unmap_fd", i>>
               \/ t[n - 1] = s[q - 1]
      BY <1>7, <2>1
    <2>3. s[q - 1] = <<"close", t[n][4]>> \/ s[q - 1] = <<"unmap_fd", t[n][4]>>
      BY <2>2 DEF WfSeq, DupData
    <2> QED BY <2>2, <2>3
  <1>10. DupFd(e, t)
    <2> SUFFICES ASSUME NEW n \in 1..Len(t), t[n][1] = "map_fd", t[n][3] = e
                 PROVE  n # 1 /\ (fd[e][t[n][2]] \notin Ends \/ t[n - 1] = <<"map_data", t[n][2], e, t[n][4]>>)
      BY DEF DupFd
    <2>1. n \in L + 1..Len(t)
      BY <1>3, <1>21
    <2>2. PICK q \in 1..Len(s) :
            /\ n # 1 /\ q # 1 /\ t[n] = s[q]
            /\ \/ s[q - 1] = <<"close", i>> /\ t[n - 1] = <<"unmap_fd", i>>
               \/ t[n - 1] = s[q - 1]
      BY <1>7, <2>1
    <2>3. fd[e][t[n][2]] \notin Ends \/ s[q - 1] = <<"map_data", t[n][2], e, t[n][4]>>
      BY <2>2 DEF WfSeq, DupFd
    <2> QED BY <2>2, <2>3
  <1>11. \A n \in 1..Len(t) : t[n][1] # "start" /\ (t[n][1] \in {"map_fd", "map_data"} => t[n][3] = e)
    <2> TAKE n \in 1..Len(t)
    <2>1. CASE n \in 1..L
      BY <1>3, <2>1
    <2>2. CASE n \in L + 1..Len(t)
      <3>1. PICK q \in 1..Len(s) : t[n] = s[q]
        BY <1>7, <2>2
      <3> QED BY <1>4, <3>1
    <2> QED BY <1>21, <2>1, <2>2
  <1> QED BY <1>2, <1>5, <1>6, <1>8, <1>9, <1>10, <1>11 DEF WfSeq, Starts, Hands

\* dup of a descriptor that is open, when the pipe is mapped wherever one of
\* its Fd pages is.
LEMMA DupWf ==
  ASSUME NEW e \in Env, NEW s \in Seq(AllCalls), s # <<>>, NoSys(s),
         NEW o \in Fdnum, NEW i \in Fdnum, fd[e][o] \in Ends => data[e][o],
         NEW t, Instead(s, <<<<"close", i>>>> \o DupCalls(e, o, i), t)
  PROVE  WfSeq(e, t) /\ t \in Seq(AllCalls)
  <1> DEFINE c == <<"close", i>>
             x == <<"map_data", o, e, i>>
             y == <<"map_fd", o, e, i>>
  <1>1. c \in AllCalls /\ x \in AllCalls /\ y \in AllCalls
    BY DEF AllCalls, Calls
  <1>2. c[1] = "close" /\ x[1] = "map_data" /\ x[3] = e /\ x[4] = i
        /\ y[1] = "map_fd" /\ y[3] = e /\ y[2] = o /\ y[4] = i
    OBVIOUS
  <1> HIDE DEF c, x, y
  <1>3. PICK a : a = <<c>> \o DupCalls(e, o, i) /\ Instead(s, a, t)
    BY DEF c
  <1>30. <<c>> \in Seq(AllCalls) /\ <<x>> \in Seq(AllCalls) /\ <<y>> \in Seq(AllCalls) /\ <<>> \in Seq(AllCalls)
         /\ Len(<<c>>) = 1 /\ Len(<<x>>) = 1 /\ Len(<<y>>) = 1 /\ Len(<<>>) = 0
         /\ <<c>>[1] = c /\ <<x>>[1] = x /\ <<y>>[1] = y
    <2> HIDE DEF AllCalls
    <2> QED BY <1>1
  <1>4. CASE data[e][o]
    <2>1. a \in Seq(AllCalls) /\ Len(a) = 3 /\ a[1] = c /\ a[2] = x /\ a[3] = y
      <3>1. DupCalls(e, o, i) = <<x>> \o <<y>>
        BY <1>4, Zenon DEF DupCalls, x, y
      <3>2. PICK b : b = <<x>> \o <<y>>
        OBVIOUS
      <3>3. b \in Seq(AllCalls) /\ Len(b) = 2 /\ b[1] = x /\ b[2] = y
        BY <1>30, <3>2, ConcatAt
      <3>4. a = <<c>> \o b
        BY <1>3, <3>1, <3>2
      <3>5. PICK d : d = <<c>>
        OBVIOUS
      <3>6. d \in Seq(AllCalls) /\ Len(d) = 1 /\ d[1] = c /\ a = d \o b
        BY <1>30, <3>4, <3>5
      <3>7. /\ a \in Seq(AllCalls) /\ Len(a) = Len(d) + Len(b)
            /\ \A n \in 1..Len(d) : a[n] = d[n]
            /\ \A n \in Len(d) + 1..Len(d) + Len(b) : a[n] = b[n - Len(d)]
        <4>1. d \in Seq(AllCalls) /\ b \in Seq(AllCalls)
          BY <3>3, <3>6
        <4>2. a = d \o b
          BY <3>6
        <4> QED BY ONLY <4>1, <4>2, ConcatAt, Zenon
      <3>8. 1 \in 1..1 /\ 2 \in 1 + 1..1 + Len(b) /\ Len(a) = 1 + Len(b) /\ 2 - 1 = 1
            /\ (Len(b) = 2 => 3 \in 1 + 1..1 + Len(b) /\ 3 - 1 = 2)
        BY <3>3, <3>6, <3>7
      <3> QED BY <3>3, <3>6, <3>7, <3>8
    <2>2. Instead(s, a, t)
      BY <1>3
    <2>3. /\ t \in Seq(AllCalls) /\ Len(s) \in Nat \ {0} /\ Len(t) = 3 + (Len(s) - 1)
          /\ \A n \in 1..3 : t[n] = a[n]
          /\ \A n \in 4..Len(t) : (n - 3) + 1 \in 2..Len(s) /\ t[n] = s[(n - 3) + 1]
      <3>1. /\ t \in Seq(AllCalls) /\ Len(s) \in Nat \ {0} /\ Len(t) = Len(a) + (Len(s) - 1)
            /\ \A n \in 1..Len(a) : n \in 1..Len(t) /\ t[n] = a[n]
            /\ \A n \in Len(a) + 1..Len(t) : (n - Len(a)) + 1 \in 2..Len(s) /\ t[n] = s[(n - Len(a)) + 1]
        <4>1. s \in Seq(AllCalls) /\ s # <<>> /\ a \in Seq(AllCalls) /\ Instead(s, a, t)
          BY <2>1, <2>2
        <4> QED BY <4>1, InsteadAt
      <3>2. Len(a) + 1 = 4
        BY <2>1
      <3> QED BY <2>1, <3>1, <3>2
    <2>4. t[1] = c /\ t[2] = x /\ t[3] = y
      BY <2>1, <2>3
    <2>5. \A n \in 1..Len(t) : n = 1 \/ n = 2 \/ n = 3 \/ (n \in 4..Len(t) /\ t[n][1] \notin Sys)
      BY <2>3 DEF NoSys
    <2>6. Order(t) /\ Final(e, t)
      <3>1. \A n \in 1..Len(t) : t[n][1] \in Sys => n \in {2, 3}
        BY <1>2, <2>4, <2>5 DEF Sys
      <3>2. Order(t)
        <4>1. \A m \in {2, 3} : \A n \in 1..m - 1 : n = 1 \/ n = 2
          OBVIOUS
        <4> QED BY <1>2, <2>4, <3>1, <4>1 DEF Order, Sys
      <3>3. Final(e, t)
        <4>1. ASSUME NEW n \in 1..Len(t), t[n][1] = "start" \/ (t[n][1] = "map_fd" /\ t[n][3] = e) PROVE n = 3
          BY <1>2, <2>4, <3>1, <4>1 DEF Sys
        <4>2. \A m \in 3 + 1..Len(t) : m \in 1..Len(t) /\ m \notin {2, 3}
          BY <2>3
        <4> QED BY <3>1, <4>1, <4>2 DEF Final
      <3> QED BY <3>2, <3>3
    <2>7. Unmaps(e, t) /\ Starts(e, t) /\ Hands(e, t)
      BY <1>2, <2>4, <2>5 DEF Unmaps, Starts, Hands, Sys
    <2>8. DupData(e, t) /\ DupFd(e, t)
      <3>1. \A n \in 1..Len(t) : t[n][1] = "map_data" => n = 2
        BY <1>2, <2>4, <2>5 DEF Sys
      <3>2. \A n \in 1..Len(t) : t[n][1] = "map_fd" => n = 3
        BY <1>2, <2>4, <2>5 DEF Sys
      <3>3. 2 - 1 = 1 /\ 3 - 1 = 2
        OBVIOUS
      <3>4. DupData(e, t)
        BY <1>2, <2>4, <3>1, <3>3 DEF DupData, c
      <3>5. DupFd(e, t)
        BY <1>2, <2>4, <3>2, <3>3 DEF DupFd, x
      <3> QED BY <3>4, <3>5
    <2> QED BY <2>3, <2>6, <2>7, <2>8 DEF WfSeq
  <1>5. CASE ~data[e][o]
    <2>1. a \in Seq(AllCalls) /\ Len(a) = 2 /\ a[1] = c /\ a[2] = y
      <3>1. DupCalls(e, o, i) = <<>> \o <<y>>
        BY <1>5, Zenon DEF DupCalls, y
      <3>2. PICK b : b = <<>> \o <<y>>
        OBVIOUS
      <3>3. b \in Seq(AllCalls) /\ Len(b) = 1 /\ b[1] = y
        BY <1>30, <3>2, ConcatAt
      <3>4. a = <<c>> \o b
        BY <1>3, <3>1, <3>2
      <3>5. PICK d : d = <<c>>
        OBVIOUS
      <3>6. d \in Seq(AllCalls) /\ Len(d) = 1 /\ d[1] = c /\ a = d \o b
        BY <1>30, <3>4, <3>5
      <3>7. /\ a \in Seq(AllCalls) /\ Len(a) = Len(d) + Len(b)
            /\ \A n \in 1..Len(d) : a[n] = d[n]
            /\ \A n \in Len(d) + 1..Len(d) + Len(b) : a[n] = b[n - Len(d)]
        <4>1. d \in Seq(AllCalls) /\ b \in Seq(AllCalls)
          BY <3>3, <3>6
        <4>2. a = d \o b
          BY <3>6
        <4> QED BY ONLY <4>1, <4>2, ConcatAt, Zenon
      <3>8. 1 \in 1..1 /\ 2 \in 1 + 1..1 + Len(b) /\ Len(a) = 1 + Len(b) /\ 2 - 1 = 1
            /\ (Len(b) = 2 => 3 \in 1 + 1..1 + Len(b) /\ 3 - 1 = 2)
        BY <3>3, <3>6, <3>7
      <3> QED BY <3>3, <3>6, <3>7, <3>8
    <2>2. Instead(s, a, t)
      BY <1>3
    <2>3. /\ t \in Seq(AllCalls) /\ Len(s) \in Nat \ {0} /\ Len(t) = 2 + (Len(s) - 1)
          /\ \A n \in 1..2 : t[n] = a[n]
          /\ \A n \in 3..Len(t) : (n - 2) + 1 \in 2..Len(s) /\ t[n] = s[(n - 2) + 1]
      <3>1. /\ t \in Seq(AllCalls) /\ Len(s) \in Nat \ {0} /\ Len(t) = Len(a) + (Len(s) - 1)
            /\ \A n \in 1..Len(a) : n \in 1..Len(t) /\ t[n] = a[n]
            /\ \A n \in Len(a) + 1..Len(t) : (n - Len(a)) + 1 \in 2..Len(s) /\ t[n] = s[(n - Len(a)) + 1]
        <4>1. s \in Seq(AllCalls) /\ s # <<>> /\ a \in Seq(AllCalls) /\ Instead(s, a, t)
          BY <2>1, <2>2
        <4> QED BY <4>1, InsteadAt
      <3>2. Len(a) + 1 = 3
        BY <2>1
      <3> QED BY <2>1, <3>1, <3>2
    <2>4. t[1] = c /\ t[2] = y
      BY <2>1, <2>3
    <2>5. \A n \in 1..Len(t) : n = 1 \/ n = 2 \/ (n \in 3..Len(t) /\ t[n][1] \notin Sys)
      BY <2>3 DEF NoSys
    <2>6. \A n \in 1..Len(t) : t[n][1] \in Sys => n = 2
      BY <1>2, <2>4, <2>5 DEF Sys
    <2>7. Order(t)
      <3>1. \A n \in 1..2 - 1 : n = 1
        OBVIOUS
      <3> QED BY <1>2, <2>4, <2>6, <3>1 DEF Order
    <2>8. Final(e, t)
      <3>1. ASSUME NEW n \in 1..Len(t), t[n][1] = "start" \/ (t[n][1] = "map_fd" /\ t[n][3] = e) PROVE n = 2
        BY <1>2, <2>4, <2>6, <3>1 DEF Sys
      <3>2. \A m \in 2 + 1..Len(t) : m \in 1..Len(t) /\ m # 2
        BY <2>3
      <3> QED BY <2>6, <3>1, <3>2 DEF Final
    <2>9. Unmaps(e, t) /\ Starts(e, t) /\ Hands(e, t) /\ DupData(e, t)
      BY <1>2, <2>4, <2>6 DEF Unmaps, Starts, Hands, DupData, Sys
    <2>10. DupFd(e, t)
      <3>1. fd[e][o] \notin Ends
        BY <1>5
      <3>2. \A n \in 1..Len(t) : t[n][1] = "map_fd" => n = 2
        BY <1>2, <2>4, <2>6 DEF Sys
      <3> QED BY <1>2, <2>4, <3>1, <3>2 DEF DupFd
    <2> QED BY <2>3, <2>7, <2>8, <2>9, <2>10 DEF WfSeq
  <1> QED BY <1>4, <1>5

\* fork and spawn hand down every page that is open.
LEMMA InOrderAll ==
  ASSUME NEW S, S \subseteq Fdnum
  PROVE  /\ DOMAIN InOrder(S) = 1..Cardinality(S) /\ Cardinality(S) \in Nat
         /\ \A i \in S : \E n \in 1..Cardinality(S) : InOrder(S)[n] = i
  <1> DEFINE Below(b) == {j \in S : j < b}
  <1>0. MAXFD \in Nat /\ S \subseteq 0..MAXFD - 1 /\ \A j \in S : j \in Nat
    BY PipeSizes DEF Fdnum
  <1>1. IsFiniteSet(S) /\ Cardinality(S) \in Nat
    <2>1. IsFiniteSet(0..MAXFD - 1)
      BY <1>0, FS_Interval
    <2> QED BY <1>0, <2>1, FS_Subset, FS_CardinalityType
  <1>2. \A b : IsFiniteSet(Below(b)) /\ Cardinality(Below(b)) \in Nat
    <2>1. \A b : Below(b) \in SUBSET S
      OBVIOUS
    <2>2. \A b : IsFiniteSet(Below(b))
      BY <1>1, <2>1, FS_Subset
    <2> QED BY <2>2, FS_CardinalityType
  <1>3. ASSUME NEW i \in S, NEW T, IsFiniteSet(T), Below(i) \subseteq T, i \in T
        PROVE  Cardinality(Below(i)) + 1 <= Cardinality(T) /\ Cardinality(T) \in Nat
    <2> DEFINE B == Below(i)
    <2>1. IsFiniteSet(B) /\ i \notin B /\ B \union {i} \subseteq T
      BY <1>0, <1>2, <1>3
    <2> HIDE DEF B
    <2>2. Cardinality(B \union {i}) = Cardinality(B) + 1
      BY <2>1, FS_AddElement
    <2>3. Cardinality(B \union {i}) <= Cardinality(T)
      BY <1>3, <2>1, FS_Subset
    <2>4. Cardinality(B) + 1 <= Cardinality(T) /\ Cardinality(T) \in Nat
      BY <1>3, <2>2, <2>3, FS_CardinalityType
    <2> QED BY <2>4 DEF B
  <1>4. \A n \in 1..Cardinality(S) : InOrder(S)[n] = CHOOSE i \in S : Cardinality(Below(i)) = n - 1
    BY DEF InOrder
  <1>5. DOMAIN InOrder(S) = 1..Cardinality(S)
    BY DEF InOrder
  <1>6. ASSUME NEW i \in S
        PROVE  \E n \in 1..Cardinality(S) : InOrder(S)[n] = i
    <2>1. PICK n : n = Cardinality(Below(i)) + 1
      OBVIOUS
    <2>2. Cardinality(Below(i)) + 1 <= Cardinality(S)
      BY <1>1, <1>3
    <2>3. n \in 1..Cardinality(S) /\ Cardinality(Below(i)) = n - 1
      BY <1>1, <1>2, <2>1, <2>2
    <2>4. PICK j : j = InOrder(S)[n]
      OBVIOUS
    <2>5. j \in S /\ Cardinality(Below(j)) = n - 1
      <3> HIDE DEF Below
      <3> QED BY <1>4, <2>3, <2>4
    <2>6. ASSUME i < j PROVE FALSE
      <3>1. Below(i) \subseteq Below(j) /\ i \in Below(j)
        <4>1. i \in Nat /\ j \in Nat
          BY <1>0, <2>5
        <4>2. \A k \in Nat : k < i => k < j
          BY <4>1, <2>6
        <4>3. \A k \in S : k < i => k < j
          BY <1>0, <4>2
        <4> QED BY <2>5, <2>6, <4>3
      <3>2. Cardinality(Below(i)) + 1 <= Cardinality(Below(j))
        <4> HIDE DEF Below
        <4> QED BY <1>2, <1>3, <3>1
      <3> HIDE DEF Below
      <3> QED BY <1>2, <2>3, <2>5, <3>2
    <2>7. ASSUME j < i PROVE FALSE
      <3>1. Below(j) \subseteq Below(i) /\ j \in Below(i)
        <4>1. i \in Nat /\ j \in Nat
          BY <1>0, <2>5
        <4>2. \A k \in Nat : k < j => k < i
          BY <4>1, <2>7
        <4>3. \A k \in S : k < j => k < i
          BY <1>0, <4>2
        <4> QED BY <2>5, <2>7, <4>3
      <3>2. Cardinality(Below(j)) + 1 <= Cardinality(Below(i))
        <4> HIDE DEF Below
        <4> QED BY <1>2, <1>3, <2>5, <3>1
      <3> HIDE DEF Below
      <3> QED BY <1>2, <2>3, <2>5, <3>2
    <2>8. i = j
      BY <1>0, <2>5, <2>6, <2>7
    <2> QED BY <2>3, <2>4, <2>8
  <1> QED BY <1>1, <1>5, <1>6

\* The calls fork makes for the child c: a map_fd for each Fd page, a map_data
\* for each data page, and start.
HandsDown(e, c, a) == a = Shared(e, c) \o <<<<"start", c>>>>
HandsAll(e, c, a) ==
  /\ a \in Seq(AllCalls) /\ Len(a) \in Nat \ {0} /\ a[Len(a)] = <<"start", c>>
  /\ \A n \in 1..Len(a) - 1 : \E i \in Fdnum :
    a[n] = <<"map_fd", i, c, i>> \/ (a[n] = <<"map_data", i, c, i>> /\ data[e][i])
  /\ \A n \in 1..Len(a) - 1 : a[n][1] = "map_fd" /\ data[e][a[n][2]] =>
    \E m \in n + 1..Len(a) - 1 : a[m] = <<"map_data", a[n][2], c, a[n][2]>>
LEMMA SharedAt ==
  ASSUME MapsOK, NEW e \in Env, NEW c \in Env, NEW a, HandsDown(e, c, a)
  PROVE  HandsAll(e, c, a)
  <1> DEFINE S == {i \in Fdnum : fd[e][i] # None}
             T == {i \in Fdnum : data[e][i]}
             f == InOrder(S)
             d == InOrder(T)
             F == [n \in DOMAIN f |-> <<"map_fd", f[n], c, f[n]>>]
             D == [n \in DOMAIN d |-> <<"map_data", d[n], c, d[n]>>]
  <1>1. PICK k \in Nat : DOMAIN f = 1..k /\ \A n \in 1..k : f[n] \in Fdnum
    <2>1. S \subseteq Fdnum
      OBVIOUS
    <2>2. \E k \in Nat : DOMAIN f = 1..k /\ \A n \in 1..k : f[n] \in S
      BY <2>1, InOrderIn
    <2> HIDE DEF f, S
    <2> QED BY <2>1, <2>2
  <1>2. PICK l \in Nat : /\ DOMAIN d = 1..l /\ \A n \in 1..l : d[n] \in Fdnum /\ data[e][d[n]]
                         /\ \A i \in Fdnum : data[e][i] => \E n \in 1..l : d[n] = i
    <2>1. T \subseteq Fdnum
      OBVIOUS
    <2>2. PICK l \in Nat : DOMAIN d = 1..l /\ \A n \in 1..l : d[n] \in T
      BY <2>1, InOrderIn
    <2>3. /\ DOMAIN d = 1..Cardinality(T) /\ \A i \in T : \E n \in 1..Cardinality(T) : d[n] = i
      BY <2>1, InOrderAll
    <2>4. \A i \in T : \E n \in 1..l : d[n] = i
      BY <2>2, <2>3
    <2>5. \A i \in Fdnum : i \in T <=> data[e][i]
      BY Zenon
    <2> HIDE DEF d, T
    <2> QED BY <2>1, <2>2, <2>4, <2>5, Zenon
  <1>3. a = (F \o D) \o <<<<"start", c>>>>
    BY DEF Shared, HandsDown
  <1>4. F \in Seq(AllCalls) /\ Len(F) = k /\ \A n \in 1..k : F[n] = <<"map_fd", f[n], c, f[n]>>
    <2> HIDE DEF f
    <2>1. \A n \in 1..k : F[n] = <<"map_fd", f[n], c, f[n]>> /\ F[n] \in AllCalls
      BY <1>1 DEF AllCalls
    <2>2. F = [n \in 1..k |-> F[n]]
      BY <1>1
    <2> HIDE DEF F, AllCalls
    <2>3. F \in [1..k -> AllCalls]
      BY <2>1, <2>2
    <2>4. F \in Seq(AllCalls) /\ Len(F) = k
      BY ONLY <2>3, k \in Nat
    <2> QED BY <2>1, <2>4
  <1>5. D \in Seq(AllCalls) /\ Len(D) = l /\ \A n \in 1..l : D[n] = <<"map_data", d[n], c, d[n]>>
    <2> HIDE DEF d
    <2>1. \A n \in 1..l : D[n] = <<"map_data", d[n], c, d[n]>> /\ D[n] \in AllCalls
      <3>1. \A n \in 1..l : d[n] \in Fdnum
        BY <1>2, Zenon
      <3>2. DOMAIN d = 1..l
        BY <1>2, Zenon
      <3> QED BY <3>1, <3>2 DEF AllCalls
    <2>2. D = [n \in 1..l |-> D[n]]
      <3>1. DOMAIN d = 1..l
        BY <1>2, Zenon
      <3> QED BY <3>1
    <2> HIDE DEF D, AllCalls
    <2>3. D \in [1..l -> AllCalls]
      BY <2>1, <2>2
    <2>4. D \in Seq(AllCalls) /\ Len(D) = l
      BY ONLY <2>3, l \in Nat
    <2> QED BY <2>1, <2>4
  <1>6. PICK z : z = <<<<"start", c>>>>
    OBVIOUS
  <1>7. z \in Seq(AllCalls) /\ Len(z) = 1 /\ z[1] = <<"start", c>>
    <2> DEFINE x == <<"start", c>>
    <2>1. x \in AllCalls
      BY DEF AllCalls
    <2> HIDE DEF x
    <2>2. <<x>> \in Seq(AllCalls) /\ Len(<<x>>) = 1 /\ <<x>>[1] = x
      BY <2>1
    <2> QED BY <1>6, <2>2 DEF x
  <1> HIDE DEF F, D, f, d, S, T
  <1>8. PICK g : g = F \o D
    OBVIOUS
  <1>9. /\ g \in Seq(AllCalls) /\ Len(g) = k + l
        /\ \A n \in 1..k : g[n] = <<"map_fd", f[n], c, f[n]>>
        /\ \A n \in k + 1..k + l : g[n] = <<"map_data", d[n - k], c, d[n - k]>>
    <2>1. /\ g \in Seq(AllCalls) /\ Len(g) = Len(F) + Len(D)
          /\ \A n \in 1..Len(F) : g[n] = F[n]
          /\ \A n \in Len(F) + 1..Len(F) + Len(D) : g[n] = D[n - Len(F)]
      BY ONLY <1>4, <1>5, <1>8, ConcatAt, Zenon
    <2>2. \A n \in k + 1..k + l : n - k \in 1..l
      OBVIOUS
    <2> QED BY <1>4, <1>5, <2>1, <2>2
  <1>10. /\ a \in Seq(AllCalls) /\ Len(a) = (k + l) + 1
         /\ \A n \in 1..k + l : a[n] = g[n]
         /\ a[(k + l) + 1] = <<"start", c>>
    <2>0. a = g \o z
      BY <1>3, <1>6, <1>8
    <2>1. /\ a \in Seq(AllCalls) /\ Len(a) = Len(g) + Len(z)
          /\ \A n \in 1..Len(g) : a[n] = g[n]
          /\ \A n \in Len(g) + 1..Len(g) + Len(z) : a[n] = z[n - Len(g)]
      BY ONLY <1>7, <1>9, <2>0, ConcatAt, Zenon
    <2>2. (k + l) + 1 \in Len(g) + 1..Len(g) + Len(z) /\ ((k + l) + 1) - Len(g) = 1
      BY <1>7, <1>9
    <2> QED BY <1>7, <1>9, <2>1, <2>2
  <1>11. Len(a) - 1 = k + l /\ Len(a) \in Nat \ {0}
    BY <1>10
  <1>12. /\ \A n \in 1..k : a[n] = <<"map_fd", f[n], c, f[n]>>
         /\ \A n \in k + 1..k + l : a[n] = <<"map_data", d[n - k], c, d[n - k]>>
    <2>1. (\A n \in 1..k : n \in 1..k + l) /\ (\A n \in k + 1..k + l : n \in 1..k + l)
      OBVIOUS
    <2> QED BY <1>9, <1>10, <2>1
  <1>13. ASSUME NEW n \in 1..k + l
         PROVE  \E i \in Fdnum : a[n] = <<"map_fd", i, c, i>> \/ (a[n] = <<"map_data", i, c, i>> /\ data[e][i])
    <2>1. CASE n \in 1..k
      BY <1>1, <1>12, <2>1
    <2>2. CASE n \in k + 1..k + l
      <3>1. n - k \in 1..l
        BY <2>2
      <3>2. d[n - k] \in Fdnum /\ data[e][d[n - k]]
        BY <1>2, <3>1, Zenon
      <3>3. a[n] = <<"map_data", d[n - k], c, d[n - k]>>
        BY <1>12, <2>2
      <3> QED BY <3>2, <3>3, Zenon
    <2>3. n \in 1..k \/ n \in k + 1..k + l
      OBVIOUS
    <2> QED BY <2>1, <2>2, <2>3, Zenon
  <1>14. ASSUME NEW n \in 1..k + l, a[n][1] = "map_fd", data[e][a[n][2]]
         PROVE  \E m \in n + 1..k + l : a[m] = <<"map_data", a[n][2], c, a[n][2]>>
    <2>1. n \in 1..k
      <3>1. CASE n \in k + 1..k + l
        BY <1>12, <1>14, <3>1
      <3> QED BY <3>1
    <2>2. a[n] = <<"map_fd", f[n], c, f[n]>> /\ f[n] \in Fdnum
      BY <1>1, <1>12, <2>1
    <2>3. a[n][2] = f[n]
      BY ONLY <2>2
    <2>4. PICK m \in 1..l : d[m] = f[n]
      <3>1. data[e][f[n]]
        BY <1>14, <2>3, Zenon
      <3> QED BY <1>2, <2>2, <3>1, Zenon
    <2>5. PICK q : q = k + m
      OBVIOUS
    <2>6. q \in n + 1..k + l /\ q \in k + 1..k + l /\ q - k = m
      BY <2>1, <2>5
    <2> QED BY <1>12, <2>3, <2>4, <2>6
  <1> QED BY <1>10, <1>11, <1>13, <1>14 DEF HandsAll

\* fork: the child is new, and every Fd page of the pipe has its data page.
LEMMA ForkWf ==
  ASSUME MapsOK, NEW e \in Env, NEW s \in Seq(AllCalls), s # <<>>, NoSys(s), NEW c \in Env, c # e,
         \A i \in Fdnum : fd[e][i] \in Ends => data[e][i],
         NEW t, Instead(s, Shared(e, c) \o <<<<"start", c>>>>, t),
         fd'[e] = fd[e], data'[e] = data[e], status'[c] = "NOT_RUNNABLE"
  PROVE  WfSeq(e, t)' /\ t \in Seq(AllCalls)
  <1>1. PICK a : a = Shared(e, c) \o <<<<"start", c>>>>
    OBVIOUS
  <1>2. /\ a \in Seq(AllCalls) /\ Len(a) \in Nat \ {0} /\ a[Len(a)] = <<"start", c>>
        /\ \A n \in 1..Len(a) - 1 : \E i \in Fdnum :
             a[n] = <<"map_fd", i, c, i>> \/ (a[n] = <<"map_data", i, c, i>> /\ data[e][i])
        /\ \A n \in 1..Len(a) - 1 : a[n][1] = "map_fd" /\ data[e][a[n][2]] =>
             \E m \in n + 1..Len(a) - 1 : a[m] = <<"map_data", a[n][2], c, a[n][2]>>
    <2>1. HandsDown(e, c, a)
      BY <1>1 DEF HandsDown
    <2>2. HandsAll(e, c, a)
      BY <2>1, SharedAt
    <2> QED BY <2>2, Zenon DEF HandsAll
  <1>3. Instead(s, a, t)
    BY <1>1
  <1>4. /\ t \in Seq(AllCalls) /\ Len(s) \in Nat \ {0} /\ Len(t) = Len(a) + (Len(s) - 1)
        /\ \A n \in 1..Len(a) : n \in 1..Len(t) /\ t[n] = a[n]
        /\ \A n \in Len(a) + 1..Len(t) : (n - Len(a)) + 1 \in 2..Len(s) /\ t[n] = s[(n - Len(a)) + 1]
    <2>1. a \in Seq(AllCalls)
      BY <1>2, Zenon
    <2> QED BY <1>3, <2>1, InsteadAt
  <1>5. PICK L : L = Len(a)
    OBVIOUS
  <1>6. L \in Nat \ {0} /\ Len(t) \in Nat /\ L \in 1..Len(t)
    <2>1. Len(a) \in Nat \ {0}
      BY <1>2, Zenon
    <2> QED BY <1>4, <1>5, <2>1
  <1>7. t[L] = <<"start", c>>
    <2>1. L \in 1..Len(a) /\ a[L] = <<"start", c>>
      <3>1. a[Len(a)] = <<"start", c>>
        BY <1>2, Zenon
      <3> QED BY <1>5, <1>6, <3>1
    <2> QED BY <1>4, <2>1
  <1>8. \A n \in 1..L - 1 : n \in 1..Len(a) /\ t[n] = a[n]
    BY <1>4, <1>5, <1>6
  <1>9. ASSUME NEW n \in 1..L - 1
        PROVE  /\ t[n][1] \in {"map_fd", "map_data"} /\ t[n][2] \in Fdnum /\ t[n][3] = c /\ t[n][4] = t[n][2]
               /\ t[n][1] = "map_data" => data[e][t[n][2]]
    <2>1. PICK i \in Fdnum : t[n] = <<"map_fd", i, c, i>> \/ (t[n] = <<"map_data", i, c, i>> /\ data[e][i])
      <3>1. n \in 1..Len(a) - 1 /\ t[n] = a[n]
        BY <1>5, <1>8
      <3>2. \E i \in Fdnum :
              a[n] = <<"map_fd", i, c, i>> \/ (a[n] = <<"map_data", i, c, i>> /\ data[e][i])
        BY <1>2, <3>1, Zenon
      <3>3. t[n] = a[n]
        BY <3>1
      <3> QED BY <3>2, <3>3, Zenon
    <2>2. t[n] = <<"map_fd", i, c, i>> \/ t[n] = <<"map_data", i, c, i>>
      BY <2>1
    <2>3. t[n][1] \in {"map_fd", "map_data"} /\ t[n][2] = i /\ t[n][3] = c /\ t[n][4] = i
      BY <2>2
    <2>4. t[n][1] = "map_data" => t[n] # <<"map_fd", i, c, i>>
      OBVIOUS
    <2>5. t[n][1] = "map_data" => data[e][i]
      BY <2>1, <2>4, Zenon
    <2> QED BY <2>3, <2>5
  <1>10. ASSUME NEW n \in 1..L - 1, t[n][1] = "map_fd", data[e][t[n][2]]
         PROVE  \E m \in n + 1..L - 1 : t[m] = <<"map_data", t[n][2], c, t[n][2]>>
    <2>1. PICK m \in n + 1..L - 1 : a[m] = <<"map_data", a[n][2], c, a[n][2]>>
      <3>1. a[n][1] = "map_fd" /\ data[e][a[n][2]] /\ n \in 1..Len(a) - 1
        BY <1>5, <1>8, <1>10
      <3> QED BY <1>2, <1>5, <3>1, Zenon
    <2>2. m \in 1..L - 1
      BY <1>6
    <2> QED BY <1>8, <2>1, <2>2
  <1>11. \A n \in L + 1..Len(t) : t[n][1] \notin Sys
    <2> TAKE n \in L + 1..Len(t)
    <2>1. (n - L) + 1 \in 2..Len(s) /\ t[n] = s[(n - L) + 1]
      BY <1>4, <1>5
    <2>2. (n - L) + 1 \in 1..Len(s)
      BY <1>4, <2>1
    <2> QED BY <2>1, <2>2 DEF NoSys
  <1>12. \A n \in 1..Len(t) : n \in 1..L - 1 \/ n = L \/ n \in L + 1..Len(t)
    BY <1>6
  <1>13. \A n \in 1..Len(t) : t[n][1] \in Sys => n \in 1..L - 1 \/ n = L
    BY <1>11, <1>12
  <1>14. \A n \in 1..L - 1 : t[n][1] \in Sys
    BY <1>9 DEF Sys
  <1>15. Order(t)
    <2> SUFFICES ASSUME NEW m \in 1..Len(t), t[m][1] \in Sys, NEW n \in 1..m - 1
                 PROVE  t[n][1] \in Sys \union {"close"}
      BY DEF Order
    <2>1. n \in 1..L - 1
      BY <1>6, <1>13
    <2> QED BY <1>14, <2>1
  <1>16. Final(e, t)
    <2> SUFFICES ASSUME NEW n \in 1..Len(t), t[n][1] = "start" \/ (t[n][1] = "map_fd" /\ t[n][3] = e),
                        NEW m \in n + 1..Len(t)
                 PROVE  t[m][1] \notin Sys
      BY DEF Final
    <2>1. n \notin 1..L - 1
      BY <1>9
    <2>2. m \in L + 1..Len(t)
      BY <1>6, <2>1
    <2> QED BY <1>11, <2>2
  <1>17. ASSUME NEW n \in 1..Len(t), t[n][1] \in Sys PROVE n \in 1..L - 1 \/ (n = L /\ t[n] = <<"start", c>>)
    BY <1>7, <1>13, <1>17
  <1>18. Unmaps(e, t)' /\ DupData(e, t)' /\ DupFd(e, t)'
    <2>1. \A n \in 1..Len(t) : t[n][1] # "unmap_data" /\ (t[n][1] \in {"map_fd", "map_data"} => t[n][3] # e)
      BY <1>9, <1>17 DEF Sys
    <2> QED BY <2>1 DEF Unmaps, DupData, DupFd
  <1>19. Starts(e, t)'
    <2> SUFFICES ASSUME NEW n \in 1..Len(t), t[n][1] = "start"
                 PROVE  /\ t[n][2] # e /\ status'[t[n][2]] = "NOT_RUNNABLE"
                        /\ \A m \in 1..n - 1 : t[m][1] \in {"map_fd", "map_data"} /\ t[m][3] = t[n][2]
      BY DEF Starts
    <2>1. n = L /\ t[n][2] = c
      BY <1>9, <1>17 DEF Sys
    <2> QED BY <1>9, <2>1
  <1>20. Hands(e, t)'
    <2> SUFFICES ASSUME NEW n \in 1..Len(t), t[n][1] \in {"map_fd", "map_data"}, t[n][3] # e
                 PROVE  /\ t[n][4] = t[n][2]
                        /\ \E m \in n + 1..Len(t) : t[m] = <<"start", t[n][3]>>
                        /\ t[n][1] = "map_data" => data'[e][t[n][2]]
                        /\ t[n][1] = "map_fd" /\ fd'[e][t[n][2]] \in Ends =>
                             \E m \in n + 1..Len(t) : t[m] = <<"map_data", t[n][2], t[n][3], t[n][2]>>
      BY DEF Hands
    <2>1. n \in 1..L - 1
      BY <1>17 DEF Sys
    <2>2. t[n][4] = t[n][2] /\ t[n][3] = c /\ t[n][2] \in Fdnum
      BY <1>9, <2>1
    <2>3. L \in n + 1..Len(t) /\ t[L] = <<"start", t[n][3]>>
      BY <1>6, <1>7, <2>1, <2>2
    <2>4. t[n][1] = "map_data" => data'[e][t[n][2]]
      BY <1>9, <2>1, Zenon
    <2>5. ASSUME t[n][1] = "map_fd", fd'[e][t[n][2]] \in Ends
          PROVE  \E m \in n + 1..Len(t) : t[m] = <<"map_data", t[n][2], t[n][3], t[n][2]>>
      <3>1. data[e][t[n][2]]
        BY <2>2, <2>5, Zenon
      <3>2. PICK m \in n + 1..L - 1 : t[m] = <<"map_data", t[n][2], c, t[n][2]>>
        BY <1>10, <2>1, <2>5, <3>1
      <3>3. m \in n + 1..Len(t)
        BY <1>6, <3>2
      <3> QED BY <2>2, <3>2, <3>3
    <2> QED BY <2>2, <2>3, <2>4, <2>5
  <1> QED BY <1>4, <1>15, <1>16, <1>18, <1>19, <1>20 DEF WfSeq, Order, Final

-----------------------------------------------------------------------------
(* What a step does. *)

LEMMA ThenIs ==
  ASSUME CodeTyped, NEW e \in Env, code[e] # <<>>, NEW a, Then(e, a)
  PROVE  /\ Instead(code[e], a, code'[e]) /\ code' = [f \in Env |-> code'[f]]
         /\ \A f \in Env : f # e => code'[f] = code[f]
  BY DEF Then, CodeTyped, Instead

LEMMA ThenNothing ==
  ASSUME CodeTyped, NEW e \in Env, code[e] # <<>>, Then(e, <<>>)
  PROVE  /\ Rest(code[e], code'[e]) /\ code' = [f \in Env |-> code'[f]]
         /\ \A f \in Env : f # e => code'[f] = code[f]
  <1>1. Instead(code[e], <<>>, code'[e])
    BY ThenIs
  <1>2. Tail(code[e]) \in Seq(AllCalls)
    BY TailAt DEF CodeTyped
  <1>3. PICK r : r = Tail(code[e])
    OBVIOUS
  <1>4. <<>> \o r = r
    <2> HIDE DEF AllCalls
    <2> QED BY <1>2, <1>3
  <1> QED BY <1>1, <1>3, <1>4, ThenIs DEF Instead, Rest

\* The first call of e.
LEMMA First ==
  ASSUME CodeTyped, NEW e \in Env, code[e] # <<>>
  PROVE  /\ Head(code[e]) = code[e][1] /\ code[e][1] \in AllCalls /\ Len(code[e]) \in Nat \ {0}
         /\ 1 \in 1..Len(code[e])
  <1>1. code[e] \in Seq(AllCalls)
    BY DEF CodeTyped
  <1> HIDE DEF AllCalls
  <1> QED BY <1>1

\* Steps that touch no mapping and no status: what is left to do.
Alike(e, s, t) ==
  \/ t = s
  \/ Rest(s, t) /\ (s[1][1] = "close" => fd[e][s[1][2]] = None)
  \/ s[1][1] = "close" /\ \E k : Instead(s, CloseCalls(k, s[1][2]), t)
  \/ s[1][1] = "dup" /\ fd[e][s[1][2]] # None
       /\ Instead(s, <<<<"close", s[1][3]>>>> \o DupCalls(e, s[1][2], s[1][3]), t)
  \/ s[1][1] \notin {"close", "pipe"}
       /\ \E a \in Seq(AllCalls) : NoSys(a) /\ ~Uses(a, "pipe") /\ Instead(s, a, t)
  \/ s[1][1] = "dup_while" /\ t = <<<<"dup", s[1][2], s[1][3]>>>> \o s
  \/ t = <<<<"exit">>>>
Quiet(e) ==
  /\ UNCHANGED <<fd, data, status>>
  /\ code[e][1][1] \notin Sys \union {"fork", "block", "destroy"}
  /\ Alike(e, code[e], code'[e])
Makes(e) ==
  /\ code[e][1][1] = "pipe" /\ Rest(code[e], code'[e]) /\ status' = status
  /\ \A f \in Env : f # e => fd'[f] = fd[f] /\ data'[f] = data[f]
  /\ \A i \in Fdnum : data'[e][i] \/ (fd'[e][i] = fd[e][i] /\ data'[e][i] = data[e][i])
Forks(e) ==
  LET c == code[e][1][2]
  IN  /\ code[e][1][1] = "fork" /\ status[c] = "FREE"
      /\ status' = [status EXCEPT ![c] = "NOT_RUNNABLE"] /\ UNCHANGED <<fd, data>>
      /\ Instead(code[e], Shared(e, c) \o <<<<"start", c>>>>, code'[e])
UnmapsFd(e) ==
  /\ code[e][1][1] = "unmap_fd" /\ Rest(code[e], code'[e])
  /\ fd' = [fd EXCEPT ![e][code[e][1][2]] = None] /\ UNCHANGED <<data, status>>
UnmapsData(e) ==
  /\ code[e][1][1] = "unmap_data" /\ Rest(code[e], code'[e])
  /\ data' = [data EXCEPT ![e][code[e][1][2]] = FALSE] /\ UNCHANGED <<fd, status>>
MapsFd(e) ==
  LET x == code[e][1]
  IN  /\ x[1] = "map_fd" /\ Rest(code[e], code'[e])
      /\ fd' = [fd EXCEPT ![x[3]][x[4]] = fd[e][x[2]]] /\ UNCHANGED <<data, status>>
MapsData(e) ==
  LET x == code[e][1]
  IN  /\ x[1] = "map_data" /\ Rest(code[e], code'[e])
      /\ data' = [data EXCEPT ![x[3]][x[4]] = data[e][x[2]]] /\ UNCHANGED <<fd, status>>
StartsChild(e) ==
  /\ code[e][1][1] = "start" /\ Rest(code[e], code'[e])
  /\ status' = [status EXCEPT ![code[e][1][2]] = "RUNNABLE"] /\ UNCHANGED <<fd, data>>
Blocks(e) ==
  /\ code[e][1][1] = "block" /\ Rest(code[e], code'[e])
  /\ status' = [status EXCEPT ![e] = "NOT_RUNNABLE"] /\ UNCHANGED <<fd, data>>
Dies(e) ==
  /\ code[e][1][1] = "destroy" /\ code'[e] = <<>>
  /\ fd' = [fd EXCEPT ![e] = [i \in Fdnum |-> None]]
  /\ data' = [data EXCEPT ![e] = [i \in Fdnum |-> FALSE]]
  /\ status' = [status EXCEPT ![e] = "FREE"]
Effect(e) ==
  /\ status[e] = "RUNNABLE" /\ code[e] # <<>>
  /\ code' = [f \in Env |-> code'[f]] /\ \A f \in Env : f # e => code'[f] = code[f]
  /\ \/ Quiet(e) \/ Makes(e) \/ Forks(e) \/ UnmapsFd(e) \/ UnmapsData(e) \/ MapsFd(e) \/ MapsData(e)
     \/ StartsChild(e) \/ Blocks(e) \/ Dies(e)

LEMMA NoSysOne ==
  ASSUME NEW x \in AllCalls, x[1] \notin Sys, x[1] # "pipe"
  PROVE  <<x>> \in Seq(AllCalls) /\ NoSys(<<x>>) /\ ~Uses(<<x>>, "pipe")
  <1>1. <<x>> \in Seq(AllCalls) /\ Len(<<x>>) = 1 /\ <<x>>[1] = x /\ ToSet(<<x>>) = {x}
    <2> HIDE DEF AllCalls
    <2> QED BY DEF ToSet
  <1> QED BY <1>1 DEF NoSys, Uses

LEMMA ExitCalls ==
  ASSUME NEW a, a = close_all \o <<<<"destroy">>>>
  PROVE  a \in Seq(AllCalls) /\ NoSys(a) /\ ~Uses(a, "pipe")
  <1>1. MAXFD \in Nat \ {0}
    BY PipeSizes
  <1>2. close_all \in Seq(AllCalls) /\ Len(close_all) = MAXFD
        /\ \A n \in 1..MAXFD : close_all[n][1] = "close"
    <2>1. \A n \in 1..MAXFD : n - 1 \in Fdnum
      BY <1>1 DEF Fdnum
    <2>2. \A n \in 1..MAXFD : <<"close", n - 1>> \in AllCalls
      BY <2>1 DEF AllCalls, Calls
    <2>3. close_all = [n \in 1..MAXFD |-> close_all[n]]
          /\ \A n \in 1..MAXFD : close_all[n] \in AllCalls /\ close_all[n][1] = "close"
      BY <2>2 DEF close_all
    <2>4. close_all \in [1..MAXFD -> AllCalls]
      BY <2>3
    <2>5. close_all \in Seq(AllCalls) /\ Len(close_all) = MAXFD
      <3> HIDE DEF AllCalls
      <3> QED BY ONLY <1>1, <2>4
    <2> QED BY <2>3, <2>5
  <1>3. PICK z : z = <<<<"destroy">>>>
    OBVIOUS
  <1>4. z \in Seq(AllCalls) /\ Len(z) = 1 /\ z[1] = <<"destroy">>
    <2> DEFINE x == <<"destroy">>
    <2>1. x \in AllCalls
      BY DEF AllCalls
    <2> HIDE DEF x
    <2>2. <<x>> \in Seq(AllCalls) /\ Len(<<x>>) = 1 /\ <<x>>[1] = x
      BY <2>1
    <2> QED BY <1>3, <2>2 DEF x
  <1>5. PICK c : c = close_all
    OBVIOUS
  <1>6. a = c \o z
    BY <1>3, <1>5
  <1>7. /\ a \in Seq(AllCalls) /\ Len(a) = Len(c) + Len(z)
        /\ \A n \in 1..Len(c) : a[n] = c[n]
        /\ \A n \in Len(c) + 1..Len(c) + Len(z) : a[n] = z[n - Len(c)]
    <2>1. c \in Seq(AllCalls) /\ z \in Seq(AllCalls)
      BY <1>2, <1>4, <1>5
    <2> QED BY ONLY <1>6, <2>1, ConcatAt, Zenon
  <1>8. Len(c) = MAXFD /\ \A n \in 1..MAXFD : c[n][1] = "close"
    BY <1>2, <1>5
  <1>9. \A n \in 1..Len(a) : a[n][1] \in {"close", "destroy"}
    <2> TAKE n \in 1..Len(a)
    <2>1. n \in 1..MAXFD \/ (n \in Len(c) + 1..Len(c) + Len(z) /\ n - Len(c) = 1)
      BY <1>1, <1>4, <1>7, <1>8
    <2>2. CASE n \in 1..MAXFD
      BY <1>7, <1>8, <2>2
    <2>3. CASE n \in Len(c) + 1..Len(c) + Len(z) /\ n - Len(c) = 1
      <3>1. a[n] = <<"destroy">>
        BY <1>4, <1>7, <2>3
      <3> QED BY <3>1
    <2> QED BY <2>1, <2>2, <2>3
  <1>10. \A x \in ToSet(a) : \E n \in 1..Len(a) : x = a[n]
    <2>1. DOMAIN a = 1..Len(a)
      BY <1>7
    <2> QED BY <2>1 DEF ToSet
  <1> QED BY <1>7, <1>9, <1>10 DEF NoSys, Uses, Sys

LEMMA PipeMakes ==
  ASSUME MapsOK, CodeTyped, NEW e \in Env, pipe(e)
  PROVE  Makes(e) \/ Quiet(e)
  <1> DEFINE f0 == fd_alloc(fd[e])
             f1 == fd_alloc([fd[e] EXCEPT ![f0] = "rd"])
  <1>1. code[e] # <<>> /\ code[e][1][1] = "pipe" /\ status' = status
    BY First DEF pipe, At
  <1>2. CASE /\ fd' = [fd EXCEPT ![e][f0] = "rd", ![e][f1] = "wr"]
             /\ data' = [data EXCEPT ![e][f0] = TRUE, ![e][f1] = TRUE] /\ Then(e, <<>>)
    <2> HIDE DEF f0, f1
    <2>1. Rest(code[e], code'[e])
      BY <1>1, <1>2, ThenNothing
    <2>2. \A f \in Env : f # e => fd'[f] = fd[f] /\ data'[f] = data[f]
      BY <1>2 DEF MapsOK
    <2>3. fd[e] \in [Fdnum -> FdPage \union {None}] /\ data[e] \in [Fdnum -> BOOLEAN]
      BY DEF MapsOK
    <2>4. fd'[e] = [fd[e] EXCEPT ![f0] = "rd", ![f1] = "wr"]
      BY <1>2 DEF MapsOK
    <2>5. data'[e] = [data[e] EXCEPT ![f0] = TRUE, ![f1] = TRUE]
      BY <1>2 DEF MapsOK
    <2>6. \A i \in Fdnum : i # f0 /\ i # f1 => fd'[e][i] = fd[e][i]
      BY <2>3, <2>4
    <2>7. \A i \in Fdnum : i # f0 /\ i # f1 => data'[e][i] = data[e][i]
      BY <2>3, <2>5
    <2>8. \A i \in Fdnum : i = f0 \/ i = f1 => data'[e][i]
      BY <2>3, <2>5, Zenon
    <2>9. \A i \in Fdnum : data'[e][i] \/ (fd'[e][i] = fd[e][i] /\ data'[e][i] = data[e][i])
      BY <2>6, <2>7, <2>8, Zenon
    <2> QED BY <1>1, <2>1, <2>2, <2>9, Zenon DEF Makes
  <1>3. CASE code' = [code EXCEPT ![e] = <<<<"exit">>>>] /\ UNCHANGED <<fd, data>>
    <2>1. code'[e] = <<<<"exit">>>>
      BY <1>3 DEF CodeTyped
    <2> QED BY <1>1, <1>3, <2>1 DEF Quiet, Alike, Sys
  <1> QED BY <1>2, <1>3 DEF pipe

LEMMA EffectOf ==
  ASSUME MapsOK, CodeTyped, NEW e \in Env, Do(e)
  PROVE  Effect(e)
  <1> DEFINE x == code[e][1]
  <1>0. \A c : At(e, c) => status[e] = "RUNNABLE" /\ code[e] # <<>> /\ x[1] = c /\ x \in AllCalls
    BY First DEF At
  <1>01. \A c : At(e, c) => Arg(e, 1) = x[1] /\ Arg(e, 2) = x[2] /\ Arg(e, 3) = x[3] /\ Arg(e, 4) = x[4]
    BY First DEF At, Arg
  <1> DEFINE Rests == code' = [f \in Env |-> code'[f]] /\ \A f \in Env : f # e => code'[f] = code[f]
  <1>1. ASSUME NEW c, At(e, c), c \notin {"close", "fork", "block", "destroy"} \union Sys,
               Then(e, <<>>), UNCHANGED <<fd, data, status>>
        PROVE  Effect(e)
    BY <1>0, <1>1, ThenNothing DEF Effect, Quiet, Alike
  <1>2. ASSUME NEW c, At(e, c), c \in {"read", "write", "is_closed"}, UNCHANGED code,
               UNCHANGED <<fd, data, status>>
        PROVE  Effect(e)
    <2>1. Rests
      BY <1>2 DEF CodeTyped
    <2>2. c \notin Sys \union {"fork", "block", "destroy"}
      BY <1>2 DEF Sys
    <2> QED BY <1>0, <1>2, <2>1, <2>2 DEF Effect, Quiet, Alike
  <1>3. ASSUME NEW c, At(e, c), c \notin {"close", "pipe", "fork", "block", "destroy"} \union Sys,
               NEW a \in Seq(AllCalls), NoSys(a), ~Uses(a, "pipe"),
               Then(e, a), UNCHANGED <<fd, data, status>>
        PROVE  Effect(e)
    BY <1>0, <1>3, ThenIs DEF Effect, Quiet, Alike
  <1>4. CASE close(e)
    <2>1. At(e, "close") /\ UNCHANGED <<fd, data, status>>
          /\ Then(e, IF fd[e][x[2]] = None THEN <<>> ELSE CloseCalls(fd[e][x[2]], x[2]))
      BY <1>01, <1>4 DEF close
    <2>2. "close" \notin Sys \union {"fork", "block", "destroy"}
      BY DEF Sys
    <2>3. CASE fd[e][x[2]] = None
      <3>1. Then(e, <<>>)
        BY <2>1, <2>3
      <3> QED BY <1>0, <2>1, <2>2, <2>3, <3>1, ThenNothing DEF Effect, Quiet, Alike
    <2>4. CASE fd[e][x[2]] # None
      <3>1. Then(e, CloseCalls(fd[e][x[2]], x[2]))
        BY <2>1, <2>4
      <3>2. Instead(code[e], CloseCalls(fd[e][x[2]], x[2]), code'[e]) /\ Rests
        BY <1>0, <2>1, <3>1, ThenIs
      <3> QED BY <1>0, <2>1, <2>2, <3>2 DEF Effect, Quiet, Alike
    <2> QED BY <2>3, <2>4
  <1>5. CASE dup(e)
    <2>1. At(e, "dup") /\ UNCHANGED <<fd, data, status>>
          /\ Then(e, IF fd[e][x[2]] = None THEN <<>>
                     ELSE <<<<"close", x[3]>>>> \o DupCalls(e, x[2], x[3]))
      BY <1>01, <1>5 DEF dup
    <2>2. "dup" \notin {"close", "fork", "block", "destroy"} \union Sys
      BY DEF Sys
    <2>3. CASE fd[e][x[2]] = None
      BY <1>1, <2>1, <2>2, <2>3
    <2>4. CASE fd[e][x[2]] # None
      <3>1. Then(e, <<<<"close", x[3]>>>> \o DupCalls(e, x[2], x[3]))
        BY <2>1, <2>4
      <3>2. Instead(code[e], <<<<"close", x[3]>>>> \o DupCalls(e, x[2], x[3]), code'[e]) /\ Rests
        BY <1>0, <2>1, <3>1, ThenIs
      <3> QED BY <1>0, <2>1, <2>2, <2>4, <3>2 DEF Effect, Quiet, Alike
    <2> QED BY <2>3, <2>4
  <1>6. CASE pipe(e)
    <2>1. At(e, "pipe")
      BY <1>6 DEF pipe
    <2>2. Then(e, <<>>) \/ code' = [code EXCEPT ![e] = <<<<"exit">>>>]
      BY <1>6 DEF pipe
    <2>3. Rests
      <3>1. CASE Then(e, <<>>)
        BY <1>0, <2>1, <3>1, ThenNothing
      <3>2. CASE code' = [code EXCEPT ![e] = <<<<"exit">>>>]
        BY <3>2 DEF CodeTyped
      <3> QED BY <2>2, <3>1, <3>2
    <2> QED BY <1>0, <1>6, <2>1, <2>3, PipeMakes DEF Effect
  <1>7. CASE fork(e)
    <2>1. /\ At(e, "fork") /\ status[x[2]] = "FREE" /\ UNCHANGED <<fd, data>>
          /\ status' = [status EXCEPT ![x[2]] = "NOT_RUNNABLE"]
          /\ Then(e, Shared(e, x[2]) \o <<<<"start", x[2]>>>>)
      BY <1>01, <1>7 DEF fork
    <2>2. Instead(code[e], Shared(e, x[2]) \o <<<<"start", x[2]>>>>, code'[e]) /\ Rests
      BY <1>0, <2>1, ThenIs
    <2> QED BY <1>0, <2>1, <2>2 DEF Effect, Forks
  <1>8. CASE spawn(e)
    <2>1. At(e, "spawn") /\ UNCHANGED <<fd, data, status>>
          /\ (Then(e, <<<<"fork", x[2]>>>>) \/ Then(e, <<>>))
      BY <1>01, <1>8 DEF spawn
    <2>2. "spawn" \notin {"close", "pipe", "fork", "block", "destroy"} \union Sys
      BY DEF Sys
    <2>3. CASE Then(e, <<<<"fork", x[2]>>>>)
      <3>1. x \in AllCalls /\ x[1] = "spawn"
        BY <1>0, <2>1
      <3>2. x[2] \in Env
        BY <3>1, CallShapes
      <3>3. <<"fork", x[2]>> \in AllCalls
        BY <3>2 DEF AllCalls, Calls
      <3>4. PICK y \in AllCalls : y = <<"fork", x[2]>>
        BY <3>3
      <3>5. y[1] \notin Sys /\ y[1] # "pipe" /\ Then(e, <<y>>)
        BY <2>3, <3>4 DEF Sys
      <3>6. <<y>> \in Seq(AllCalls) /\ NoSys(<<y>>) /\ ~Uses(<<y>>, "pipe")
        BY <3>5, NoSysOne
      <3> QED BY <1>3, <2>1, <2>2, <3>5, <3>6
    <2> QED BY <1>1, <2>1, <2>2, <2>3
  <1>9. CASE wait(e)
    <2>1. At(e, "wait") /\ UNCHANGED <<fd, data, status>> /\ Then(e, <<>>)
      BY <1>9 DEF wait
    <2>2. "wait" \notin {"close", "fork", "block", "destroy"} \union Sys
      BY DEF Sys
    <2> QED BY <1>1, <2>1, <2>2
  <1>10. CASE exit(e)
    <2>1. At(e, "exit") /\ UNCHANGED <<fd, data, status>> /\ Then(e, close_all \o <<<<"destroy">>>>)
      BY <1>10 DEF exit
    <2>2. PICK a : a = close_all \o <<<<"destroy">>>>
      OBVIOUS
    <2>3. a \in Seq(AllCalls) /\ NoSys(a) /\ ~Uses(a, "pipe")
      BY <2>2, ExitCalls
    <2>4. "exit" \notin {"close", "pipe", "fork", "block", "destroy"} \union Sys
      BY DEF Sys
    <2>5. Then(e, a)
      BY <2>1, <2>2
    <2> QED BY <1>3, <2>1, <2>3, <2>4, <2>5
  <1>11. CASE mem_unmap(e)
    <2>1. Then(e, <<>>) /\ UNCHANGED status
      BY <1>11 DEF mem_unmap
    <2>2. CASE At(e, "unmap_fd") /\ fd' = [fd EXCEPT ![e][x[2]] = None] /\ UNCHANGED data
      BY <1>0, <2>1, <2>2, ThenNothing DEF Effect, UnmapsFd
    <2>3. CASE At(e, "unmap_data") /\ data' = [data EXCEPT ![e][x[2]] = FALSE] /\ UNCHANGED fd
      <3>1. UnmapsData(e)
        BY <1>0, <2>1, <2>3, ThenNothing, Zenon DEF UnmapsData
      <3> QED BY <1>0, <2>1, <2>3, <3>1, ThenNothing, Zenon DEF Effect
    <2>4. \/ At(e, "unmap_fd") /\ fd' = [fd EXCEPT ![e][x[2]] = None] /\ UNCHANGED data
          \/ At(e, "unmap_data") /\ data' = [data EXCEPT ![e][x[2]] = FALSE] /\ UNCHANGED fd
      BY <1>01, <1>11, Zenon DEF mem_unmap
    <2> QED BY <2>2, <2>3, <2>4
  <1>12. CASE mem_map(e)
    <2>1. Then(e, <<>>) /\ UNCHANGED status
      BY <1>12 DEF mem_map
    <2>2. CASE At(e, "map_fd") /\ fd' = [fd EXCEPT ![x[3]][x[4]] = fd[e][x[2]]] /\ UNCHANGED data
      BY <1>0, <2>1, <2>2, ThenNothing DEF Effect, MapsFd
    <2>3. CASE At(e, "map_data") /\ data' = [data EXCEPT ![x[3]][x[4]] = data[e][x[2]]] /\ UNCHANGED fd
      <3>1. MapsData(e)
        BY <1>0, <2>1, <2>3, ThenNothing, Zenon DEF MapsData
      <3> QED BY <1>0, <2>1, <2>3, <3>1, ThenNothing, Zenon DEF Effect
    <2>4. \/ At(e, "map_fd") /\ fd' = [fd EXCEPT ![x[3]][x[4]] = fd[e][x[2]]] /\ UNCHANGED data
          \/ At(e, "map_data") /\ data' = [data EXCEPT ![x[3]][x[4]] = data[e][x[2]]] /\ UNCHANGED fd
      BY <1>01, <1>12, Zenon DEF mem_map
    <2> QED BY <2>2, <2>3, <2>4
  <1>13. CASE set_env_status(e)
    <2>1. Then(e, <<>>) /\ UNCHANGED <<fd, data>>
      BY <1>13 DEF set_env_status
    <2>2. \/ At(e, "start") /\ status' = [status EXCEPT ![x[2]] = "RUNNABLE"]
          \/ At(e, "block") /\ status' = [status EXCEPT ![e] = "NOT_RUNNABLE"]
      BY <1>01, <1>13 DEF set_env_status
    <2>3. CASE At(e, "start") /\ status' = [status EXCEPT ![x[2]] = "RUNNABLE"]
      BY <1>0, <2>1, <2>3, ThenNothing DEF Effect, StartsChild
    <2>4. CASE At(e, "block") /\ status' = [status EXCEPT ![e] = "NOT_RUNNABLE"]
      BY <1>0, <2>1, <2>4, ThenNothing DEF Effect, Blocks
    <2> QED BY <2>2, <2>3, <2>4
  <1>14. CASE env_destroy(e)
    <2>1. Rests /\ code'[e] = <<>>
      BY <1>14 DEF env_destroy, CodeTyped
    <2>2. Dies(e)
      BY <1>0, <1>14, <2>1, Zenon DEF env_destroy, Dies
    <2>3. At(e, "destroy")
      BY <1>14 DEF env_destroy
    <2> QED BY <1>0, <2>1, <2>2, <2>3, Zenon DEF Effect
  <1>15. CASE \/ call(e) \/ test(e) \/ fd_ref(e) \/ pipe_ref(e) \/ yield(e) \/ copy(e) \/ advance(e)
              \/ return(e) \/ verdict(e)
    <2>1. PICK c : At(e, c) /\ c \in {"read", "write", "is_closed"}
      BY <1>15 DEF call, test, fd_ref, pipe_ref, yield, copy, advance, return, verdict, InCall
    <2>2. UNCHANGED <<fd, data, status>> /\ (UNCHANGED code \/ Then(e, <<>>))
      BY <1>15 DEF call, test, fd_ref, pipe_ref, yield, copy, advance, return, verdict
    <2>3. c \notin {"close", "fork", "block", "destroy"} \union Sys
      BY <2>1 DEF Sys
    <2> QED BY <1>1, <1>2, <2>1, <2>2, <2>3
  <1>16. CASE while_runnable(e)
    <2>1. At(e, "dup_while") /\ UNCHANGED <<fd, data, status>>
          /\ (Again(e, <<<<"dup", x[2], x[3]>>>>) \/ Then(e, <<>>))
      BY <1>01, <1>16 DEF while_runnable
    <2>2. "dup_while" \notin {"close", "fork", "block", "destroy"} \union Sys
      BY DEF Sys
    <2>3. CASE Again(e, <<<<"dup", x[2], x[3]>>>>)
      <3>1. Rests /\ code'[e] = <<<<"dup", x[2], x[3]>>>> \o code[e]
        BY <2>3 DEF Again, CodeTyped
      <3> QED BY <1>0, <2>1, <2>2, <3>1 DEF Effect, Quiet, Alike
    <2> QED BY <1>1, <2>1, <2>2, <2>3
  <1> QED BY <1>4, <1>5, <1>6, <1>7, <1>8, <1>9, <1>10, <1>11, <1>12, <1>13, <1>14, <1>15, <1>16 DEF Do

-----------------------------------------------------------------------------
(* Whom a step touches. *)

\* The part of the invariant about the calls of the programs.
CodeInv == MapsOK /\ CodeTyped /\ CodeWf /\ Still /\ OneParent

LEMMA NoneIsNoEnd == None \notin Ends
  BY ScenarioShape DEF Ends, FdPage

LEMMA CodeOf ==
  ASSUME CodeInv, NEW e \in Env
  PROVE  code[e] \in Seq(AllCalls) /\ WfSeq(e, code[e])
  BY DEF CodeInv, CodeTyped, CodeWf

\* Who has a system call left runs.
LEMMA SysRuns ==
  ASSUME CodeInv, NEW e \in Env, NEW n \in 1..Len(code[e]), code[e][n][1] \in Sys
  PROVE  status[e] = "RUNNABLE"
  BY DEF CodeInv, Still, NoSys

\* A page is handed down to a child that does not run yet.
LEMMA Receives ==
  ASSUME CodeInv, NEW e \in Env, NEW n \in 1..Len(code[e]),
         code[e][n][1] \in {"map_fd", "map_data"}, code[e][n][3] # e
  PROVE  /\ status[code[e][n][3]] = "NOT_RUNNABLE" /\ code[e][n][4] = code[e][n][2]
         /\ status[e] = "RUNNABLE" /\ code[e] # <<>>
         /\ code[e][1][1] \in {"map_fd", "map_data"} /\ code[e][1][3] = code[e][n][3]
  <1>1. PICK s : s = code[e]
    OBVIOUS
  <1>2. s \in Seq(AllCalls) /\ WfSeq(e, s) /\ n \in 1..Len(s) /\ s[n][1] \in {"map_fd", "map_data"} /\ s[n][3] # e
    BY <1>1, CodeOf
  <1>3. s # <<>> /\ s[1][1] \in {"map_fd", "map_data"} /\ s[1][3] = s[n][3]
    BY <1>2, Handing
  <1>4. s[n][4] = s[n][2] /\ \E m \in n + 1..Len(s) : s[m] = <<"start", s[n][3]>>
    BY <1>2 DEF WfSeq, Hands
  <1>5. PICK m \in n + 1..Len(s) : s[m] = <<"start", s[n][3]>>
    BY <1>4
  <1>6. m \in 1..Len(s) /\ s[m][1] = "start" /\ s[m][2] = s[n][3]
    BY <1>2, <1>5
  <1>7. status[s[m][2]] = "NOT_RUNNABLE"
    BY <1>2, <1>6 DEF WfSeq, Starts
  <1>8. status[e] = "RUNNABLE"
    BY <1>1, SysRuns DEF Sys
  <1> QED BY <1>1, <1>3, <1>4, <1>6, <1>7, <1>8

\* Only the child of a call under way is touched by another.
LEMMA Untouched ==
  ASSUME CodeInv, NEW e \in Env, Effect(e), NEW f \in Env, f # e, status[f] # "NOT_RUNNABLE"
  PROVE  fd'[f] = fd[f] /\ data'[f] = data[f]
  <1> DEFINE x == code[e][1]
  <1>1. x[1] \in {"map_fd", "map_data"} => x[3] # f
    <2>1. 1 \in 1..Len(code[e])
      BY First DEF Effect, CodeInv
    <2> QED BY <2>1, Receives
  <1>2. fd \in [Env -> [Fdnum -> FdPage \union {None}]] /\ data \in [Env -> [Fdnum -> BOOLEAN]]
    BY DEF CodeInv, MapsOK
  <1>3. CASE Quiet(e) \/ Forks(e) \/ StartsChild(e) \/ Blocks(e)
    BY <1>3 DEF Quiet, Forks, StartsChild, Blocks
  <1>4. CASE Makes(e)
    BY <1>4 DEF Makes
  <1>5. CASE UnmapsFd(e)
    BY <1>2, <1>5 DEF UnmapsFd
  <1>6. CASE UnmapsData(e)
    BY <1>2, <1>6 DEF UnmapsData
  <1>7. CASE MapsFd(e)
    <2>1. x[3] # f /\ data' = data /\ fd' = [fd EXCEPT ![x[3]][x[4]] = fd[e][x[2]]]
      BY <1>1, <1>7 DEF MapsFd
    <2> HIDE DEF x
    <2> QED BY <1>2, <2>1
  <1>8. CASE MapsData(e)
    <2>1. x[3] # f /\ fd' = fd
      BY <1>1, <1>8 DEF MapsData
    <2>2. data' = [data EXCEPT ![x[3]][x[4]] = data[e][x[2]]]
      BY <1>8, Zenon DEF MapsData
    <2>3. PICK v : v = data[e][x[2]]
      OBVIOUS
    <2>4. data' = [data EXCEPT ![x[3]][x[4]] = v]
      BY <2>2, <2>3, Zenon
    <2> HIDE DEF x
    <2> QED BY <1>2, <2>1, <2>4
  <1>9. CASE Dies(e)
    BY <1>2, <1>9 DEF Dies
  <1> QED BY <1>3, <1>4, <1>5, <1>6, <1>7, <1>8, <1>9 DEF Effect

LEMMA StatusKept ==
  ASSUME CodeInv, NEW e \in Env, Effect(e), NEW f \in Env, f # e
  PROVE  /\ status[f] = "RUNNABLE" => status'[f] = "RUNNABLE" \/ code[e][1] = <<"start", f>>
         /\ status[f] = "NOT_RUNNABLE" => status'[f] = "NOT_RUNNABLE" \/ code[e][1] = <<"start", f>>
         /\ status[f] = "FREE" => status'[f] \in {"FREE", "NOT_RUNNABLE"} \/ code[e][1] = <<"start", f>>
  <1> DEFINE x == code[e][1]
  <1>1. status \in [Env -> {"FREE", "RUNNABLE", "NOT_RUNNABLE"}]
    BY DEF CodeInv, MapsOK
  <1>2. CASE status' = status
    BY <1>2
  <1>3. CASE Forks(e)
    BY <1>1, <1>3 DEF Forks
  <1>4. CASE StartsChild(e)
    <2>1. x = <<"start", x[2]>>
      BY <1>4, First, CallShapes DEF StartsChild, CodeInv, Effect
    <2> QED BY <1>1, <1>4, <2>1 DEF StartsChild
  <1>5. CASE Blocks(e) \/ Dies(e)
    BY <1>1, <1>5 DEF Blocks, Dies
  <1> QED BY <1>2, <1>3, <1>4, <1>5 DEF Effect, Quiet, Makes, UnmapsFd, UnmapsData, MapsFd, MapsData

\* A child that is started was not running, and only its parent starts it.
LEMMA StartsOwn ==
  ASSUME CodeInv, NEW e \in Env, code[e] # <<>>, NEW f, code[e][1] = <<"start", f>>
  PROVE  /\ status[f] = "NOT_RUNNABLE" /\ f # e
         /\ \A g \in Env : \A n \in 1..Len(code[g]) : code[g][n] = <<"start", f>> => g = e
  <1>1. 1 \in 1..Len(code[e]) /\ code[e][1][1] = "start" /\ code[e][1][2] = f
    BY First DEF CodeInv
  <1>2. WfSeq(e, code[e])
    BY CodeOf
  <1>3. status[f] = "NOT_RUNNABLE" /\ f # e
    BY <1>1, <1>2 DEF WfSeq, Starts
  <1> QED BY <1>1, <1>3 DEF CodeInv, OneParent

LEMMA NoSysWfNow ==
  ASSUME NEW e, NEW s, NoSys(s)
  PROVE  WfSeq(e, s)'
  BY DEF NoSys, WfSeq, Order, Final, Unmaps, DupData, DupFd, Starts, Hands, Sys

LEMMA SameWf ==
  ASSUME NEW f \in Env, NEW s \in Seq(AllCalls), WfSeq(f, s), fd'[f] = fd[f], data'[f] = data[f],
         \A n \in 1..Len(s) : s[n][1] = "start" => status'[s[n][2]] = status[s[n][2]]
  PROVE  WfSeq(f, s)'
  <1>1. Order(s) /\ Final(f, s)
    BY DEF WfSeq
  <1>2. Unmaps(f, s)' /\ DupData(f, s)'
    BY DEF WfSeq, Unmaps, DupData
  <1>3. DupFd(f, s)'
    BY Zenon DEF WfSeq, DupFd
  <1>4. Starts(f, s)'
    BY DEF WfSeq, Starts
  <1>5. Hands(f, s)'
    BY Zenon DEF WfSeq, Hands
  <1> QED BY <1>1, <1>2, <1>3, <1>4, <1>5 DEF WfSeq, Order, Final

LEMMA WfNow ==
  ASSUME NEW f, NEW s, s = code'[f], WfSeq(f, s)'
  PROVE  WfSeq(f, code[f])'
  <1>1. Order(code[f])' /\ Final(f, code[f])'
    BY DEF WfSeq, Order, Final
  <1>2. Unmaps(f, code[f])' /\ DupData(f, code[f])' /\ Starts(f, code[f])'
    BY DEF WfSeq, Unmaps, DupData, Starts
  <1>3. DupFd(f, code[f])' /\ Hands(f, code[f])'
    BY Zenon DEF WfSeq, DupFd, Hands
  <1> QED BY <1>1, <1>2, <1>3 DEF WfSeq

\* The programs of the others are in order as they were.
LEMMA OthersWf ==
  ASSUME CodeInv, NEW e \in Env, Effect(e), NEW f \in Env, f # e
  PROVE  WfSeq(f, code[f])'
  <1>1. PICK s : s = code[f]
    OBVIOUS
  <1>2. code'[f] = s /\ s \in Seq(AllCalls) /\ WfSeq(f, s)
    BY <1>1, CodeOf DEF Effect
  <1>3. CASE status[f] # "RUNNABLE"
    <2>1. NoSys(s)
      BY <1>1, <1>3 DEF CodeInv, Still
    <2>2. WfSeq(f, s)'
      BY <2>1, NoSysWfNow
    <2> QED BY <1>2, <2>2, WfNow
  <1>4. CASE status[f] = "RUNNABLE"
    <2>1. fd'[f] = fd[f] /\ data'[f] = data[f]
      BY <1>4, Untouched
    <2>2. ASSUME NEW n \in 1..Len(s), s[n][1] = "start"
          PROVE  status'[s[n][2]] = status[s[n][2]]
      <3>1. s[n] \in AllCalls
        BY <1>2
      <3>2. s[n][2] \in Env /\ s[n] = <<"start", s[n][2]>>
        BY <2>2, <3>1, CallShapes
      <3>3. status[s[n][2]] = "NOT_RUNNABLE"
        BY <1>2, <2>2 DEF WfSeq, Starts
      <3>40. s[n][2] # e
        BY <3>3 DEF Effect
      <3>4. status'[s[n][2]] = "NOT_RUNNABLE" \/ code[e][1] = <<"start", s[n][2]>>
        BY <3>2, <3>3, <3>40, StatusKept
      <3>5. code[e][1] # <<"start", s[n][2]>>
        <4> SUFFICES ASSUME code[e][1] = <<"start", s[n][2]>> PROVE FALSE
          OBVIOUS
        <4>1. \A g \in Env : \A m \in 1..Len(code[g]) : code[g][m] = <<"start", s[n][2]>> => g = e
          BY StartsOwn DEF Effect
        <4> QED BY <1>1, <2>2, <3>2, <4>1
      <3> QED BY <3>3, <3>4, <3>5
    <2>3. WfSeq(f, s)'
      BY <1>2, <2>1, <2>2, SameWf
    <2> QED BY <1>2, <2>3, WfNow
  <1> QED BY <1>3, <1>4

-----------------------------------------------------------------------------
(* The program of the environment that makes the step. *)

\* An environment that runs has the pipe wherever it has one of its Fd pages.
LEMMA RunBacked ==
  ASSUME CodeInv, Backed, NEW e \in Env, status[e] = "RUNNABLE", NEW i \in Fdnum, fd[e][i] \in Ends
  PROVE  data[e][i]
  <1> SUFFICES ASSUME ~data[e][i] PROVE FALSE
    OBVIOUS
  <1>1. PICK w \in Env : w # e /\ \E n \in 1..Len(code[w]) : code[w][n] = <<"map_data", i, e, i>>
    BY Zenon DEF Backed
  <1>2. PICK n \in 1..Len(code[w]) : code[w][n] = <<"map_data", i, e, i>>
    BY <1>1
  <1>3. code[w][n][1] = "map_data" /\ code[w][n][3] = e
    BY <1>2
  <1>4. status[e] = "NOT_RUNNABLE"
    BY <1>1, <1>3, Receives
  <1> QED BY <1>4

LEMMA RestNoSys ==
  ASSUME NEW s \in Seq(AllCalls), s # <<>>, NEW t, Rest(s, t), NoSys(s)
  PROVE  NoSys(t) /\ t \in Seq(AllCalls)
  BY RestAt DEF NoSys

LEMMA InsteadNoSys ==
  ASSUME NEW s \in Seq(AllCalls), s # <<>>, NEW a \in Seq(AllCalls), NEW t, Instead(s, a, t), NoSys(s), NoSys(a)
  PROVE  NoSys(t) /\ t \in Seq(AllCalls)
  <1>1. /\ t \in Seq(AllCalls) /\ Len(s) \in Nat \ {0} /\ Len(a) \in Nat
        /\ Len(t) = Len(a) + (Len(s) - 1)
        /\ \A n \in 1..Len(a) : t[n] = a[n]
        /\ \A n \in Len(a) + 1..Len(t) : (n - Len(a)) + 1 \in 2..Len(s) /\ t[n] = s[(n - Len(a)) + 1]
    BY InsteadAt
  <1>2. ASSUME NEW n \in 1..Len(t) PROVE t[n][1] \notin Sys
    <2>1. CASE n \in 1..Len(a)
      BY <1>1, <2>1 DEF NoSys
    <2>2. CASE n \in Len(a) + 1..Len(t)
      <3>1. (n - Len(a)) + 1 \in 1..Len(s) /\ t[n] = s[(n - Len(a)) + 1]
        BY <1>1, <2>2
      <3> QED BY <3>1 DEF NoSys
    <2> QED BY <1>1, <2>1, <2>2
  <1> QED BY <1>1, <1>2 DEF NoSys

\* After the last system call of dup and fork no other is left.
LEMMA FinalRest ==
  ASSUME NEW e, NEW s \in Seq(AllCalls), s # <<>>, WfSeq(e, s), NEW t, Rest(s, t),
         s[1][1] = "start" \/ (s[1][1] = "map_fd" /\ s[1][3] = e)
  PROVE  NoSys(t) /\ t \in Seq(AllCalls)
  <1>1. /\ t \in Seq(AllCalls) /\ Len(s) \in Nat \ {0} /\ Len(t) = Len(s) - 1
        /\ \A n \in 1..Len(t) : n + 1 \in 1..Len(s) /\ t[n] = s[n + 1]
    BY RestAt
  <1>2. 1 \in 1..Len(s) /\ \A n \in 1..Len(t) : n + 1 \in 1 + 1..Len(s)
    BY <1>1
  <1>3. \A m \in 1 + 1..Len(s) : s[m][1] \notin Sys
    BY <1>2 DEF WfSeq, Final
  <1> QED BY <1>1, <1>2, <1>3 DEF NoSys

LEMMA OneMoreDup ==
  ASSUME NEW s \in Seq(AllCalls), NEW x \in AllCalls, x[1] \notin Sys, NoSys(s), NEW t, t = <<x>> \o s
  PROVE  /\ NoSys(t) /\ t \in Seq(AllCalls) /\ Len(t) = Len(s) + 1 /\ t[1] = x
         /\ \A n \in 2..Len(t) : n - 1 \in 1..Len(s) /\ t[n] = s[n - 1]
  <1>1. PICK d : d = <<x>>
    OBVIOUS
  <1>2. d \in Seq(AllCalls) /\ Len(d) = 1 /\ d[1] = x
    <2> HIDE DEF AllCalls
    <2> QED BY <1>1
  <1>3. /\ t \in Seq(AllCalls) /\ Len(t) = Len(d) + Len(s) /\ Len(s) \in Nat
        /\ \A n \in 1..Len(d) : t[n] = d[n]
        /\ \A n \in Len(d) + 1..Len(d) + Len(s) : t[n] = s[n - Len(d)]
    <2>1. t = d \o s /\ s \in Seq(AllCalls)
      BY <1>1
    <2> QED BY ONLY <1>2, <2>1, ConcatAt, Zenon
  <1>4. Len(t) = Len(s) + 1 /\ t[1] = x
    BY <1>2, <1>3
  <1>5. \A n \in 2..Len(t) : n - 1 \in 1..Len(s) /\ t[n] = s[n - 1]
    BY <1>2, <1>3
  <1>6. \A n \in 1..Len(t) : n = 1 \/ n \in 2..Len(t)
    BY <1>3, <1>4
  <1> QED BY <1>3, <1>4, <1>5, <1>6 DEF NoSys

LEMMA QuietWf ==
  ASSUME CodeInv, Backed, NEW e \in Env, status[e] = "RUNNABLE",
         NEW s \in Seq(AllCalls), s # <<>>, WfSeq(e, s), NEW t,
         fd' = fd, data' = data, status' = status,
         s[1][1] \notin Sys \union {"fork", "block", "destroy"}, Alike(e, s, t)
  PROVE  WfSeq(e, t)' /\ t \in Seq(AllCalls)
  <1>0. s[1] \in AllCalls /\ Len(s) \in Nat \ {0}
    <2> HIDE DEF AllCalls
    <2> QED OBVIOUS
  <1>1. ASSUME NEW q \in Seq(AllCalls), WfSeq(e, q) PROVE WfSeq(e, q)'
    BY <1>1, SameWf
  <1>2. s[1][1] # "close" => NoSys(s)
    BY HeadPlain
  <1>3. CASE t = s
    BY <1>1, <1>3
  <1>4. CASE Rest(s, t) /\ (s[1][1] = "close" => fd[e][s[1][2]] = None)
    <2>1. t \in Seq(AllCalls)
      BY <1>4, RestAt
    <2>2. s[1][1] \notin {"map_fd", "map_data", "unmap_fd"}
      BY DEF Sys
    <2>3. WfSeq(e, t)'
      BY <1>4, <2>2, TailWf, NoneIsNoEnd
    <2> QED BY <2>1, <2>3
  <1>5. CASE s[1][1] = "close" /\ \E k : Instead(s, CloseCalls(k, s[1][2]), t)
    <2>1. WfSeq(e, t) /\ t \in Seq(AllCalls)
      BY <1>5, CloseWf
    <2> QED BY <1>1, <2>1
  <1>6. CASE s[1][1] = "dup" /\ Instead(s, <<<<"close", s[1][3]>>>> \o DupCalls(e, s[1][2], s[1][3]), t)
    <2>1. s[1][2] \in Fdnum /\ s[1][3] \in Fdnum
      BY <1>0, <1>6, CallShapes
    <2>2. PICK o \in Fdnum, i \in Fdnum : o = s[1][2] /\ i = s[1][3]
      BY <2>1
    <2>3. fd[e][o] \in Ends => data[e][o]
      BY RunBacked
    <2>4. NoSys(s)
      BY <1>2, <1>6
    <2>5. Instead(s, <<<<"close", i>>>> \o DupCalls(e, o, i), t)
      BY <1>6, <2>2
    <2>6. WfSeq(e, t) /\ t \in Seq(AllCalls)
      BY <2>3, <2>4, <2>5, DupWf
    <2> QED BY <1>1, <2>6
  <1>7. CASE /\ s[1][1] \notin {"close", "pipe"}
             /\ \E a \in Seq(AllCalls) : NoSys(a) /\ ~Uses(a, "pipe") /\ Instead(s, a, t)
    <2>1. PICK a \in Seq(AllCalls) : NoSys(a) /\ Instead(s, a, t)
      BY <1>7
    <2>2. NoSys(t) /\ t \in Seq(AllCalls)
      BY <1>2, <1>7, <2>1, InsteadNoSys
    <2> QED BY <2>2, NoSysWfNow
  <1>8. CASE s[1][1] = "dup_while" /\ t = <<<<"dup", s[1][2], s[1][3]>>>> \o s
    <2>1. s[1][2] \in Fdnum /\ s[1][3] \in Fdnum
      BY <1>0, <1>8, CallShapes
    <2>2. <<"dup", s[1][2], s[1][3]>> \in AllCalls
      BY <2>1 DEF AllCalls, Calls
    <2>3. PICK x \in AllCalls : x = <<"dup", s[1][2], s[1][3]>>
      BY <2>2
    <2>4. x[1] \notin Sys /\ t = <<x>> \o s /\ NoSys(s)
      BY <1>2, <1>8, <2>3 DEF Sys
    <2>5. NoSys(t) /\ t \in Seq(AllCalls)
      BY <2>4, OneMoreDup
    <2> QED BY <2>5, NoSysWfNow
  <1>9. CASE t = <<<<"exit">>>>
    <2>1. PICK x : x = <<"exit">>
      OBVIOUS
    <2>2. x \in AllCalls /\ x[1] \notin Sys /\ x[1] # "pipe"
      BY <2>1 DEF AllCalls, Calls, Sys
    <2>3. NoSys(t) /\ t \in Seq(AllCalls)
      BY <1>9, <2>1, <2>2, NoSysOne
    <2> QED BY <2>3, NoSysWfNow
  <1> QED BY <1>3, <1>4, <1>5, <1>6, <1>7, <1>8, <1>9 DEF Alike

\* Unmapping, mapping and handing down: the rest of the program is in order.
LEMMA CallWf ==
  ASSUME CodeInv, Backed, NEW e \in Env, status[e] = "RUNNABLE", code[e] # <<>>,
         UnmapsFd(e) \/ UnmapsData(e) \/ MapsFd(e) \/ MapsData(e)
  PROVE  WfSeq(e, code[e])' /\ code'[e] \in Seq(AllCalls)
  <1>1. PICK s : s = code[e]
    OBVIOUS
  <1>2. PICK t : t = code'[e]
    OBVIOUS
  <1>3. s \in Seq(AllCalls) /\ s # <<>> /\ WfSeq(e, s)
    BY <1>1, CodeOf
  <1>4. s[1] \in AllCalls /\ Len(s) \in Nat \ {0} /\ 1 \in 1..Len(s)
    BY <1>1, First DEF CodeInv
  <1>5. Rest(s, t) /\ status' = status
    BY <1>1, <1>2 DEF UnmapsFd, UnmapsData, MapsFd, MapsData
  <1>6. t \in Seq(AllCalls)
    BY <1>3, <1>5, RestAt
  <1>7. fd \in [Env -> [Fdnum -> FdPage \union {None}]] /\ data \in [Env -> [Fdnum -> BOOLEAN]]
    BY DEF CodeInv, MapsOK
  <1>8. fd[e] \in [Fdnum -> FdPage \union {None}] /\ data[e] \in [Fdnum -> BOOLEAN]
    BY <1>7
  <1>9. CASE UnmapsFd(e)
    <2>1. s[1][1] = "unmap_fd" /\ fd' = [fd EXCEPT ![e][s[1][2]] = None]
      BY <1>1, <1>9 DEF UnmapsFd
    <2>2. s[1][2] \in Fdnum
      BY <1>4, <2>1, CallShapes
    <2>3. fd'[e] = [fd[e] EXCEPT ![s[1][2]] = None]
      BY <1>7, <2>1
    <2>4. fd'[e][s[1][2]] = None /\ \A i \in Fdnum : fd'[e][i] = fd[e][i] \/ fd'[e][i] = None
      BY <1>8, <2>2, <2>3
    <2>5. s[1][1] \notin {"map_fd", "map_data", "close"}
      BY <2>1
    <2>6. WfSeq(e, t)'
      BY <1>3, <1>5, <2>4, <2>5, TailWf, NoneIsNoEnd
    <2> QED BY <1>2, <1>6, <2>6, WfNow
  <1>10. CASE UnmapsData(e)
    <2>1. s[1][1] = "unmap_data" /\ fd' = fd
      BY <1>1, <1>10 DEF UnmapsData
    <2>2. s[1][1] \notin {"map_fd", "map_data", "close", "unmap_fd"}
      BY <2>1
    <2>3. WfSeq(e, t)'
      BY <1>3, <1>5, <2>1, <2>2, TailWf, NoneIsNoEnd
    <2> QED BY <1>2, <1>6, <2>3, WfNow
  <1>11. CASE MapsFd(e)
    <2>1. s[1][1] = "map_fd" /\ fd' = [fd EXCEPT ![s[1][3]][s[1][4]] = fd[e][s[1][2]]] /\ data' = data
      BY <1>1, <1>11 DEF MapsFd
    <2>2. CASE s[1][3] = e
      <3>1. NoSys(t)
        BY <1>3, <1>5, <2>1, <2>2, FinalRest
      <3>2. WfSeq(e, t)'
        BY <3>1, NoSysWfNow
      <3> QED BY <1>2, <1>6, <3>2, WfNow
    <2>3. CASE s[1][3] # e
      <3>1. fd'[e] = fd[e] /\ data'[e] = data[e]
        BY <1>7, <2>1, <2>3
      <3>2. s[1][1] \notin {"map_data", "close", "unmap_fd"}
        BY <2>1
      <3>3. WfSeq(e, t)'
        BY <1>3, <1>5, <2>3, <3>1, <3>2, TailWf, NoneIsNoEnd
      <3> QED BY <1>2, <1>6, <3>3, WfNow
    <2> QED BY <2>2, <2>3
  <1>12. CASE MapsData(e)
    <2>1. s[1][1] = "map_data" /\ fd' = fd
      BY <1>1, <1>12 DEF MapsData
    <2>2. PICK v : v = data[e][s[1][2]]
      OBVIOUS
    <2>3. data' = [data EXCEPT ![s[1][3]][s[1][4]] = v]
      BY <1>1, <1>12, <2>2, Zenon DEF MapsData
    <2>4. s[1][2] \in Fdnum /\ s[1][3] \in Env /\ s[1][4] \in Fdnum
      BY <1>4, <2>1, CallShapes
    <2>5. s[1][1] \notin {"map_fd", "close", "unmap_fd"}
      BY <2>1
    <2>6. s[1][3] # e => fd'[e] = fd[e] /\ data'[e] = data[e]
      BY <1>7, <2>1, <2>3
    <2>7. s[1][3] = e => (fd[e][s[1][2]] \in Ends => data'[e][s[1][4]])
      <3>1. fd[e][s[1][2]] \in Ends => v
        BY <2>2, <2>4, RunBacked, Zenon
      <3>2. s[1][3] = e => data'[e] = [data[e] EXCEPT ![s[1][4]] = v]
        BY <1>7, <2>3
      <3>3. s[1][3] = e => data'[e][s[1][4]] = v
        BY <1>8, <2>4, <3>2
      <3> QED BY <3>1, <3>3, Zenon
    <2>8. WfSeq(e, t)'
      BY <1>3, <1>5, <2>1, <2>5, <2>6, <2>7, TailWf, NoneIsNoEnd
    <2> QED BY <1>2, <1>6, <2>8, WfNow
  <1> QED BY <1>9, <1>10, <1>11, <1>12

LEMMA OwnWf ==
  ASSUME CodeInv, Backed, NEW e \in Env, Effect(e)
  PROVE  WfSeq(e, code[e])' /\ code'[e] \in Seq(AllCalls)
  <1>1. PICK s : s = code[e]
    OBVIOUS
  <1>2. PICK t : t = code'[e]
    OBVIOUS
  <1>3. s \in Seq(AllCalls) /\ s # <<>> /\ WfSeq(e, s) /\ status[e] = "RUNNABLE"
    BY <1>1, CodeOf DEF Effect
  <1>4. s[1] \in AllCalls /\ Len(s) \in Nat \ {0} /\ 1 \in 1..Len(s)
    BY <1>1, First DEF CodeInv, Effect
  <1>5. ASSUME WfSeq(e, t)', t \in Seq(AllCalls) PROVE WfSeq(e, code[e])' /\ code'[e] \in Seq(AllCalls)
    BY <1>2, <1>5, WfNow
  <1>6. CASE Quiet(e)
    <2>1. fd' = fd /\ data' = data /\ status' = status /\ s[1][1] \notin Sys \union {"fork", "block", "destroy"}
          /\ Alike(e, s, t)
      BY <1>1, <1>2, <1>6 DEF Quiet
    <2>2. WfSeq(e, t)' /\ t \in Seq(AllCalls)
      BY <1>3, <2>1, QuietWf
    <2> QED BY <1>5, <2>2
  <1>7. CASE Makes(e) \/ Blocks(e)
    <2>1. s[1][1] \in {"pipe", "block"} /\ Rest(s, t)
      BY <1>1, <1>2, <1>7 DEF Makes, Blocks
    <2>2. s[1][1] \notin Sys \union {"close"}
      BY <2>1 DEF Sys
    <2>3. NoSys(s)
      BY <1>3, <2>2, HeadPlain
    <2>4. NoSys(t) /\ t \in Seq(AllCalls)
      BY <1>3, <2>1, <2>3, RestNoSys
    <2> QED BY <1>5, <2>4, NoSysWfNow
  <1>8. CASE Forks(e)
    <2>1. PICK c : c = s[1][2]
      OBVIOUS
    <2>2. /\ s[1][1] = "fork" /\ status[c] = "FREE" /\ status' = [status EXCEPT ![c] = "NOT_RUNNABLE"]
          /\ fd' = fd /\ data' = data /\ Instead(s, Shared(e, c) \o <<<<"start", c>>>>, t)
      BY <1>1, <1>2, <1>8, <2>1 DEF Forks
    <2>3. c \in Env /\ c # e
      BY <1>3, <1>4, <2>1, <2>2, CallShapes
    <2>4. status'[c] = "NOT_RUNNABLE" /\ MapsOK
      BY <2>2, <2>3 DEF CodeInv, MapsOK
    <2>5. s[1][1] \notin Sys \union {"close"}
      BY <2>2 DEF Sys
    <2>6. NoSys(s)
      BY <1>3, <2>5, HeadPlain
    <2>7. \A i \in Fdnum : fd[e][i] \in Ends => data[e][i]
      BY <1>3, RunBacked
    <2>8. fd'[e] = fd[e] /\ data'[e] = data[e]
      BY <2>2
    <2>9. WfSeq(e, t)' /\ t \in Seq(AllCalls)
      BY <1>3, <2>2, <2>3, <2>4, <2>6, <2>7, <2>8, ForkWf
    <2> QED BY <1>5, <2>9
  <1>9. CASE UnmapsFd(e) \/ UnmapsData(e) \/ MapsFd(e) \/ MapsData(e)
    BY <1>1, <1>3, <1>9, CallWf
  <1>10. CASE StartsChild(e)
    <2>1. s[1][1] = "start" /\ Rest(s, t)
      BY <1>1, <1>2, <1>10 DEF StartsChild
    <2>2. NoSys(t) /\ t \in Seq(AllCalls)
      BY <1>3, <2>1, FinalRest
    <2> QED BY <1>5, <2>2, NoSysWfNow
  <1>11. CASE Dies(e)
    <2>1. t = <<>>
      BY <1>2, <1>11 DEF Dies
    <2>2. t \in Seq(AllCalls) /\ NoSys(t)
      <3> HIDE DEF AllCalls
      <3> QED BY <2>1 DEF NoSys
    <2> QED BY <1>5, <2>2, NoSysWfNow
  <1> QED BY <1>6, <1>7, <1>8, <1>9, <1>10, <1>11 DEF Effect

-----------------------------------------------------------------------------
(* Calls of pipe, and children to start, come from the program or from fork. *)

New(a) == \A n \in 1..Len(a) : a[n][1] \notin {"pipe", "start"}

LEMMA CloseNew ==
  ASSUME NEW k, NEW i \in Fdnum
  PROVE  CloseCalls(k, i) \in Seq(AllCalls) /\ New(CloseCalls(k, i))
  <1> DEFINE x == <<"unmap_fd", i>>
             y == <<"unmap_data", i>>
  <1>1. x \in AllCalls /\ y \in AllCalls /\ x[1] = "unmap_fd" /\ y[1] = "unmap_data"
    BY DEF AllCalls
  <1>2. CloseCalls(k, i) = IF k = "cons" THEN <<x>> ELSE <<x, y, x>>
    BY DEF CloseCalls
  <1> HIDE DEF x, y
  <1>3. <<x>> \in Seq(AllCalls) /\ Len(<<x>>) = 1 /\ <<x>>[1] = x
    BY <1>1
  <1>4. <<x, y, x>> \in Seq(AllCalls) /\ Len(<<x, y, x>>) = 3
        /\ \A n \in 1..3 : <<x, y, x>>[n] = x \/ <<x, y, x>>[n] = y
    BY <1>1
  <1>5. New(<<x>>)
    <2>1. \A n \in 1..1 : n = 1
      OBVIOUS
    <2> QED BY <1>1, <1>3, <2>1 DEF New
  <1>6. New(<<x, y, x>>)
    <2> DEFINE z == <<x, y, x>>
    <2>1. Len(z) = 3 /\ \A n \in 1..3 : z[n] = x \/ z[n] = y
      BY <1>4
    <2> HIDE DEF z
    <2>2. New(z)
      BY <1>1, <2>1 DEF New
    <2> QED BY <2>2 DEF z
  <1> QED BY <1>2, <1>3, <1>4, <1>5, <1>6

LEMMA NewConcat ==
  ASSUME NEW a \in Seq(AllCalls), NEW b \in Seq(AllCalls), New(a), New(b)
  PROVE  a \o b \in Seq(AllCalls) /\ New(a \o b)
  <1>1. PICK c : c = a \o b
    OBVIOUS
  <1>2. /\ c \in Seq(AllCalls) /\ Len(c) = Len(a) + Len(b) /\ Len(a) \in Nat /\ Len(b) \in Nat
        /\ \A n \in 1..Len(a) : c[n] = a[n]
        /\ \A n \in Len(a) + 1..Len(a) + Len(b) : c[n] = b[n - Len(a)]
    <2>1. a \in Seq(AllCalls) /\ b \in Seq(AllCalls)
      OBVIOUS
    <2> QED BY ONLY <1>1, <2>1, ConcatAt, Zenon
  <1>3. ASSUME NEW n \in 1..Len(c) PROVE c[n][1] \notin {"pipe", "start"}
    <2>1. n \in 1..Len(a) \/ (n \in Len(a) + 1..Len(a) + Len(b) /\ n - Len(a) \in 1..Len(b))
      BY <1>2
    <2> QED BY <1>2, <2>1 DEF New
  <1>4. New(c)
    BY <1>3 DEF New
  <1> QED BY <1>1, <1>2, <1>4

LEMMA NewOne ==
  ASSUME NEW x \in AllCalls, x[1] \notin {"pipe", "start"}
  PROVE  <<x>> \in Seq(AllCalls) /\ New(<<x>>)
  <1>1. <<x>> \in Seq(AllCalls) /\ Len(<<x>>) = 1 /\ <<x>>[1] = x
    <2> HIDE DEF AllCalls
    <2> QED OBVIOUS
  <1>2. \A n \in 1..1 : n = 1
    OBVIOUS
  <1> QED BY <1>1, <1>2 DEF New

LEMMA DupNew ==
  ASSUME NEW e \in Env, NEW o \in Fdnum, NEW i \in Fdnum
  PROVE  /\ <<<<"close", i>>>> \o DupCalls(e, o, i) \in Seq(AllCalls)
         /\ New(<<<<"close", i>>>> \o DupCalls(e, o, i))
  <1> DEFINE c == <<"close", i>>
             x == <<"map_data", o, e, i>>
             y == <<"map_fd", o, e, i>>
  <1>1. c \in AllCalls /\ x \in AllCalls /\ y \in AllCalls
        /\ c[1] = "close" /\ x[1] = "map_data" /\ y[1] = "map_fd"
    BY DEF AllCalls, Calls
  <1>2. DupCalls(e, o, i) = (IF data[e][o] THEN <<x>> ELSE <<>>) \o <<y>>
    BY Zenon DEF DupCalls
  <1> HIDE DEF c, x, y
  <1>3. <<c>> \in Seq(AllCalls) /\ New(<<c>>) /\ <<x>> \in Seq(AllCalls) /\ New(<<x>>)
        /\ <<y>> \in Seq(AllCalls) /\ New(<<y>>)
    BY <1>1, NewOne
  <1>4. <<>> \in Seq(AllCalls) /\ New(<<>>)
    <2> HIDE DEF AllCalls
    <2> QED BY DEF New
  <1>5. PICK b : b = IF data[e][o] THEN <<x>> ELSE <<>>
    OBVIOUS
  <1>6. b \in Seq(AllCalls) /\ New(b)
    BY <1>3, <1>4, <1>5, Zenon
  <1>7. DupCalls(e, o, i) = b \o <<y>>
    BY <1>2, <1>5, Zenon
  <1>8. DupCalls(e, o, i) \in Seq(AllCalls) /\ New(DupCalls(e, o, i))
    BY <1>3, <1>6, <1>7, NewConcat
  <1>9. <<c>> \o DupCalls(e, o, i) \in Seq(AllCalls) /\ New(<<c>> \o DupCalls(e, o, i))
    BY <1>3, <1>8, NewConcat
  <1> QED BY <1>9 DEF c

\* A call at n was d places away before, or is y.
Shifted(s, t, d, y) ==
  \A n \in 1..Len(t) : t[n][1] \in {"pipe", "start"} =>
    (n + d \in 1..Len(s) /\ t[n] = s[n + d]) \/ t[n] = y

LEMMA InsteadShifted ==
  ASSUME NEW s \in Seq(AllCalls), s # <<>>, NEW a \in Seq(AllCalls), NEW t, Instead(s, a, t), NEW y,
         \A n \in 1..Len(a) : a[n][1] \in {"pipe", "start"} => a[n] = y
  PROVE  \E d \in Int : Shifted(s, t, d, y)
  <1>1. /\ Len(s) \in Nat \ {0} /\ Len(a) \in Nat /\ Len(t) = Len(a) + (Len(s) - 1)
        /\ \A n \in 1..Len(a) : t[n] = a[n]
        /\ \A n \in Len(a) + 1..Len(t) : (n - Len(a)) + 1 \in 2..Len(s) /\ t[n] = s[(n - Len(a)) + 1]
    BY InsteadAt
  <1>2. PICK d : d = 1 - Len(a)
    OBVIOUS
  <1>3. d \in Int /\ \A n \in 1..Len(t) : (n - Len(a)) + 1 = n + d
    BY <1>1, <1>2
  <1>4. ASSUME NEW n \in 1..Len(t), t[n][1] \in {"pipe", "start"}
        PROVE  (n + d \in 1..Len(s) /\ t[n] = s[n + d]) \/ t[n] = y
    <2>1. CASE n \in 1..Len(a)
      BY <1>1, <1>4, <2>1
    <2>2. CASE n \in Len(a) + 1..Len(t)
      <3>1. (n - Len(a)) + 1 \in 1..Len(s) /\ t[n] = s[(n - Len(a)) + 1]
        BY <1>1, <2>2
      <3> QED BY <1>3, <3>1
    <2> QED BY <1>1, <2>1, <2>2
  <1> QED BY <1>3, <1>4 DEF Shifted

LEMMA RestShifted ==
  ASSUME NEW s \in Seq(AllCalls), s # <<>>, NEW t, Rest(s, t), NEW y
  PROVE  Shifted(s, t, 1, y)
  BY RestAt DEF Shifted

LEMMA Inherits ==
  ASSUME CodeInv, NEW e \in Env, Effect(e)
  PROVE  /\ \E d \in Int : Shifted(code[e], code'[e], d, <<"start", code[e][1][2]>>)
         /\ ~Forks(e) => \E d \in Int : Shifted(code[e], code'[e], d, <<>>)
  <1>1. PICK s : s = code[e]
    OBVIOUS
  <1>2. PICK t : t = code'[e]
    OBVIOUS
  <1>3. s \in Seq(AllCalls) /\ s # <<>>
    BY <1>1, CodeOf DEF Effect
  <1>4. s[1] \in AllCalls /\ Len(s) \in Nat \ {0} /\ 1 \in 1..Len(s)
    BY <1>1, First DEF CodeInv, Effect
  <1>5. SUFFICES ASSUME NEW y, y # <<>> => y = <<"start", s[1][2]>>, Forks(e) => y = <<"start", s[1][2]>>
                 PROVE  \E d \in Int : Shifted(s, t, d, y)
    <2>1. <<"start", s[1][2]>> # <<>>
      OBVIOUS
    <2> QED BY <1>1, <1>2
  <1>6. CASE Quiet(e)
    <2>1. Alike(e, s, t)
      BY <1>1, <1>2, <1>6 DEF Quiet
    <2>2. CASE t = s
      <3>1. Shifted(s, t, 0, y)
        BY <1>4, <2>2 DEF Shifted
      <3> QED BY <3>1
    <2>3. CASE Rest(s, t)
      BY <1>3, <2>3, RestShifted
    <2>4. CASE s[1][1] = "close" /\ \E k : Instead(s, CloseCalls(k, s[1][2]), t)
      <3>1. s[1][2] \in Fdnum
        BY <1>4, <2>4, CallShapes
      <3>2. PICK a : Instead(s, a, t) /\ a \in Seq(AllCalls) /\ New(a)
        BY <2>4, <3>1, CloseNew
      <3> QED BY <1>3, <3>2, InsteadShifted DEF New
    <2>5. CASE s[1][1] = "dup" /\ Instead(s, <<<<"close", s[1][3]>>>> \o DupCalls(e, s[1][2], s[1][3]), t)
      <3>1. s[1][2] \in Fdnum /\ s[1][3] \in Fdnum
        BY <1>4, <2>5, CallShapes
      <3>2. PICK a : Instead(s, a, t) /\ a \in Seq(AllCalls) /\ New(a)
        BY <2>5, <3>1, DupNew
      <3> QED BY <1>3, <3>2, InsteadShifted DEF New
    <2>6. CASE \E a \in Seq(AllCalls) : NoSys(a) /\ ~Uses(a, "pipe") /\ Instead(s, a, t)
      <3>1. PICK a \in Seq(AllCalls) : NoSys(a) /\ ~Uses(a, "pipe") /\ Instead(s, a, t)
        BY <2>6
      <3>2. \A n \in 1..Len(a) : a[n] \in ToSet(a)
        BY DEF ToSet
      <3>3. \A n \in 1..Len(a) : a[n][1] \notin {"pipe", "start"}
        BY <3>1, <3>2 DEF NoSys, Sys, Uses
      <3> QED BY <1>3, <3>1, <3>3, InsteadShifted
    <2>7. CASE s[1][1] = "dup_while" /\ t = <<<<"dup", s[1][2], s[1][3]>>>> \o s
      <3>1. s[1][2] \in Fdnum /\ s[1][3] \in Fdnum
        BY <1>4, <2>7, CallShapes
      <3>2. <<"dup", s[1][2], s[1][3]>> \in AllCalls
        BY <3>1 DEF AllCalls, Calls
      <3>3. PICK x \in AllCalls : x = <<"dup", s[1][2], s[1][3]>>
        BY <3>2
      <3>4. s[1][1] \notin Sys \union {"close"}
        BY <2>7 DEF Sys
      <3>5. x[1] \notin Sys /\ x[1] \notin {"pipe", "start"} /\ t = <<x>> \o s /\ NoSys(s)
        BY <1>1, <1>3, <2>7, <3>3, <3>4, HeadPlain, CodeOf DEF Sys
      <3>6. Len(t) = Len(s) + 1 /\ t[1] = x
            /\ \A n \in 2..Len(t) : n - 1 \in 1..Len(s) /\ t[n] = s[n - 1]
        BY <1>3, <3>5, OneMoreDup
      <3>7. \A n \in 1..Len(t) : n = 1 \/ (n \in 2..Len(t) /\ n + (-1) = n - 1)
        BY <1>4, <3>6
      <3>8. Shifted(s, t, -1, y)
        BY <3>5, <3>6, <3>7 DEF Shifted
      <3> QED BY <3>8
    <2>8. CASE t = <<<<"exit">>>>
      <3>1. PICK x : x = <<"exit">>
        OBVIOUS
      <3>2. x \in AllCalls /\ x[1] \notin {"pipe", "start"}
        BY <3>1 DEF AllCalls, Calls
      <3>3. New(t)
        BY <2>8, <3>1, <3>2, NewOne
      <3>4. Shifted(s, t, 0, y)
        BY <3>3 DEF Shifted, New
      <3> QED BY <3>4
    <2> QED BY <2>1, <2>2, <2>3, <2>4, <2>5, <2>6, <2>7, <2>8 DEF Alike
  <1>7. CASE Forks(e)
    <2>1. PICK c : c = s[1][2]
      OBVIOUS
    <2>2. PICK a : a = Shared(e, c) \o <<<<"start", c>>>>
      OBVIOUS
    <2>3. s[1][1] = "fork" /\ Instead(s, a, t)
      BY <1>1, <1>2, <1>7, <2>1, <2>2 DEF Forks
    <2>4. c \in Env /\ HandsDown(e, c, a) /\ MapsOK
      BY <1>4, <2>1, <2>2, <2>3, CallShapes DEF HandsDown, CodeInv
    <2>5. HandsAll(e, c, a)
      BY <2>4, SharedAt
    <2>6. a \in Seq(AllCalls) /\ Len(a) \in Nat \ {0} /\ a[Len(a)] = <<"start", c>>
      BY <2>5, Zenon DEF HandsAll
    <2>7. \A n \in 1..Len(a) - 1 : a[n][1] \notin {"pipe", "start"}
      <3> TAKE n \in 1..Len(a) - 1
      <3>1. PICK i \in Fdnum : a[n] = <<"map_fd", i, c, i>> \/ a[n] = <<"map_data", i, c, i>>
        BY <2>5, Zenon DEF HandsAll
      <3> QED BY <3>1
    <2>8. \A n \in 1..Len(a) : n \in 1..Len(a) - 1 \/ n = Len(a)
      BY <2>6
    <2>9. y = <<"start", c>>
      BY <1>5, <1>7, <2>1
    <2>10. \A n \in 1..Len(a) : a[n][1] \in {"pipe", "start"} => a[n] = y
      BY <2>6, <2>7, <2>8, <2>9
    <2> QED BY <1>3, <2>3, <2>6, <2>10, InsteadShifted
  <1>8. CASE Makes(e) \/ UnmapsFd(e) \/ UnmapsData(e) \/ MapsFd(e) \/ MapsData(e) \/ StartsChild(e) \/ Blocks(e)
    <2>1. Rest(s, t)
      BY <1>1, <1>2, <1>8 DEF Makes, UnmapsFd, UnmapsData, MapsFd, MapsData, StartsChild, Blocks
    <2> QED BY <1>3, <2>1, RestShifted
  <1>9. CASE Dies(e)
    <2>1. t = <<>>
      BY <1>2, <1>9 DEF Dies
    <2>2. Shifted(s, t, 0, y)
      BY <2>1 DEF Shifted
    <2> QED BY <2>2
  <1> QED BY <1>6, <1>7, <1>8, <1>9 DEF Effect

-----------------------------------------------------------------------------
(* The calls of the programs stay in order. *)

LEMMA OwnStatus ==
  ASSUME CodeInv, NEW e \in Env, Effect(e)
  PROVE  status'[e] = "RUNNABLE" \/ Blocks(e) \/ Dies(e)
  <1> DEFINE x == code[e][1]
  <1>1. status \in [Env -> {"FREE", "RUNNABLE", "NOT_RUNNABLE"}] /\ status[e] = "RUNNABLE"
    BY DEF CodeInv, MapsOK, Effect
  <1>2. CASE Forks(e)
    <2>1. status[x[2]] = "FREE" /\ status' = [status EXCEPT ![x[2]] = "NOT_RUNNABLE"]
      BY <1>2 DEF Forks
    <2> QED BY <1>1, <2>1
  <1>3. CASE StartsChild(e)
    BY <1>1, <1>3 DEF StartsChild
  <1>4. CASE status' = status
    BY <1>1, <1>4
  <1> QED BY <1>2, <1>3, <1>4 DEF Effect, Quiet, Makes, UnmapsFd, UnmapsData, MapsFd, MapsData

LEMMA ChildRuns ==
  ASSUME CodeInv, NEW e \in Env, Effect(e), NEW f \in Env, code[e][1] = <<"start", f>>
  PROVE  status'[f] = "RUNNABLE"
  <1>1. code[e][1][1] = "start" /\ code[e][1][2] = f
    OBVIOUS
  <1>2. StartsChild(e)
    BY <1>1 DEF Effect, Quiet, Makes, Forks, UnmapsFd, UnmapsData, MapsFd, MapsData, Blocks, Dies, Sys
  <1>3. status \in [Env -> {"FREE", "RUNNABLE", "NOT_RUNNABLE"}]
    BY DEF CodeInv, MapsOK
  <1> QED BY <1>1, <1>2, <1>3 DEF StartsChild

LEMMA CodeKept ==
  ASSUME CodeInv, Backed, NEW e \in Env, Effect(e)
  PROVE  CodeTyped' /\ CodeWf'
  <1>1. \A f \in Env : WfSeq(f, code[f])'
    BY OthersWf, OwnWf
  <1>2. \A f \in Env : code'[f] \in Seq(AllCalls)
    <2> TAKE f \in Env
    <2>1. CASE f = e
      BY <2>1, OwnWf
    <2>2. CASE f # e
      BY <2>2, CodeOf DEF Effect
    <2> QED BY <2>1, <2>2
  <1>3. code' = [f \in Env |-> code'[f]]
    BY DEF Effect
  <1>4. code' \in [Env -> Seq(AllCalls)]
    <2> HIDE DEF AllCalls
    <2> QED BY <1>2, <1>3
  <1> QED BY <1>1, <1>4 DEF CodeTyped, CodeWf

LEMMA StillKept ==
  ASSUME CodeInv, NEW e \in Env, Effect(e)
  PROVE  Still'
  <1> SUFFICES ASSUME NEW f \in Env, status'[f] # "RUNNABLE" PROVE NoSys(code'[f])
    BY DEF Still, NoSys
  <1>1. CASE f # e
    <2>1. status[f] # "RUNNABLE"
      <3> SUFFICES ASSUME status[f] = "RUNNABLE" PROVE FALSE
        OBVIOUS
      <3>1. code[e][1] = <<"start", f>>
        BY <1>1, StatusKept
      <3> QED BY <3>1, ChildRuns
    <2>2. NoSys(code[f]) /\ code'[f] = code[f]
      BY <1>1, <2>1 DEF CodeInv, Still, Effect
    <2> QED BY <2>2
  <1>2. CASE f = e
    <2>1. PICK s : s = code[e]
      OBVIOUS
    <2>2. PICK t : t = code'[e]
      OBVIOUS
    <2>3. s \in Seq(AllCalls) /\ s # <<>> /\ WfSeq(e, s)
      BY <2>1, CodeOf DEF Effect
    <2>4. CASE Blocks(e)
      <3>1. s[1][1] = "block" /\ Rest(s, t)
        BY <2>1, <2>2, <2>4 DEF Blocks
      <3>2. s[1][1] \notin Sys \union {"close"}
        BY <3>1 DEF Sys
      <3>3. NoSys(s)
        BY <2>3, <3>2, HeadPlain
      <3>4. NoSys(t)
        BY <2>3, <3>1, <3>3, RestNoSys
      <3> QED BY <1>2, <2>2, <3>4
    <2>5. CASE Dies(e)
      <3>1. code'[e] = <<>>
        BY <2>5 DEF Dies
      <3>2. NoSys(<<>>)
        BY DEF NoSys
      <3> QED BY <1>2, <3>1, <3>2
    <2> QED BY <1>2, <2>4, <2>5, OwnStatus
  <1> QED BY <1>1, <1>2

\* A child to start was one before, or is the one that fork has just made.
LEMMA StartOrigin ==
  ASSUME CodeInv, Backed, NEW e \in Env, Effect(e), NEW g \in Env, NEW m \in 1..Len(code'[g]),
         code'[g][m][1] = "start"
  PROVE  \/ \E n \in 1..Len(code[g]) : code[g][n] = code'[g][m]
         \/ g = e /\ Forks(e) /\ code'[g][m] = <<"start", code[e][1][2]>>
  <1>1. CASE g # e
    BY <1>1 DEF Effect
  <1>2. CASE g = e
    <2>1. PICK s : s = code[e]
      OBVIOUS
    <2>2. PICK t : t = code'[e]
      OBVIOUS
    <2>3. PICK y : y = <<"start", code[e][1][2]>>
      OBVIOUS
    <2>4. m \in 1..Len(t) /\ t[m][1] = "start"
      BY <1>2, <2>2
    <2>5. CASE Forks(e)
      <3>1. PICK d \in Int : Shifted(s, t, d, y)
        BY <2>1, <2>2, <2>3, Inherits
      <3>2. (m + d \in 1..Len(s) /\ t[m] = s[m + d]) \/ t[m] = y
        BY <2>4, <3>1 DEF Shifted
      <3> QED BY <1>2, <2>1, <2>2, <2>3, <2>5, <3>2
    <2>6. CASE ~Forks(e)
      <3>1. PICK d \in Int : Shifted(s, t, d, <<>>)
        BY <2>1, <2>2, <2>6, Inherits
      <3>2. (m + d \in 1..Len(s) /\ t[m] = s[m + d]) \/ t[m] = <<>>
        BY <2>4, <3>1 DEF Shifted
      <3>3. t[m] \in AllCalls
        BY <2>2, <2>4, OwnWf
      <3>4. t[m] = <<"start", t[m][2]>>
        BY <2>4, <3>3, CallShapes
      <3>5. t[m] # <<>>
        BY <3>4
      <3> QED BY <1>2, <2>1, <2>2, <3>2, <3>5
    <2> QED BY <2>5, <2>6
  <1> QED BY <1>1, <1>2

LEMMA OneParentKept ==
  ASSUME CodeInv, Backed, NEW e \in Env, Effect(e)
  PROVE  OneParent'
  <1> SUFFICES ASSUME NEW g \in Env, NEW f \in Env, NEW m \in 1..Len(code'[g]), NEW n \in 1..Len(code'[f]),
                      code'[g][m][1] = "start", code'[f][n] = code'[g][m]
               PROVE  g = f
    BY DEF OneParent
  <1>1. PICK x : x = code'[g][m]
    OBVIOUS
  <1> DEFINE Old(h) == \E k \in 1..Len(code[h]) : code[h][k] = x
             Fresh1(h) == h = e /\ Forks(e) /\ x = <<"start", code[e][1][2]>>
  <1>2. x[1] = "start" /\ (Old(g) \/ Fresh1(g)) /\ (Old(f) \/ Fresh1(f))
    BY <1>1, StartOrigin
  <1>3. ASSUME NEW h \in Env, NEW k \in Env, Old(h), Fresh1(k) PROVE FALSE
    <2>1. PICK j \in 1..Len(code[h]) : code[h][j] = x
      BY <1>3
    <2>2. code[h][j][1] = "start" /\ code[h][j][2] = code[e][1][2]
      BY <1>2, <1>3, <2>1
    <2>3. status[code[e][1][2]] = "NOT_RUNNABLE"
      BY <2>2, CodeOf DEF WfSeq, Starts
    <2> QED BY <1>3, <2>3 DEF Forks
  <1>4. CASE Old(g) /\ Old(f)
    BY <1>2, <1>4 DEF CodeInv, OneParent
  <1> QED BY <1>2, <1>3, <1>4

-----------------------------------------------------------------------------
(* An Fd page of the pipe without the pipe is the work of a parent. *)

Awaits(s, i, c) == \E n \in 1..Len(s) : s[n] = <<"map_data", i, c, i>>
Backs(w, c, i) ==
  w # c /\ fd[w][i] = fd[c][i] /\ data[w][i] /\ Awaits(code[w], i, c)

LEMMA BackedIs ==
  Backed <=> \A c \in Env : \A i \in Fdnum :
               fd[c][i] \in Ends /\ ~data[c][i] => \E w \in Env : Backs(w, c, i)
  BY Zenon DEF Backed, Backs, Awaits

LEMMA AwaitsRest ==
  ASSUME NEW s \in Seq(AllCalls), s # <<>>, NEW t, Rest(s, t), NEW i, NEW c, Awaits(s, i, c),
         s[1] # <<"map_data", i, c, i>>
  PROVE  Awaits(t, i, c)
  <1>1. PICK n \in 1..Len(s) : s[n] = <<"map_data", i, c, i>>
    BY DEF Awaits
  <1>2. n # 1
    BY <1>1
  <1>3. /\ Len(s) \in Nat \ {0} /\ Len(t) = Len(s) - 1
        /\ \A k \in 1..Len(t) : k + 1 \in 1..Len(s) /\ t[k] = s[k + 1]
    BY RestAt
  <1>4. n - 1 \in 1..Len(t) /\ (n - 1) + 1 = n
    BY <1>2, <1>3
  <1>5. t[n - 1] = s[n]
    BY <1>3, <1>4
  <1> QED BY <1>1, <1>4, <1>5 DEF Awaits

LEMMA BacksKept ==
  ASSUME CodeInv, NEW e \in Env, Effect(e), NEW c \in Env, NEW i \in Fdnum,
         fd'[c][i] = fd[c][i], ~data'[c][i], NEW w \in Env, Backs(w, c, i)
  PROVE  Backs(w, c, i)'
  <1>0. w # c /\ fd[w][i] = fd[c][i] /\ data[w][i] /\ Awaits(code[w], i, c)
    BY Zenon DEF Backs
  <1>1. PICK n \in 1..Len(code[w]) : code[w][n] = <<"map_data", i, c, i>>
    BY <1>0 DEF Awaits
  <1>2. code[w][n][1] = "map_data" /\ code[w][n][3] = c
    BY <1>1
  <1>3. /\ status[w] = "RUNNABLE" /\ code[w] # <<>>
        /\ code[w][1][1] \in {"map_fd", "map_data"} /\ code[w][1][3] = c
    BY <1>0, <1>2, Receives
  <1>4. CASE w # e
    <2>1. fd'[w] = fd[w] /\ data'[w] = data[w] /\ code'[w] = code[w]
      BY <1>3, <1>4, Untouched DEF Effect
    <2>2. Awaits(code'[w], i, c)
      BY <1>0, <2>1
    <2> QED BY <1>0, <2>1, <2>2, Zenon DEF Backs, Awaits
  <1>5. CASE w = e
    <2> DEFINE x == code[e][1]
    <2>1. MapsFd(e) \/ MapsData(e)
      BY <1>3, <1>5 DEF Effect, Quiet, Makes, Forks, UnmapsFd, UnmapsData, StartsChild, Blocks, Dies, Sys
    <2>2. fd \in [Env -> [Fdnum -> FdPage \union {None}]] /\ data \in [Env -> [Fdnum -> BOOLEAN]]
      BY DEF CodeInv, MapsOK
    <2>3. x[3] = c /\ c # e /\ Rest(code[e], code'[e]) /\ x \in AllCalls
      BY <1>0, <1>3, <1>5, <2>1, First DEF MapsFd, MapsData, CodeInv
    <2>4. PICK v : v = data[e][x[2]]
      OBVIOUS
    <2>5. fd'[e] = fd[e] /\ data'[e] = data[e]
      <3>1. fd' = [fd EXCEPT ![x[3]][x[4]] = fd[e][x[2]]] \/ fd' = fd
        BY <2>1 DEF MapsFd, MapsData
      <3>2. data' = [data EXCEPT ![x[3]][x[4]] = v] \/ data' = data
        BY <2>1, <2>4, Zenon DEF MapsFd, MapsData
      <3> HIDE DEF x
      <3>3. fd'[e] = fd[e]
        BY <2>2, <2>3, <3>1
      <3>4. data'[e] = data[e]
        BY <2>2, <2>3, <3>2
      <3> QED BY <3>3, <3>4
    <2>6. x # <<"map_data", i, c, i>>
      <3> SUFFICES ASSUME x = <<"map_data", i, c, i>> PROVE FALSE
        OBVIOUS
      <3>1. x[1] = "map_data" /\ x[2] = i /\ x[3] = c /\ x[4] = i
        OBVIOUS
      <3>2. MapsData(e)
        BY <2>1, <3>1 DEF MapsFd
      <3>3. v = data[e][i] /\ data' = [data EXCEPT ![c][i] = v]
        BY <2>4, <3>1, <3>2, Zenon DEF MapsData
      <3>4. data'[c][i] = v
        BY <2>2, <3>3
      <3> QED BY <1>0, <1>5, <3>3, <3>4, Zenon
    <2>7. code[e] \in Seq(AllCalls) /\ code[e] # <<>> /\ Awaits(code[e], i, c)
      BY <1>0, <1>3, <1>5, CodeOf
    <2>8. Awaits(code'[e], i, c)
      BY <2>3, <2>6, <2>7, AwaitsRest
    <2> QED BY <1>0, <1>5, <2>5, <2>8, Zenon DEF Backs, Awaits
  <1> QED BY <1>4, <1>5

\* map_fd: of a descriptor of its own after map_data, or to a child that will
\* get the pipe too.
LEMMA MapsFdBacked ==
  ASSUME CodeInv, NEW e \in Env, Effect(e), MapsFd(e), NEW c \in Env, NEW i \in Fdnum,
         fd'[c][i] # fd[c][i], fd'[c][i] \in Ends, ~data'[c][i]
  PROVE  Backs(e, c, i)'
  <1>1. PICK x : x = code[e][1]
    OBVIOUS
  <1>2. fd \in [Env -> [Fdnum -> FdPage \union {None}]]
    BY DEF CodeInv, MapsOK
  <1>3. /\ x[1] = "map_fd" /\ Rest(code[e], code'[e]) /\ data' = data
        /\ fd' = [fd EXCEPT ![x[3]][x[4]] = fd[e][x[2]]]
    BY <1>1 DEF MapsFd
  <1>4. x[2] \in Fdnum /\ x[3] \in Env /\ x[4] \in Fdnum
    BY <1>1, <1>3, First, CallShapes DEF CodeInv, Effect
  <1>5. c = x[3] /\ i = x[4] /\ fd'[c][i] = fd[e][x[2]]
    BY <1>2, <1>3, <1>4
  <1>6. PICK s : s = code[e]
    OBVIOUS
  <1>7. s \in Seq(AllCalls) /\ s # <<>> /\ WfSeq(e, s) /\ 1 \in 1..Len(s) /\ s[1] = x
    BY <1>1, <1>6, CodeOf, First DEF Effect, CodeInv
  <1>8. x[3] # e
    <2> SUFFICES ASSUME x[3] = e PROVE FALSE
      OBVIOUS
    <2>1. s[1][1] = "map_fd" /\ s[1][3] = e /\ DupFd(e, s)
      BY <1>3, <1>7 DEF WfSeq
    <2>2. \A n \in 1..Len(s) : n = 1 /\ s[n][1] = "map_fd" /\ s[n][3] = e =>
            fd[e][s[n][2]] \notin Ends \/ data[e][s[n][4]]
      BY <2>1, Zenon DEF DupFd
    <2>3. fd[e][s[1][2]] \notin Ends \/ data[e][s[1][4]]
      BY <1>7, <2>1, <2>2, Zenon
    <2>4. fd[e][s[1][2]] \in Ends /\ s[1][4] = i /\ c = e
      BY <1>5, <1>7
    <2>5. ~data[e][i]
      BY <1>3, <2>4, Zenon
    <2> QED BY <2>3, <2>4, <2>5, Zenon
  <1>9. /\ s[1][4] = s[1][2]
        /\ fd[e][s[1][2]] \in Ends => \E m \in 1 + 1..Len(s) : s[m] = <<"map_data", s[1][2], s[1][3], s[1][2]>>
    <2>1. Hands(e, s) /\ s[1][1] = "map_fd" /\ s[1][3] # e
      BY <1>3, <1>7, <1>8 DEF WfSeq
    <2> QED BY <1>7, <2>1, Zenon DEF Hands
  <1>10. PICK m \in 1 + 1..Len(s) : s[m] = <<"map_data", i, c, i>>
    BY <1>5, <1>7, <1>9
  <1>11. m \in 1..Len(s) /\ s[m][1] = "map_data" /\ s[m][3] = c /\ s[m][2] = i /\ c # e
    <2>1. m \in 1..Len(s)
      BY <1>7
    <2> QED BY <1>5, <1>8, <1>10, <2>1
  <1>12. data[e][i]
    <2>1. Hands(e, s)
      BY <1>7 DEF WfSeq
    <2> QED BY <1>11, <2>1, Zenon DEF Hands
  <1>13. Awaits(s, i, c) /\ s[1] # <<"map_data", i, c, i>>
    <2>1. s[1] # <<"map_data", i, c, i>>
      BY <1>3, <1>7
    <2> QED BY <1>10, <1>11, <2>1 DEF Awaits
  <1>14. Awaits(code'[e], i, c)
    BY <1>3, <1>6, <1>7, <1>13, AwaitsRest
  <1>15. fd'[e][i] = fd'[c][i]
    <2>1. fd'[e] = fd[e]
      BY <1>2, <1>3, <1>4, <1>8
    <2> QED BY <1>5, <1>7, <1>9, <2>1
  <1> QED BY <1>3, <1>11, <1>12, <1>14, <1>15, Zenon DEF Backs, Awaits

\* unmap_data and map_data: no Fd page of the pipe is left alone.
LEMMA DataStays ==
  ASSUME CodeInv, NEW e \in Env, Effect(e), UnmapsData(e) \/ MapsData(e), NEW c \in Env, NEW i \in Fdnum,
         data[c][i], ~data'[c][i]
  PROVE  fd'[c][i] \notin Ends
  <1>1. PICK s : s = code[e]
    OBVIOUS
  <1>2. s \in Seq(AllCalls) /\ s # <<>> /\ WfSeq(e, s) /\ 1 \in 1..Len(s) /\ s[1] \in AllCalls
    BY <1>1, CodeOf, First DEF Effect, CodeInv
  <1>3. data \in [Env -> [Fdnum -> BOOLEAN]]
    BY DEF CodeInv, MapsOK
  <1>4. CASE UnmapsData(e)
    <2>1. s[1][1] = "unmap_data" /\ fd' = fd /\ data' = [data EXCEPT ![e][s[1][2]] = FALSE]
      BY <1>1, <1>4, Zenon DEF UnmapsData
    <2>2. s[1][2] \in Fdnum
      BY <1>2, <2>1, CallShapes
    <2>3. c = e /\ i = s[1][2]
      <3> SUFFICES ASSUME ~(c = e /\ i = s[1][2]) PROVE FALSE
        OBVIOUS
      <3>1. PICK v : v = FALSE
        OBVIOUS
      <3>2. data' = [data EXCEPT ![e][s[1][2]] = v]
        BY <2>1, <3>1, Zenon
      <3>3. data'[c][i] = data[c][i]
        BY <1>3, <2>2, <3>2
      <3> QED BY <3>3
    <2>4. fd[e][s[1][2]] = None
      BY <1>2, <2>1 DEF WfSeq, Unmaps
    <2> QED BY <2>1, <2>3, <2>4, NoneIsNoEnd
  <1>5. CASE MapsData(e)
    <2>1. PICK v : v = data[e][s[1][2]]
      OBVIOUS
    <2>2. s[1][1] = "map_data" /\ fd' = fd /\ data' = [data EXCEPT ![s[1][3]][s[1][4]] = v]
      BY <1>1, <1>5, <2>1, Zenon DEF MapsData
    <2>3. s[1][2] \in Fdnum /\ s[1][3] \in Env /\ s[1][4] \in Fdnum
      BY <1>2, <2>2, CallShapes
    <2>4. c = s[1][3] /\ i = s[1][4] /\ data'[c][i] = v
      <3>1. ASSUME ~(c = s[1][3] /\ i = s[1][4]) PROVE FALSE
        <4>1. data'[c][i] = data[c][i]
          BY <1>3, <2>2, <2>3, <3>1
        <4> QED BY <4>1
      <3>2. c = s[1][3] /\ i = s[1][4]
        BY <3>1
      <3>3. data'[c][i] = v
        BY <1>3, <2>2, <2>3, <3>2
      <3> QED BY <3>2, <3>3
    <2>5. CASE s[1][3] # e
      <3>1. Hands(e, s) /\ s[1][1] = "map_data"
        BY <1>2, <2>2 DEF WfSeq
      <3>2. data[e][s[1][2]]
        BY <1>2, <2>5, <3>1, Zenon DEF Hands
      <3> QED BY <2>1, <2>4, <3>2, Zenon
    <2>6. CASE s[1][3] = e
      <3>1. fd[e][s[1][4]] = None
        BY <1>2, <2>2, <2>6 DEF WfSeq, DupData
      <3> QED BY <2>2, <2>4, <2>6, <3>1, NoneIsNoEnd
    <2> QED BY <2>5, <2>6
  <1> QED BY <1>4, <1>5

LEMMA BackedKept ==
  ASSUME CodeInv, Backed, NEW e \in Env, Effect(e)
  PROVE  Backed'
  <1> SUFFICES ASSUME NEW c \in Env, NEW i \in Fdnum, fd'[c][i] \in Ends, ~data'[c][i]
               PROVE  \E w \in Env : Backs(w, c, i)'
    BY Zenon DEF Backed, Backs, Awaits
  <1>1. fd \in [Env -> [Fdnum -> FdPage \union {None}]] /\ data \in [Env -> [Fdnum -> BOOLEAN]]
    BY DEF CodeInv, MapsOK
  <1>2. CASE fd'[c][i] = fd[c][i] /\ ~data[c][i]
    <2>1. fd[c][i] \in Ends
      BY <1>2
    <2>2. PICK w \in Env : Backs(w, c, i)
      BY <1>2, <2>1, BackedIs, Zenon
    <2>3. Backs(w, c, i)'
      BY <1>2, <2>2, BacksKept
    <2> QED BY <2>3
  <1> SUFFICES ASSUME fd'[c][i] # fd[c][i] \/ data[c][i] PROVE \E w \in Env : Backs(w, c, i)'
    BY <1>2, Zenon
  <1>3. CASE Quiet(e) \/ Forks(e) \/ StartsChild(e) \/ Blocks(e)
    <2>1. fd' = fd /\ data' = data
      BY <1>3 DEF Quiet, Forks, StartsChild, Blocks
    <2> QED BY <2>1, Zenon
  <1>4. CASE Makes(e)
    <2>1. CASE c # e
      <3>1. fd'[c] = fd[c] /\ data'[c] = data[c]
        BY <1>4, <2>1 DEF Makes
      <3> QED BY <3>1, Zenon
    <2>2. CASE c = e
      <3>1. data'[e][i] \/ (fd'[e][i] = fd[e][i] /\ data'[e][i] = data[e][i])
        BY <1>4, Zenon DEF Makes
      <3> QED BY <2>2, <3>1, Zenon
    <2> QED BY <2>1, <2>2
  <1>5. CASE UnmapsFd(e)
    <2>1. PICK j : j = code[e][1][2]
      OBVIOUS
    <2>2. fd' = [fd EXCEPT ![e][j] = None] /\ data' = data
      BY <1>5, <2>1 DEF UnmapsFd
    <2>3. fd'[c][i] = fd[c][i] \/ fd'[c][i] = None
      BY <1>1, <2>2
    <2> QED BY <2>2, <2>3, NoneIsNoEnd, Zenon
  <1>6. CASE UnmapsData(e) \/ MapsData(e)
    <2>1. fd' = fd
      BY <1>6 DEF UnmapsData, MapsData
    <2> QED BY <1>6, <2>1, DataStays, Zenon
  <1>7. CASE MapsFd(e)
    <2>1. data' = data
      BY <1>7 DEF MapsFd
    <2>2. fd'[c][i] # fd[c][i]
      BY <2>1, Zenon
    <2> QED BY <1>7, <2>2, MapsFdBacked
  <1>8. CASE Dies(e)
    <2>1. CASE c # e
      <3>1. fd'[c] = fd[c] /\ data'[c] = data[c]
        BY <1>1, <1>8, <2>1 DEF Dies
      <3> QED BY <3>1, Zenon
    <2>2. CASE c = e
      <3>1. fd'[c][i] = None
        BY <1>1, <1>8, <2>2 DEF Dies
      <3> QED BY <3>1, NoneIsNoEnd
    <2> QED BY <2>1, <2>2
  <1> QED BY <1>3, <1>4, <1>5, <1>6, <1>7, <1>8 DEF Effect

-----------------------------------------------------------------------------
(* One pipe is made. *)

LEMMA UsesAt ==
  ASSUME NEW s \in Seq(AllCalls), NEW op
  PROVE  Uses(s, op) <=> \E n \in 1..Len(s) : s[n][1] = op
  <1>1. DOMAIN s = 1..Len(s)
    <2> HIDE DEF AllCalls
    <2> QED OBVIOUS
  <1> QED BY <1>1 DEF Uses, ToSet

\* Only pipe makes an Fd page of a pipe; the others copy one or drop it.
LEMMA EndsFrom ==
  ASSUME CodeInv, NEW e \in Env, Effect(e), ~Makes(e), NEW c \in Env, NEW i \in Fdnum,
         NEW k \in Ends, fd'[c][i] = k
  PROVE  Open(k)
  <1>1. fd \in [Env -> [Fdnum -> FdPage \union {None}]]
    BY DEF CodeInv, MapsOK
  <1>2. CASE fd' = fd
    BY <1>2 DEF Open
  <1>3. CASE UnmapsFd(e)
    <2>1. PICK j : j = code[e][1][2]
      OBVIOUS
    <2>2. fd' = [fd EXCEPT ![e][j] = None]
      BY <1>3, <2>1 DEF UnmapsFd
    <2>3. fd'[c][i] = fd[c][i] \/ fd'[c][i] = None
      BY <1>1, <2>2
    <2> QED BY <2>3, NoneIsNoEnd DEF Open
  <1>4. CASE MapsFd(e)
    <2>1. PICK x : x = code[e][1]
      OBVIOUS
    <2>2. x[1] = "map_fd" /\ fd' = [fd EXCEPT ![x[3]][x[4]] = fd[e][x[2]]]
      BY <1>4, <2>1 DEF MapsFd
    <2>3. x[2] \in Fdnum
      BY <2>1, <2>2, First, CallShapes DEF CodeInv, Effect
    <2>4. fd'[c][i] = fd[c][i] \/ fd'[c][i] = fd[e][x[2]]
      BY <1>1, <2>2
    <2> QED BY <2>3, <2>4 DEF Open
  <1>5. CASE Dies(e)
    <2>1. fd'[c][i] = fd[c][i] \/ fd'[c][i] = None
      BY <1>1, <1>5 DEF Dies
    <2> QED BY <2>1, NoneIsNoEnd DEF Open
  <1> QED BY <1>2, <1>3, <1>4, <1>5 DEF Effect, Quiet, Forks, UnmapsData, MapsData, StartsChild, Blocks

\* Calls of pipe keep their order and their program.
LEMMA PipeShift ==
  ASSUME CodeInv, NEW e \in Env, Effect(e), NEW g \in Env
  PROVE  \E d \in Int : \A m \in 1..Len(code'[g]) : code'[g][m][1] = "pipe" =>
           m + d \in 1..Len(code[g]) /\ code[g][m + d][1] = "pipe"
  <1>1. CASE g # e
    <2>1. PICK s : s = code[g]
      OBVIOUS
    <2>2. code'[g] = s /\ s \in Seq(AllCalls)
      BY <1>1, <2>1, CodeOf DEF Effect
    <2>3. \A m \in 1..Len(s) : m + 0 = m
      OBVIOUS
    <2>4. \A m \in 1..Len(s) : s[m][1] = "pipe" => m + 0 \in 1..Len(s) /\ s[m + 0][1] = "pipe"
      BY <2>3
    <2>5. 0 \in Int
      OBVIOUS
    <2>6. PICK d \in Int : d = 0
      BY <2>5
    <2>7. \A m \in 1..Len(s) : s[m][1] = "pipe" => m + d \in 1..Len(s) /\ s[m + d][1] = "pipe"
      BY <2>4, <2>6
    <2> QED BY <2>1, <2>2, <2>7
  <1>2. CASE g = e
    <2>1. PICK s : s = code[e]
      OBVIOUS
    <2>2. PICK t : t = code'[e]
      OBVIOUS
    <2>3. PICK y : y = <<"start", code[e][1][2]>>
      OBVIOUS
    <2>4. PICK d \in Int : Shifted(s, t, d, y)
      BY <2>1, <2>2, <2>3, Inherits
    <2>5. y[1] # "pipe"
      BY <2>3
    <2>6. \A m \in 1..Len(t) : t[m][1] = "pipe" => m + d \in 1..Len(s) /\ s[m + d][1] = "pipe"
      BY <2>4, <2>5 DEF Shifted
    <2> QED BY <1>2, <2>1, <2>2, <2>6
  <1> QED BY <1>1, <1>2

LEMMA OnePipeKept ==
  ASSUME CodeInv, Backed, OnePipe, NEW e \in Env, Effect(e)
  PROVE  OnePipe'
  <1>1. \A g \in Env : code[g] \in Seq(AllCalls) /\ code'[g] \in Seq(AllCalls)
    BY CodeOf, CodeKept DEF CodeTyped
  <1>2. ASSUME NEW g \in Env, Uses(code'[g], "pipe") PROVE Uses(code[g], "pipe")
    <2>1. PICK m \in 1..Len(code'[g]) : code'[g][m][1] = "pipe"
      BY <1>1, <1>2, UsesAt
    <2>2. \E n \in 1..Len(code[g]) : code[g][n][1] = "pipe"
      BY <2>1, PipeShift
    <2> QED BY <1>1, <2>2, UsesAt
  <1>3. \A g, f \in Env : Uses(code'[g], "pipe") /\ Uses(code'[f], "pipe") => g = f
    BY <1>2 DEF OnePipe
  <1>4. ASSUME NEW g \in Env, NEW m \in 1..Len(code'[g]), NEW n \in 1..Len(code'[g]),
               code'[g][m][1] = "pipe", code'[g][n][1] = "pipe"
        PROVE  m = n
    <2>1. PICK d \in Int : \A j \in 1..Len(code'[g]) : code'[g][j][1] = "pipe" =>
            j + d \in 1..Len(code[g]) /\ code[g][j + d][1] = "pipe"
      BY PipeShift
    <2>2. m + d = n + d
      BY <1>4, <2>1 DEF OnePipe
    <2> QED BY <2>2
  <1>5. ASSUME NEW g \in Env, Uses(code'[g], "pipe"), NEW c \in Env, NEW i \in Fdnum, fd'[c][i] \in Ends
        PROVE  FALSE
    <2>1. Uses(code[g], "pipe")
      BY <1>2, <1>5
    <2>2. \A b \in Env : \A j \in Fdnum : fd[b][j] \notin Ends
      BY <2>1 DEF OnePipe
    <2>3. CASE ~Makes(e)
      <3>1. Open(fd'[c][i])
        BY <1>5, <2>3, EndsFrom
      <3> QED BY <1>5, <2>2, <3>1 DEF Open
    <2>4. CASE Makes(e)
      <3>1. PICK s : s = code[e]
        OBVIOUS
      <3>2. PICK t : t = code'[e]
        OBVIOUS
      <3>3. s \in Seq(AllCalls) /\ s # <<>> /\ s[1][1] = "pipe" /\ Rest(s, t) /\ 1 \in 1..Len(s)
        BY <1>1, <2>4, <3>1, <3>2, First DEF Makes, Effect, CodeInv
      <3>4. Uses(code[e], "pipe")
        BY <1>1, <3>1, <3>3, UsesAt
      <3>5. g = e
        BY <2>1, <3>4 DEF OnePipe
      <3>6. t \in Seq(AllCalls) /\ Uses(t, "pipe")
        BY <1>1, <1>5, <3>2, <3>5
      <3>7. PICK m \in 1..Len(t) : t[m][1] = "pipe"
        BY <3>6, UsesAt
      <3>8. m + 1 \in 1..Len(s) /\ s[m + 1][1] = "pipe"
        BY <3>3, <3>7, RestAt
      <3>9. m + 1 = 1
        BY <3>1, <3>3, <3>8 DEF OnePipe
      <3> QED BY <3>9
    <2> QED BY <2>3, <2>4
  <1>6. \A g \in Env : Uses(code'[g], "pipe") => \A c \in Env : \A i \in Fdnum : fd'[c][i] \notin Ends
    BY <1>5
  <1>7. \A g \in Env : \A m, n \in 1..Len(code'[g]) :
          code'[g][m][1] = "pipe" /\ code'[g][n][1] = "pipe" => m = n
    BY <1>4
  <1>8. \A g \in Env : Uses(code[g], "pipe")' <=> Uses(code'[g], "pipe")
    BY DEF Uses, ToSet
  <1> QED BY <1>3, <1>6, <1>7, <1>8 DEF OnePipe

-----------------------------------------------------------------------------
(* The counts of _pipe_is_closed. *)

LEMMA RunsIs ==
  ASSUME IoOK, NEW e \in Env, NEW r, Runs(e, r)
  PROVE  io'[e] = r /\ \A f \in Env : f # e => io'[f].ph = io[f].ph /\ ~io'[f].same
  <1>1. io'[e] = r
    BY DEF Runs
  <1>2. PICK t : t = FALSE
    OBVIOUS
  <1>3. ASSUME NEW f \in Env, f # e PROVE io'[f].ph = io[f].ph /\ io'[f].same = t
    <2>1. io'[f] = [io[f] EXCEPT !.same = t]
      BY <1>2, <1>3 DEF Runs
    <2>2. PICK x : x = io[f]
      OBVIOUS
    <2>3. x \in IoRec
      BY <2>2 DEF IoOK
    <2>4. [x EXCEPT !.same = t].ph = x.ph /\ [x EXCEPT !.same = t].same = t
      BY <2>3 DEF IoRec
    <2> QED BY <2>1, <2>2, <2>4
  <1> QED BY <1>1, <1>2, <1>3, Zenon

\* What a step of read, write or pipe_is_closed makes of the record of the call.
Looks(e) ==
  /\ UNCHANGED <<fd, data, status>>
  /\ \/ io'[e].ph = "idle"
     \/ /\ code' = code /\ Page(e) \in Ends /\ status[e] = "RUNNABLE"
        /\ \/ io'[e].ph \in {"test", "fd_ref", "copy", "advance", "open"}
           \/ io'[e].ph = "pipe_ref" /\ io'[e].fd_ref = FdRef(Page(e))
           \/ /\ io'[e].ph = "closed" /\ io[e].ph = "pipe_ref" /\ io[e].same
              /\ io[e].fd_ref = PipeRef

LEMMA LooksAt ==
  ASSUME PInv, InCallRuns, NEW e \in Env,
         \/ call(e) \/ test(e) \/ fd_ref(e) \/ pipe_ref(e) \/ yield(e)
         \/ copy(e) \/ advance(e) \/ return(e) \/ verdict(e)
  PROVE  Looks(e) /\ \E r : Runs(e, r)
  <1>1. io[e] \in IoRec /\ IoOK
    BY DEF PInv, IoOK
  <1>2. PICK x : x = io[e]
    OBVIOUS
  <1>3. x \in IoRec
    BY <1>1, <1>2
  <1>4. \A ph : InCall(e, ph) => io[e].ph = ph /\ status[e] = "RUNNABLE"
    BY DEF InCall, At
  <1>5. io[e].ph # "idle" => Page(e) \in Ends
    BY DEF InCallRuns
  <1>6. ASSUME NEW p, Runs(e, [x EXCEPT !.ph = p]) PROVE io'[e].ph = p
    <2>1. io'[e] = [x EXCEPT !.ph = p]
      BY <1>1, <1>6, RunsIs
    <2> QED BY <1>3, <2>1 DEF IoRec
  <1>7. CASE call(e)
    <2>1. InCall(e, "idle") /\ UNCHANGED <<fd, data, status>>
      BY <1>7 DEF call
    <2>2. CASE Page(e) \in {"rd", "wr"} /\ Allowed(e)
      <3> DEFINE p == IF Arg(e, 1) = "is_closed" THEN "fd_ref" ELSE "test"
      <3>1. code' = code /\ Runs(e, [Idle EXCEPT !.ph = p])
        BY <1>7, <2>2 DEF call
      <3>2. p \in {"fd_ref", "test"}
        OBVIOUS
      <3> HIDE DEF p
      <3>3. io'[e] = [Idle EXCEPT !.ph = p]
        BY <1>1, <3>1, RunsIs
      <3>4. io'[e].ph = p
        BY <3>3, IdleRec DEF IoRec
      <3> QED BY <1>4, <2>1, <2>2, <3>1, <3>2, <3>4 DEF Looks, Ends
    <2>3. CASE ~(Page(e) \in {"rd", "wr"} /\ Allowed(e))
      <3>1. Runs(e, Idle)
        BY <1>7, <2>3 DEF call
      <3>2. io'[e].ph = "idle"
        BY <1>1, <3>1, RunsIs, IdleRec
      <3> QED BY <2>1, <3>1, <3>2 DEF Looks
    <2> QED BY <2>2, <2>3
  <1>8. CASE test(e)
    <2> DEFINE p == IF MustWait(e) THEN "fd_ref" ELSE "copy"
    <2>1. InCall(e, "test") /\ UNCHANGED <<fd, data, status, code>> /\ Runs(e, [x EXCEPT !.ph = p])
      BY <1>2, <1>8 DEF test
    <2>2. p \in {"fd_ref", "copy"}
      OBVIOUS
    <2> HIDE DEF p
    <2>3. io'[e].ph = p
      BY <1>6, <2>1
    <2> QED BY <1>4, <1>5, <2>1, <2>2, <2>3 DEF Looks
  <1>9. CASE fd_ref(e)
    <2>1. PICK t : t = TRUE
      OBVIOUS
    <2>2. PICK k : k = FdRef(Page(e))
      OBVIOUS
    <2>3. /\ InCall(e, "fd_ref") /\ UNCHANGED <<fd, data, status, code>>
          /\ Runs(e, [x EXCEPT !.ph = "pipe_ref", !.fd_ref = k, !.same = t])
      BY <1>2, <1>9, <2>1, <2>2 DEF fd_ref
    <2>4. io'[e] = [x EXCEPT !.ph = "pipe_ref", !.fd_ref = k, !.same = t]
      BY <1>1, <2>3, RunsIs
    <2>5. io'[e].ph = "pipe_ref" /\ io'[e].fd_ref = k
      BY <1>3, <2>4 DEF IoRec
    <2> QED BY <1>4, <1>5, <2>2, <2>3, <2>5 DEF Looks
  <1>10. CASE pipe_ref(e)
    <2>1. PICK t : t = FALSE
      OBVIOUS
    <2>2. InCall(e, "pipe_ref") /\ UNCHANGED <<fd, data, status, code>>
      BY <1>10 DEF pipe_ref
    <2>3. PICK p \in {"fd_ref", "closed", "open"} :
            /\ Runs(e, [x EXCEPT !.ph = p, !.fd_ref = 0, !.same = t])
            /\ p = "closed" => io[e].same /\ io[e].fd_ref = PipeRef
      <3>1. CASE ~Undisturbed(e)
        <4>1. Runs(e, [x EXCEPT !.ph = "fd_ref", !.fd_ref = 0, !.same = t])
          BY <1>2, <1>10, <2>1, <3>1, Zenon DEF pipe_ref
        <4> QED BY <4>1
      <3>2. CASE Undisturbed(e)
        <4> DEFINE p == IF io[e].fd_ref = PipeRef THEN "closed" ELSE "open"
        <4>1. Runs(e, [x EXCEPT !.ph = p, !.fd_ref = 0, !.same = t])
          BY <1>2, <1>10, <2>1, <3>2, Zenon DEF pipe_ref
        <4>2. p \in {"closed", "open"} /\ (p = "closed" => io[e].fd_ref = PipeRef)
          OBVIOUS
        <4>3. io[e].same
          BY <3>2 DEF Undisturbed
        <4> HIDE DEF p
        <4> QED BY <4>1, <4>2, <4>3, Zenon
      <3> QED BY <3>1, <3>2
    <2>4. io'[e] = [x EXCEPT !.ph = p, !.fd_ref = 0, !.same = t]
      BY <1>1, <2>3, RunsIs
    <2>5. io'[e].ph = p
      BY <1>3, <2>4 DEF IoRec
    <2>6. io[e].ph = "pipe_ref" /\ status[e] = "RUNNABLE" /\ Page(e) \in Ends
      BY <1>4, <1>5, <2>2
    <2>7. CASE p = "closed"
      BY <2>2, <2>3, <2>5, <2>6, <2>7, Zenon DEF Looks
    <2>8. CASE p # "closed"
      BY <2>2, <2>3, <2>5, <2>6, <2>8 DEF Looks
    <2> QED BY <2>7, <2>8
  <1>11. CASE yield(e)
    <2>1. InCall(e, "open") /\ UNCHANGED <<fd, data, status, code>> /\ Runs(e, [x EXCEPT !.ph = "test"])
      BY <1>2, <1>11 DEF yield
    <2>2. io'[e].ph = "test"
      BY <1>6, <2>1
    <2> QED BY <1>4, <1>5, <2>1, <2>2 DEF Looks
  <1>12. CASE copy(e)
    <2>1. InCall(e, "copy") /\ UNCHANGED <<fd, data, status, code>> /\ Runs(e, [x EXCEPT !.ph = "advance"])
      BY <1>2, <1>12 DEF copy
    <2>2. io'[e].ph = "advance"
      BY <1>6, <2>1
    <2> QED BY <1>4, <1>5, <2>1, <2>2 DEF Looks
  <1>13. CASE advance(e)
    <2>1. InCall(e, "advance") /\ UNCHANGED <<fd, data, status, code>>
          /\ Runs(e, [x EXCEPT !.ph = "test", !.i = @ + 1])
      BY <1>2, <1>13 DEF advance
    <2>2. io'[e] = [x EXCEPT !.ph = "test", !.i = @ + 1]
      BY <1>1, <2>1, RunsIs
    <2>3. io'[e].ph = "test"
      BY <1>3, <2>2 DEF IoRec
    <2> QED BY <1>4, <1>5, <2>1, <2>3 DEF Looks
  <1>14. CASE return(e) \/ verdict(e)
    <2>1. Runs(e, Idle) /\ UNCHANGED <<fd, data, status>>
      BY <1>14 DEF return, verdict
    <2>2. io'[e].ph = "idle"
      BY <1>1, <2>1, RunsIs, IdleRec
    <2> QED BY <2>1, <2>2 DEF Looks
  <1> QED BY <1>7, <1>8, <1>9, <1>10, <1>11, <1>12, <1>13, <1>14

\* As many Fd pages of one kind as mappings of the pipe: when nobody is handing
\* that kind down, each mapping goes with one of them and none is left for the
\* other end.
LEMMA CountsTell ==
  ASSUME MapsOK, Backed, Apart, NEW e \in Env, io[e].ph = "pipe_ref", io[e].same,
         Page(e) \in Ends, FdRef(Page(e)) = PipeRef
  PROVE  ~Open(Other(Page(e)))
  <1>1. PICK k : k = Page(e)
    OBVIOUS
  <1> DEFINE A == {m \in Env \X Fdnum : fd[m[1]][m[2]] = k}
             B == {m \in Env \X Fdnum : data[m[1]][m[2]]}
  <1>2. ASSUME NEW w \in Env, NEW c \in Env, NEW i \in Fdnum, Backs(w, c, i) PROVE fd[w][i] # k
    <2>1. w # c /\ \E n \in 1..Len(code[w]) : code[w][n] = <<"map_data", i, c, i>>
      BY <1>2, Zenon DEF Backs, Awaits
    <2>2. PICK n \in 1..Len(code[w]) : code[w][n] = <<"map_data", i, c, i>>
      BY <2>1
    <2>3. PICK x : x = code[w][n]
      OBVIOUS
    <2>4. x[1] = "map_data" /\ x[3] = c /\ x[2] = i
      BY <2>2, <2>3
    <2>5. x \in ToSet(code[w])
      BY <2>3 DEF ToSet
    <2>6. x[1] = "map_data" /\ x[3] # w => fd[w][x[2]] # Page(e)
      BY <2>5, Zenon DEF Apart
    <2> QED BY <1>1, <2>1, <2>4, <2>6
  <1>3. A \subseteq B
    <2> SUFFICES ASSUME NEW m \in Env \X Fdnum, fd[m[1]][m[2]] = k, ~data[m[1]][m[2]] PROVE FALSE
      BY Zenon
    <2>1. m[1] \in Env /\ m[2] \in Fdnum /\ fd[m[1]][m[2]] \in Ends
      BY <1>1
    <2>2. PICK w \in Env : Backs(w, m[1], m[2])
      BY <2>1, BackedIs, Zenon
    <2>3. fd[w][m[2]] = fd[m[1]][m[2]]
      BY <2>2, Zenon DEF Backs
    <2> QED BY <1>2, <2>1, <2>2, <2>3
  <1>4. IsFiniteSet(B)
    <2>1. IsFiniteSet(Fdnum)
      BY PipeSizes, FS_Interval DEF Fdnum
    <2>2. IsFiniteSet(Env \X Fdnum)
      BY <2>1, PipeSizes, FS_Product
    <2>3. B \subseteq Env \X Fdnum
      BY Zenon
    <2> QED BY <2>2, <2>3, FS_Subset
  <1>5. Cardinality(A) = Cardinality(B)
    BY <1>1 DEF FdRef, PipeRef
  <1>6. A = B
    <2> HIDE DEF A, B
    <2> QED BY <1>3, <1>4, <1>5, FS_Subset
  <1>7. Other(k) \in Ends /\ Other(k) # k
    BY <1>1 DEF Other, Ends
  <1> SUFFICES ASSUME NEW c \in Env, NEW i \in Fdnum, fd[c][i] = Other(k) PROVE FALSE
    BY <1>1 DEF Open
  <1>8. ASSUME NEW w \in Env, fd[w][i] = Other(k), data[w][i] PROVE FALSE
    <2>1. PICK m : m = <<w, i>>
      OBVIOUS
    <2>2. m \in Env \X Fdnum /\ m[1] = w /\ m[2] = i
      BY <2>1
    <2>3. m \in B
      BY <1>8, <2>2, Zenon
    <2>4. m \in A
      BY <1>6, <2>3, Zenon
    <2>5. fd[w][i] = k
      BY <2>2, <2>4, Zenon
    <2> QED BY <1>7, <1>8, <2>5
  <1>9. CASE data[c][i]
    BY <1>8, <1>9, Zenon
  <1>10. CASE ~data[c][i]
    <2>1. fd[c][i] \in Ends
      BY <1>7
    <2>2. PICK w \in Env : Backs(w, c, i)
      BY <1>10, <2>1, BackedIs, Zenon
    <2>3. fd[w][i] = Other(k) /\ data[w][i]
      BY <2>2, Zenon DEF Backs
    <2> QED BY <1>8, <2>3, Zenon
  <1> QED BY <1>9, <1>10

-----------------------------------------------------------------------------
(* What a call has found out stays true while others run. *)

LEMMA OthersCall ==
  ASSUME CodeInv, InCalls, InCallRuns, OnePipe, NEW e \in Env, Effect(e), NEW f \in Env, f # e, io[f].ph # "idle"
  PROVE  /\ status'[f] = "RUNNABLE" /\ Page(f)' = Page(f) /\ Page(f) \in Ends
         /\ ~Open(Other(Page(f))) => ~Open(Other(Page(f)))'
  <1>1. status[f] = "RUNNABLE" /\ Page(f) \in Ends
    BY DEF InCallRuns
  <1>2. status'[f] = "RUNNABLE"
    BY <1>1, StatusKept, ChildRuns
  <1>3. fd'[f] = fd[f] /\ code'[f] = code[f]
    BY <1>1, Untouched DEF Effect
  <1>4. Page(f)' = Page(f)
    BY <1>3 DEF Page, Arg
  <1>5. PICK k : k = Other(Page(f))
    OBVIOUS
  <1>6. k \in Ends
    BY <1>5 DEF Other, Ends
  <1>7. ASSUME Makes(e) PROVE FALSE
    <2>1. code[e] \in Seq(AllCalls) /\ 1 \in 1..Len(code[e]) /\ code[e][1][1] = "pipe"
      BY <1>7, CodeOf, First DEF Makes, Effect, CodeInv
    <2>2. Uses(code[e], "pipe")
      BY <2>1, UsesAt
    <2>3. \A c \in Env : \A i \in Fdnum : fd[c][i] \notin Ends
      BY <2>2 DEF OnePipe
    <2>4. code[f] # <<>> /\ Head(code[f])[1] \in {"read", "write", "is_closed"}
      BY DEF InCalls, Op
    <2>5. Arg(f, 2) \in Fdnum
      BY <2>4, First, CallShapes DEF Arg, CodeInv
    <2> QED BY <1>1, <2>3, <2>5 DEF Page
  <1>8. (\E c \in Env : \E i \in Fdnum : fd'[c][i] = k) => Open(k)
    BY <1>6, <1>7, EndsFrom
  <1>9. Open(Other(Page(f)))' <=> \E c \in Env : \E i \in Fdnum : fd'[c][i] = k
    BY <1>4, <1>5 DEF Open, Other
  <1> QED BY <1>1, <1>2, <1>4, <1>5, <1>8, <1>9

LEMMA EofStep ==
  ASSUME PInv, EInv, Apart, NEW e \in Env, Do(e)
  PROVE  InCallRuns' /\ Counted' /\ NoFalseEof'
  <1>1. CodeInv /\ InCallRuns /\ OnePipe /\ Backed /\ Counted /\ NoFalseEof /\ MapsOK /\ IoOK /\ InCalls
    BY DEF EInv, CodeInv, PInv
  <1>2. Effect(e)
    BY <1>1, EffectOf DEF CodeInv
  <1>3. ((io[e].ph = "idle" /\ io'[e].ph = "idle") \/ Looks(e)) /\ \E r : Runs(e, r)
    <2>1. CASE \/ close(e) \/ dup(e) \/ pipe(e) \/ fork(e) \/ spawn(e) \/ wait(e) \/ exit(e)
               \/ mem_unmap(e) \/ mem_map(e) \/ set_env_status(e) \/ env_destroy(e)
               \/ while_runnable(e)
      <3>1. io[e].ph = "idle" /\ Runs(e, io[e])
        BY <1>1, <2>1, OutsideSteps DEF Outside, PInv
      <3>2. io'[e] = io[e]
        BY <1>1, <3>1, RunsIs
      <3> QED BY <3>1, <3>2
    <2>2. CASE \/ call(e) \/ test(e) \/ fd_ref(e) \/ pipe_ref(e) \/ yield(e)
               \/ copy(e) \/ advance(e) \/ return(e) \/ verdict(e)
      BY <1>1, <2>2, LooksAt
    <2> QED BY <2>1, <2>2 DEF Do
  <1>4. \A f \in Env : f # e => io'[f].ph = io[f].ph /\ ~io'[f].same
    BY <1>1, <1>3, RunsIs
  <1>5. ASSUME Looks(e), io'[e].ph # "idle"
        PROVE  /\ status'[e] = "RUNNABLE" /\ Page(e)' = Page(e) /\ Page(e) \in Ends
               /\ FdRef(Page(e))' = FdRef(Page(e))
               /\ (Open(Other(Page(e)))' <=> Open(Other(Page(e))))
    <2>1. fd' = fd /\ code' = code /\ status' = status /\ status[e] = "RUNNABLE" /\ Page(e) \in Ends
      BY <1>5 DEF Looks
    <2>2. Page(e)' = Page(e)
      BY <2>1 DEF Page, Arg
    <2>3. FdRef(Page(e))' = FdRef(Page(e))
      BY <2>1, <2>2 DEF FdRef
    <2>4. Open(Other(Page(e)))' <=> Open(Other(Page(e)))
      BY <2>1, <2>2 DEF Open, Other
    <2> QED BY <2>1, <2>2, <2>3, <2>4
  <1>6. InCallRuns'
    <2> SUFFICES ASSUME NEW f \in Env, io'[f].ph # "idle"
                 PROVE  status'[f] = "RUNNABLE" /\ Page(f)' \in Ends
      BY DEF InCallRuns
    <2>1. CASE f = e
      BY <1>3, <1>5, <2>1
    <2>2. CASE f # e
      BY <1>1, <1>2, <1>4, <2>2, OthersCall
    <2> QED BY <2>1, <2>2
  <1>7. Counted'
    <2> SUFFICES ASSUME NEW f \in Env, io'[f].ph = "pipe_ref", io'[f].same
                 PROVE  io'[f].fd_ref = FdRef(Page(f))'
      BY Zenon DEF Counted
    <2>1. f = e
      BY <1>4, Zenon
    <2>2. Looks(e) /\ io'[e].ph # "idle"
      BY <1>3, <2>1
    <2>3. io'[e].fd_ref = FdRef(Page(e))
      BY <2>1, <2>2 DEF Looks
    <2> QED BY <1>5, <2>1, <2>2, <2>3
  <1>8. NoFalseEof'
    <2> SUFFICES ASSUME NEW f \in Env, io'[f].ph = "closed" PROVE ~Open(Other(Page(f)))'
      BY DEF NoFalseEof
    <2>1. CASE f # e
      <3>1. io[f].ph = "closed"
        BY <1>4, <2>1
      <3>2. ~Open(Other(Page(f)))
        BY <1>1, <3>1 DEF NoFalseEof
      <3> QED BY <1>1, <1>2, <2>1, <3>1, <3>2, OthersCall
    <2>2. CASE f = e
      <3>1. Looks(e) /\ io'[e].ph # "idle" /\ io'[e].ph = "closed"
        BY <1>3, <2>2
      <3>2. io[e].ph = "pipe_ref" /\ io[e].same /\ io[e].fd_ref = PipeRef /\ Page(e) \in Ends
        BY <3>1, Zenon DEF Looks
      <3>3. io[e].fd_ref = FdRef(Page(e))
        BY <1>1, <3>2, Zenon DEF Counted
      <3>4. FdRef(Page(e)) = PipeRef
        BY <3>2, <3>3, Zenon
      <3>5. ~Open(Other(Page(e)))
        BY <1>1, <3>2, <3>4, CountsTell, Zenon
      <3> QED BY <1>5, <2>2, <3>1, <3>5
    <2> QED BY <2>1, <2>2
  <1> QED BY <1>6, <1>7, <1>8

LEMMA EofSame == EInv /\ UNCHANGED vars => EInv'
  <1> SUFFICES ASSUME EInv, UNCHANGED vars PROVE EInv'
    OBVIOUS
  <1>1. fd' = fd /\ data' = data /\ status' = status /\ code' = code /\ io' = io
    BY DEF vars
  <1>2. CodeTyped' /\ Still' /\ OneParent' /\ OnePipe'
    BY <1>1 DEF EInv, CodeTyped, Still, NoSys, OneParent, OnePipe, Uses
  <1>3. InCallRuns' /\ Counted' /\ NoFalseEof'
    BY <1>1, Zenon DEF EInv, InCallRuns, Counted, NoFalseEof, FdRef, Page, Arg, Open, Other
  <1>4. Backed'
    <2>1. \A w, c, i : Backs(w, c, i) => Backs(w, c, i)'
      BY <1>1, Zenon DEF Backs, Awaits
    <2>2. \A c \in Env : \A i \in Fdnum :
            fd[c][i] \in Ends /\ ~data[c][i] => \E w \in Env : Backs(w, c, i)
      BY BackedIs DEF EInv
    <2>3. \A c \in Env : \A i \in Fdnum :
            fd'[c][i] \in Ends /\ ~data'[c][i] => \E w \in Env : Backs(w, c, i)'
      BY <1>1, <2>1, <2>2, Zenon
    <2> QED BY <2>3, Zenon DEF Backed, Backs, Awaits
  <1>5. CodeWf'
    <2> SUFFICES ASSUME NEW f \in Env PROVE WfSeq(f, code[f])'
      BY DEF CodeWf
    <2>1. PICK s : s = code[f]
      OBVIOUS
    <2>2. s \in Seq(AllCalls) /\ WfSeq(f, s) /\ s = code'[f]
      BY <1>1, <2>1 DEF EInv, CodeTyped, CodeWf
    <2>3. WfSeq(f, s)'
      BY <1>1, <2>2, SameWf
    <2> QED BY <2>2, <2>3, WfNow
  <1> QED BY <1>2, <1>3, <1>4, <1>5 DEF EInv

LEMMA EofNext == PInv /\ EInv /\ Apart /\ Next => EInv'
  <1> SUFFICES ASSUME PInv, EInv, Apart, Next PROVE EInv'
    OBVIOUS
  <1>1. CASE Done
    BY <1>1, EofSame DEF Done
  <1>2. ASSUME NEW e \in Env, Do(e) PROVE EInv'
    <2>1. CodeInv /\ Backed /\ OnePipe
      BY DEF EInv, CodeInv, PInv
    <2>2. Effect(e)
      BY <1>2, <2>1, EffectOf DEF CodeInv
    <2>3. CodeTyped' /\ CodeWf' /\ Still' /\ OneParent' /\ Backed' /\ OnePipe'
      BY <2>1, <2>2, CodeKept, StillKept, OneParentKept, BackedKept, OnePipeKept
    <2>4. InCallRuns' /\ Counted' /\ NoFalseEof'
      BY <1>2, EofStep
    <2> QED BY <2>3, <2>4 DEF EInv
  <1> QED BY <1>1, <1>2 DEF Next

LEMMA EofInit == Init => EInv
  <1> SUFFICES ASSUME Init PROVE EInv
    OBVIOUS
  <1>1. PICK s \in Scenario :
          /\ fd = [e \in Env |-> IF e = s.start THEN s.fd ELSE [i \in Fdnum |-> None]]
          /\ code = s.code
          /\ io = [e \in Env |-> Idle]
    BY DEF Init
  <1>2. code \in [Env -> Seq(Calls)] /\ s.fd \in [Fdnum -> {"cons", None}]
    BY <1>1, ScenarioShape
  <1>3. \A e \in Env : \A i \in Fdnum : fd[e][i] \notin Ends
    <2>1. "cons" \notin Ends
      BY DEF Ends
    <2> QED BY <1>1, <1>2, <2>1, NoneIsNoEnd
  <1>4. Calls \subseteq AllCalls /\ \A x \in Calls : x[1] \notin Sys
    BY DEF Calls, AllCalls, Sys
  <1>5. CodeTyped
    <2> HIDE DEF AllCalls, Calls
    <2> QED BY <1>2, <1>4 DEF CodeTyped
  <1>6. \A e \in Env : NoSys(code[e])
    <2> HIDE DEF AllCalls, Calls
    <2> QED BY <1>2, <1>4 DEF NoSys
  <1>7. CodeWf /\ Still
    BY <1>6, NoSysWf DEF CodeWf, Still
  <1>8. OneParent
    BY <1>6 DEF OneParent, NoSys, Sys
  <1>10. Backed
    BY <1>3, Zenon DEF Backed
  <1>11. OnePipe
    <2>1. \A e, f \in Env : Uses(code[e], "pipe") /\ Uses(code[f], "pipe") => e = f
      BY <1>1, ScenarioShape
    <2>2. \A e \in Env : \A m, n \in DOMAIN code[e] : code[e][m][1] = "pipe" /\ code[e][n][1] = "pipe" => m = n
      BY <1>1, ScenarioShape
    <2>3. \A e \in Env : DOMAIN code[e] = 1..Len(code[e])
      <3> HIDE DEF Calls
      <3> QED BY <1>2
    <2> QED BY <1>3, <2>1, <2>2, <2>3 DEF OnePipe
  <1>12. \A e \in Env : io[e].ph = "idle"
    BY <1>1, IdleRec
  <1>13. InCallRuns /\ Counted /\ NoFalseEof
    BY <1>12 DEF InCallRuns, Counted, NoFalseEof
  <1> QED BY <1>5, <1>7, <1>8, <1>10, <1>11, <1>13 DEF EInv

\* NoFalseEof: in every interleaving an environment that _pipe_is_closed tells
\* that its pipe is closed is alone with its kind of end, as long as nobody
\* hands that kind of end down while it counts (Apart).
THEOREM NoFalseEofHolds == Spec /\ []Apart => []NoFalseEof
  <1>1. EInv /\ PInv /\ Apart /\ [Next]_vars => EInv'
    <2>1. UNCHANGED vars /\ EInv /\ PInv /\ Apart => EInv'
      BY EofSame
    <2> QED BY <2>1, EofNext
  <1>2. EInv => NoFalseEof
    BY DEF EInv
  <1> QED BY EofInit, PInvHolds, <1>1, <1>2, PTL DEF Spec

=============================================================================
