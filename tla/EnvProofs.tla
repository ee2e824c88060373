----------------------------- MODULE EnvProofs ------------------------------
(***************************************************************************)
(* EnvLib keeps its invariants for every number of slots, ASIDs and ids.   *)
(*                                                                         *)
(* The argument.  The tail queue macros change a list of the elements of S *)
(* into a list of S with one element more or less (ListInsertHead,         *)
(* ListInsertTail, ListRemove), and removing the same element once again   *)
(* changes nothing (RemoveAgain).  So schedule(), given a list of the      *)
(* runnable environments, leaves such a list and finds its next            *)
(* environment on it (ScheduleKeeps); the system calls give it one,        *)
(* because curenv is runnable and whoever waits for a message is not.      *)
(***************************************************************************)
EXTENDS EnvLib, FiniteSetTheorems, WellFoundedInduction, TLAPS

-----------------------------------------------------------------------------
(* The macros of queue.h on lists of environments *)

\* A walk from the head that stays in S meets all of S.
Whole(q, S) == \A R \in SUBSET S : T!Closed(q, R \union {Head}) => R = S

\* With links that agree, a walk from the head never leaves S; it meets all
\* of S if no smaller set is closed under next.
LEMMA ListIs ==
  ASSUME NEW q \in T!TailqType, NEW S \in SUBSET Env, T!LinksAgree(q, S)
  PROVE  T!Elements(q) = S <=> Whole(q, S)
  <1> USE EnvDistinct DEF T!Cell, T!TailqType
  <1>1. T!Closed(q, S \union {Head}) BY DEF T!Closed, T!LinksAgree
  <1>2. T!Elements(q) \subseteq S BY <1>1 DEF T!Elements
  <1>3. ASSUME Whole(q, S) PROVE S \subseteq T!Elements(q)
    <2>1. SUFFICES ASSUME NEW R \in SUBSET Env, T!Closed(q, R \union {Head}) PROVE S \subseteq R
      BY DEF T!Elements
    <2>2. T!Closed(q, (R \intersect S) \union {Head}) BY <1>1, <2>1 DEF T!Closed
    <2>3. R \intersect S \in SUBSET S OBVIOUS
    <2>4. R \intersect S = S BY <1>3, <2>2, <2>3, Zenon DEF Whole
    <2>5. QED BY <2>4
  <1>4. ASSUME T!Elements(q) = S PROVE Whole(q, S)
    <2>1. SUFFICES ASSUME NEW R \in SUBSET S, T!Closed(q, R \union {Head}) PROVE S \subseteq R
      BY DEF Whole
    <2>2. QED BY <1>4, <2>1 DEF T!Elements
  <1>5. QED BY <1>2, <1>3, <1>4

\* TAILQ_INSERT_HEAD of an element that is not on the list.
LEMMA ListInsertHead ==
  ASSUME NEW q \in T!TailqType, NEW S \in SUBSET Env, T!IsListOf(q, S), NEW x \in Env \ S
  PROVE  /\ T!TAILQ_INSERT_HEAD(q, x) \in T!TailqType
         /\ T!IsListOf(T!TAILQ_INSERT_HEAD(q, x), S \union {x})
  <1> DEFINE p == T!TAILQ_INSERT_HEAD(q, x)
  <1> USE EnvDistinct DEF T!Cell, T!TailqType
  <1>1. T!LinksAgree(q, S) /\ Whole(q, S) BY ListIs DEF T!IsListOf
  <1>2. p \in T!TailqType BY <1>1 DEF T!TAILQ_INSERT_HEAD
  <1>3. T!LinksAgree(p, S \union {x}) BY <1>1 DEF T!LinksAgree, T!TAILQ_INSERT_HEAD
  <1>4. Whole(p, S \union {x})
    <2>1. SUFFICES ASSUME NEW R \in SUBSET (S \union {x}), T!Closed(p, R \union {Head})
                   PROVE  R = S \union {x}
      BY DEF Whole
    <2>2. p.next[Head] = x /\ p.next[x] = q.next[Head]
      BY DEF T!TAILQ_INSERT_HEAD
    <2>3. \A c \in S : p.next[c] = q.next[c]
      BY DEF T!TAILQ_INSERT_HEAD
    <2>4. x \in R BY <2>1, <2>2 DEF T!Closed
    <2>5. T!Closed(q, (R \ {x}) \union {Head})
      BY <1>1, <2>1, <2>2, <2>3, <2>4 DEF T!Closed, T!LinksAgree
    <2>6. R \ {x} \in SUBSET S BY <2>1
    <2>7. R \ {x} = S BY <1>1, <2>5, <2>6, Zenon DEF Whole
    <2>8. QED BY <2>4, <2>7
  <1>5. QED BY <1>2, <1>3, <1>4, ListIs DEF T!IsListOf

\* TAILQ_INSERT_TAIL of an element that is not on the list.
LEMMA ListInsertTail ==
  ASSUME NEW q \in T!TailqType, NEW S \in SUBSET Env, T!IsListOf(q, S), NEW x \in Env \ S
  PROVE  /\ T!TAILQ_INSERT_TAIL(q, x) \in T!TailqType
         /\ T!IsListOf(T!TAILQ_INSERT_TAIL(q, x), S \union {x})
         /\ T!TAILQ_FIRST(T!TAILQ_INSERT_TAIL(q, x)) = IF S = {} THEN x ELSE T!TAILQ_FIRST(q)
  <1> DEFINE p == T!TAILQ_INSERT_TAIL(q, x)
  <1> USE EnvDistinct DEF T!Cell, T!TailqType
  <1>1. T!LinksAgree(q, S) /\ Whole(q, S) BY ListIs DEF T!IsListOf
  <1>2. q.prev[Head] \in S \union {Head} BY <1>1 DEF T!LinksAgree
  <1>3. p \in T!TailqType BY <1>2 DEF T!TAILQ_INSERT_TAIL
  <1>4. T!LinksAgree(p, S \union {x}) BY <1>1 DEF T!LinksAgree, T!TAILQ_INSERT_TAIL
  <1>5. /\ p.next[x] = NULL /\ p.next[q.prev[Head]] = x
        /\ \A c \in S \union {Head} : c # q.prev[Head] => p.next[c] = q.next[c]
    BY <1>2 DEF T!TAILQ_INSERT_TAIL
  <1>6. Whole(p, S \union {x})
    <2>1. SUFFICES ASSUME NEW R \in SUBSET (S \union {x}), T!Closed(p, R \union {Head})
                   PROVE  R = S \union {x}
      BY DEF Whole
    <2>2. T!Closed(q, (R \ {x}) \union {Head})
      BY <1>1, <1>2, <1>5, <2>1 DEF T!Closed, T!LinksAgree
    <2>3. R \ {x} = S
      <3>1. R \ {x} \in SUBSET S BY <2>1
      <3>2. QED BY <1>1, <2>2, <3>1, Zenon DEF Whole
    <2>4. q.prev[Head] \in R \union {Head} BY <1>2, <2>3
    <2>5. x \in R BY <1>5, <2>1, <2>4 DEF T!Closed
    <2>6. QED BY <2>3, <2>5
  <1>7. T!TAILQ_FIRST(p) = IF S = {} THEN x ELSE T!TAILQ_FIRST(q)
    <2>1. CASE S = {} BY <1>2, <1>5, <2>1 DEF T!TAILQ_FIRST
    <2>2. CASE S # {}
      <3>1. q.next[Head] # NULL
        <4>1. SUFFICES ASSUME q.next[Head] = NULL PROVE FALSE OBVIOUS
        <4>2. T!Closed(q, {} \union {Head}) BY <4>1 DEF T!Closed
        <4>3. {} \in SUBSET S OBVIOUS
        <4>4. QED BY <1>1, <2>2, <4>2, <4>3, Zenon DEF Whole
      <3>2. q.prev[Head] # Head BY <1>1, <3>1 DEF T!LinksAgree
      <3>3. QED BY <1>5, <2>2, <3>2 DEF T!TAILQ_FIRST
    <2>3. QED BY <2>1, <2>2
  <1>8. QED BY <1>3, <1>4, <1>6, <1>7, ListIs DEF T!IsListOf

\* A list has a first element unless it is empty, and it is one of the list.
LEMMA ListFirst ==
  ASSUME NEW q \in T!TailqType, NEW S \in SUBSET Env, T!IsListOf(q, S)
  PROVE  IF S = {} THEN T!TAILQ_FIRST(q) = NULL ELSE T!TAILQ_FIRST(q) \in S
  <1> USE EnvDistinct DEF T!Cell, T!TailqType
  <1>1. T!LinksAgree(q, S) /\ Whole(q, S) BY ListIs DEF T!IsListOf
  <1>2. q.next[Head] \in S \union {NULL} BY <1>1 DEF T!LinksAgree
  <1>3. ASSUME q.next[Head] = NULL PROVE S = {}
    <2>1. T!Closed(q, {} \union {Head}) BY <1>3 DEF T!Closed
    <2>2. {} \in SUBSET S OBVIOUS
    <2>3. QED BY <1>1, <2>1, <2>2, Zenon DEF Whole
  <1>4. QED BY <1>2, <1>3 DEF T!TAILQ_FIRST

\* No element of a list is its own neighbour.
LEMMA ListNoLoop ==
  ASSUME NEW q \in T!TailqType, NEW S \in SUBSET Env, T!IsListOf(q, S), NEW x \in S
  PROVE  q.next[x] # x /\ q.prev[x] # x
  <1> USE EnvDistinct DEF T!Cell, T!TailqType
  <1>1. T!LinksAgree(q, S) /\ Whole(q, S) BY ListIs DEF T!IsListOf
  <1>2. ASSUME q.next[x] = x \/ q.prev[x] = x PROVE FALSE
    <2>1. q.next[x] = x /\ q.prev[x] = x BY <1>1, <1>2 DEF T!LinksAgree
    <2>2. T!Closed(q, (S \ {x}) \union {Head}) BY <1>1, <2>1 DEF T!Closed, T!LinksAgree
    <2>3. S \ {x} \in SUBSET S OBVIOUS
    <2>4. S \ {x} = S BY <1>1, <2>2, <2>3, Zenon DEF Whole
    <2>5. QED BY <2>4
  <1>3. QED BY <1>2

\* TAILQ_REMOVE of an element of the list never writes to address 0.
LEMMA ListRemove ==
  ASSUME NEW q \in T!TailqType, NEW S \in SUBSET Env, T!IsListOf(q, S), NEW x \in S
  PROVE  /\ ~T!RemoveFaults(q, x)
         /\ T!TAILQ_REMOVE(q, x) \in T!TailqType
         /\ T!IsListOf(T!TAILQ_REMOVE(q, x), S \ {x})
  <1> DEFINE p == T!TAILQ_REMOVE(q, x)
  <1> USE EnvDistinct DEF T!Cell, T!TailqType
  <1>1. T!LinksAgree(q, S) /\ Whole(q, S) BY ListIs DEF T!IsListOf
  <1>2. /\ q.prev[x] \in (S \ {x}) \union {Head} /\ q.next[q.prev[x]] = x
        /\ q.next[x] \in (S \ {x}) \union {NULL}
    BY <1>1, ListNoLoop DEF T!LinksAgree
  <1>3. ~T!RemoveFaults(q, x) BY <1>2 DEF T!RemoveFaults
  <1>4. p \in T!TailqType BY <1>2 DEF T!TAILQ_REMOVE
  <1>5. T!LinksAgree(p, S \ {x})
    BY <1>1, <1>2 DEF T!LinksAgree, T!TAILQ_REMOVE
  <1>6. /\ p.next[q.prev[x]] = q.next[x]
        /\ \A c \in S \union {Head} : c # q.prev[x] => p.next[c] = q.next[c]
    BY <1>2 DEF T!TAILQ_REMOVE
  <1>7. Whole(p, S \ {x})
    <2>1. SUFFICES ASSUME NEW R \in SUBSET (S \ {x}), T!Closed(p, R \union {Head})
                   PROVE  R = S \ {x}
      BY DEF Whole
    <2>2. CASE q.prev[x] \in R \union {Head}
      <3>1. T!Closed(q, (R \union {x}) \union {Head})
        BY <1>1, <1>2, <1>6, <2>1, <2>2 DEF T!Closed, T!LinksAgree
      <3>2. R \union {x} \in SUBSET S BY <2>1
      <3>3. R \union {x} = S BY <1>1, <3>1, <3>2, Zenon DEF Whole
      <3>4. QED BY <2>1, <3>3
    <2>3. CASE q.prev[x] \notin R \union {Head}
      <3>1. T!Closed(q, R \union {Head})
        BY <1>1, <1>2, <1>6, <2>1, <2>3 DEF T!Closed, T!LinksAgree
      <3>2. R \in SUBSET S BY <2>1
      <3>3. R = S BY <1>1, <3>1, <3>2, Zenon DEF Whole
      <3>4. QED BY <2>1, <3>3
    <2>4. QED BY <2>2, <2>3
  <1>8. QED BY <1>3, <1>4, <1>5, <1>7, ListIs DEF T!IsListOf

\* sys_ipc_recv takes curenv off the list and schedule() does it again, on
\* the links that curenv still has: the second time changes nothing.
LEMMA RemoveAgain ==
  ASSUME NEW q \in T!TailqType, NEW S \in SUBSET Env, T!IsListOf(q, S), NEW x \in S
  PROVE  /\ ~T!RemoveFaults(T!TAILQ_REMOVE(q, x), x)
         /\ T!TAILQ_REMOVE(T!TAILQ_REMOVE(q, x), x) = T!TAILQ_REMOVE(q, x)
  <1> DEFINE p == T!TAILQ_REMOVE(q, x)
  <1> USE EnvDistinct DEF T!Cell, T!TailqType
  <1>1. T!LinksAgree(q, S) BY DEF T!IsListOf
  <1>2. /\ q.prev[x] \in (S \ {x}) \union {Head}
        /\ q.next[x] \in (S \ {x}) \union {NULL}
    BY <1>1, ListNoLoop DEF T!LinksAgree
  <1>3. p.next[x] = q.next[x] /\ p.prev[x] = q.prev[x]
    BY <1>2 DEF T!TAILQ_REMOVE
  <1>4. ~T!RemoveFaults(p, x) BY <1>2, <1>3 DEF T!RemoveFaults
  <1>5. T!TAILQ_REMOVE(p, x) = p
    <2>1. [p.next EXCEPT ![q.prev[x]] = q.next[x]] = p.next
      BY <1>2 DEF T!TAILQ_REMOVE
    <2>2. [p.prev EXCEPT ![IF q.next[x] = NULL THEN Head ELSE q.next[x]] = q.prev[x]] = p.prev
      BY <1>2 DEF T!TAILQ_REMOVE
    <2>3. p = [next |-> p.next, prev |-> p.prev] BY DEF T!TAILQ_REMOVE
    <2>4. QED BY <1>3, <2>1, <2>2, <2>3 DEF T!TAILQ_REMOVE
  <1>6. QED BY <1>4, <1>5
\* TAILQ_INIT makes the list of nobody.
LEMMA ListInit == T!TAILQ_INIT \in T!TailqType /\ T!IsListOf(T!TAILQ_INIT, {})
  <1> USE EnvDistinct DEF T!Cell, T!TailqType, T!TAILQ_INIT
  <1>1. T!TAILQ_INIT \in T!TailqType OBVIOUS
  <1>2. T!LinksAgree(T!TAILQ_INIT, {}) BY DEF T!LinksAgree
  <1>3. Whole(T!TAILQ_INIT, {}) BY DEF Whole
  <1>4. QED
    <2>1. {} \in SUBSET Env OBVIOUS
    <2>2. QED BY <1>1, <1>2, <1>3, <2>1, ListIs, Zenon DEF T!IsListOf

-----------------------------------------------------------------------------
(* schedule() *)

RunnableIn(status) == {e \in Env : status[e] = "RUNNABLE"}

\* What schedule() may be called with: a list of the runnable environments,
\* and an e that is runnable, or blocked and already taken off the list.
Schedulable(list, status, e) ==
  /\ list \in T!TailqType
  /\ T!IsListOf(list, RunnableIn(status))
  /\ e \in Env \union {NULL}
  /\ e \in Env /\ status[e] # "RUNNABLE" =>
       ~T!RemoveFaults(list, e) /\ T!TAILQ_REMOVE(list, e) = list

\* Requeue leaves a list of the runnable environments; e is at its front only
\* if nobody else is runnable.
LEMMA RequeueKeeps ==
  ASSUME NEW list, NEW status, NEW e, Schedulable(list, status, e)
  PROVE  /\ Requeue(list, status, e) \in T!TailqType
         /\ T!IsListOf(Requeue(list, status, e), RunnableIn(status))
         /\ e \in Env => ~T!RemoveFaults(list, e)
         /\ e \in Env /\ T!TAILQ_FIRST(Requeue(list, status, e)) = e => RunnableIn(status) = {e}
  <1> DEFINE S == RunnableIn(status)
  <1>0. S \in SUBSET Env BY DEF RunnableIn
  <1>1. list \in T!TailqType /\ T!IsListOf(list, S) BY DEF Schedulable
  <1>2. CASE e = NULL
    BY <1>1, <1>2, EnvDistinct DEF Requeue
  <1>3. CASE e \in Env /\ status[e] = "RUNNABLE"
    <2> DEFINE rest == T!TAILQ_REMOVE(list, e)
    <2>1. e \in S BY <1>3 DEF RunnableIn
    <2>2. ~T!RemoveFaults(list, e) /\ rest \in T!TailqType /\ T!IsListOf(rest, S \ {e})
      BY <1>0, <1>1, <2>1, ListRemove, Zenon
    <2>3. Requeue(list, status, e) = T!TAILQ_INSERT_TAIL(rest, e)
      BY <1>3, EnvDistinct DEF Requeue
    <2>4. S \ {e} \in SUBSET Env /\ e \in Env \ (S \ {e}) BY <1>0, <2>1
    <2> HIDE DEF rest, S
    <2>5. /\ T!TAILQ_INSERT_TAIL(rest, e) \in T!TailqType
          /\ T!IsListOf(T!TAILQ_INSERT_TAIL(rest, e), (S \ {e}) \union {e})
          /\ T!TAILQ_FIRST(T!TAILQ_INSERT_TAIL(rest, e)) =
               IF S \ {e} = {} THEN e ELSE T!TAILQ_FIRST(rest)
      BY <2>2, <2>4, ListInsertTail, Zenon
    <2>6. (S \ {e}) \union {e} = S BY <2>1
    <2>7. S \ {e} # {} => T!TAILQ_FIRST(rest) # e
      <3>1. S \ {e} # {} => T!TAILQ_FIRST(rest) \in S \ {e} BY <2>2, <2>4, ListFirst
      <3>2. QED BY <3>1
    <2>8. S \ {e} = {} => S = {e} BY <2>1
    <2>9. /\ Requeue(list, status, e) \in T!TailqType
          /\ T!IsListOf(Requeue(list, status, e), S)
          /\ T!TAILQ_FIRST(Requeue(list, status, e)) = e => S = {e}
      BY <2>3, <2>5, <2>6, <2>7, <2>8
    <2>10. QED BY <2>2, <2>9 DEF S
  <1>4. CASE e \in Env /\ status[e] # "RUNNABLE"
    <2>1. ~T!RemoveFaults(list, e) /\ T!TAILQ_REMOVE(list, e) = list
      BY <1>4 DEF Schedulable
    <2>2. Requeue(list, status, e) = list
      BY <1>4, <2>1, EnvDistinct DEF Requeue
    <2>3. e \notin S BY <1>4 DEF RunnableIn
    <2>4. T!TAILQ_FIRST(list) # e
      <3> HIDE DEF S
      <3>1. T!TAILQ_FIRST(list) \in S \union {NULL} BY <1>0, <1>1, ListFirst
      <3>2. QED BY <2>3, <3>1, <1>4, EnvDistinct
    <2>5. QED BY <1>1, <2>1, <2>2, <2>4
  <1>5. QED BY <1>2, <1>3, <1>4 DEF Schedulable

\* schedule() stops the kernel only when nobody is runnable, and never by a
\* bad link or an assertion; otherwise it runs a runnable environment and
\* leaves a list of the runnable environments.
LEMMA ScheduleKeeps ==
  ASSUME NEW yield \in BOOLEAN, NEW list, NEW status, NEW e, Schedulable(list, status, e),
         count \in Nat,
         ThenSchedule(yield, list, status, e)
  PROVE  \/ /\ RunnableIn(status) = {}
            /\ Stop("idle")
         \/ /\ env_status' = status
            /\ env_sched_list' \in T!TailqType
            /\ T!IsListOf(env_sched_list', RunnableIn(status))
            /\ curenv' \in RunnableIn(status)
            /\ \/ count' = env_pri[curenv'] - 1
               \/ count # 0 /\ count' = count - 1
            /\ yield /\ curenv' = e => RunnableIn(status) = {e}
            /\ UNCHANGED halted
  <1> DEFINE S == RunnableIn(status)
             p == Requeue(list, status, e)
             n == NextEnv(yield, list, status, e)
  <1>0. S \in SUBSET Env BY DEF RunnableIn
  <1>1. /\ p \in T!TailqType /\ T!IsListOf(p, S)
        /\ e \in Env => ~T!RemoveFaults(list, e)
        /\ e \in Env /\ T!TAILQ_FIRST(p) = e => S = {e}
    BY RequeueKeeps
  <1>2. IF S = {} THEN T!TAILQ_FIRST(p) = NULL ELSE T!TAILQ_FIRST(p) \in S
    <2> HIDE DEF S, p
    <2>1. QED BY <1>0, <1>1, ListFirst
  <1>3. e \in Env \union {NULL} BY DEF Schedulable
  <1>4. CASE S = {}
    <2>1. e # NULL => status[e] # "RUNNABLE" BY <1>3, <1>4 DEF RunnableIn
    <2>2. n = NULL BY <1>2, <1>4, <2>1 DEF NextEnv, Switch
    <2>3. Stop(WhyNot(status)) BY <2>2 DEF ThenSchedule, ScheduleFails
    <2>4. WhyNot(status) = "idle" BY <1>4 DEF WhyNot, RunnableIn
    <2>5. QED BY <1>4, <2>3, <2>4
  <1>5. CASE S # {}
    <2>1. n \in S
      <3>1. CASE Switch(yield, status, e) BY <1>2, <1>5, <3>1 DEF NextEnv
      <3>2. CASE ~Switch(yield, status, e) BY <1>3, <3>2 DEF NextEnv, Switch, RunnableIn
      <3>3. QED BY <3>1, <3>2
    <2>2. n \in Env /\ status[n] = "RUNNABLE" BY <2>1 DEF RunnableIn
    <2>3. ~ScheduleFails(yield, list, status, e)
      BY <1>1, <1>3, <2>2, EnvDistinct DEF ScheduleFails
    <2>4. schedule(yield, list, status, e) BY <2>3 DEF ThenSchedule
    <2>5. env_status' = status /\ curenv' = n /\ UNCHANGED halted BY <2>4 DEF schedule
    <2>6. CASE Switch(yield, status, e)
      <3>1. env_sched_list' = p /\ count' = env_pri[curenv'] - 1
        BY <2>4, <2>5, <2>6 DEF schedule
      <3>2. curenv' = T!TAILQ_FIRST(p) BY <2>5, <2>6 DEF NextEnv
      <3>3. curenv' \in Env BY <2>2, <2>5
      <3>4. curenv' = e => S = {e} BY <1>1, <3>2, <3>3
      <3>5. QED BY <1>1, <2>1, <2>5, <3>1, <3>4
    <2>7. CASE ~Switch(yield, status, e)
      <3>1. env_sched_list' = list /\ count' = count - 1 /\ count # 0 /\ ~yield
        BY <2>4, <2>7 DEF schedule, Switch
      <3>2. QED BY <2>1, <2>5, <3>1 DEF Schedulable
    <2>8. QED BY <2>6, <2>7
  <1>6. QED BY <1>4, <1>5

-----------------------------------------------------------------------------
(* The inductive invariant *)

\* The environment that runs is runnable: nobody else can block it.
CurenvRuns == curenv # NULL => env_status[curenv] = "RUNNABLE"

\* A live environment has a slice to run: count never goes below zero.
HasSlice == \A e \in Live : env_pri[e] # 0

EInv ==
  /\ TypeOK
  /\ SchedListExact
  /\ RecvBlocked
  /\ SlotsExact
  /\ NoPanic
  /\ CurenvRuns
  /\ HasSlice

\* Runnable is RunnableIn of the statuses, now and after a step.
LEMMA RunnableIs ==
  /\ Runnable = RunnableIn(env_status)
  /\ Runnable' = RunnableIn(env_status')
  BY DEF Runnable, RunnableIn

\* Nothing of EInv is about variables that only stutter.
LEMMA StutterKeeps ==
  ASSUME EInv, UNCHANGED vars
  PROVE  EInv'
  BY DEF EInv, vars, running, ids, ipc, TypeOK, SchedListExact, RecvBlocked, SlotsExact, NoPanic,
         CurenvRuns, HasSlice, Runnable, Live

\* The kernel that stops for want of a runnable environment keeps everything.
LEMMA IdleKeeps ==
  ASSUME EInv, Stop("idle")
  PROVE  EInv'
  BY DEF EInv, Stop, running, ids, ipc, TypeOK, SchedListExact, RecvBlocked, SlotsExact, NoPanic,
         CurenvRuns, HasSlice, Runnable, Live

\* The timer, sys_yield and the first schedule(): no status changes.
LEMMA ScheduleOnlyKeeps ==
  ASSUME EInv, NEW yield \in BOOLEAN, NEW e \in {curenv, NULL},
         ThenSchedule(yield, env_sched_list, env_status, e),
         UNCHANGED <<ids, ipc>>
  PROVE  EInv'
  <1>1. TypeOK /\ SchedListExact /\ CurenvRuns BY DEF EInv
  <1>2. Schedulable(env_sched_list, env_status, e)
    BY <1>1, EnvDistinct, RunnableIs DEF Schedulable, TypeOK, SchedListExact, CurenvRuns
  <1>3. CASE Stop("idle") BY <1>3, IdleKeeps
  <1>4. CASE ~Stop("idle")
    <2>1. /\ env_status' = env_status
          /\ env_sched_list' \in T!TailqType
          /\ T!IsListOf(env_sched_list', RunnableIn(env_status))
          /\ curenv' \in RunnableIn(env_status)
          /\ \/ count' = env_pri[curenv'] - 1
             \/ count # 0 /\ count' = count - 1
          /\ UNCHANGED halted
      <3>1. count \in Nat BY <1>1 DEF TypeOK
      <3>2. QED BY <1>2, <1>4, <3>1, ScheduleKeeps
    <2>2. curenv' \in Env /\ env_status[curenv'] = "RUNNABLE" BY <2>1 DEF RunnableIn
    <2>3. count' \in Nat
      <3>1. env_pri[curenv'] \in Nat \ {0}
        BY <1>1, <2>2 DEF EInv, TypeOK, HasSlice, Live
      <3>2. count \in Nat BY <1>1 DEF TypeOK
      <3>3. QED BY <2>1, <3>1, <3>2
    <2>4. TypeOK' BY <1>1, <2>1, <2>2, <2>3 DEF TypeOK, ids, ipc
    <2>5. SchedListExact' BY <2>1, RunnableIs DEF SchedListExact
    <2>6. RecvBlocked' /\ SlotsExact' /\ NoPanic' /\ CurenvRuns' /\ HasSlice'
      BY <2>1, <2>2 DEF EInv, RecvBlocked, SlotsExact, NoPanic, CurenvRuns, HasSlice, Live, ids, ipc
    <2>7. QED BY <2>4, <2>5, <2>6 DEF EInv
  <1>5. QED BY <1>3, <1>4

\* The lowest free ASID is a free ASID.
LEMMA LowestIsFree ==
  ASSUME FreeAsid # {}
  PROVE  LowestAsid \in FreeAsid
  <1> DEFINE less == OpToRel(<, Nat)
  <1>1. FreeAsid \subseteq Nat BY EnvBounds DEF FreeAsid
  <1>2. IsWellFoundedOn(less, Nat) BY NatLessThanWellFounded
  <1>3. \E i \in FreeAsid : \A j \in FreeAsid : <<j, i>> \notin less
    <2> HIDE DEF less
    <2>1. QED BY <1>1, <1>2, WFMin
  <1>4. \E i \in FreeAsid : \A j \in FreeAsid : i <= j
    <2>1. PICK i \in FreeAsid : \A j \in FreeAsid : <<j, i>> \notin less BY <1>3
    <2>2. ASSUME NEW j \in FreeAsid PROVE i <= j
      <3>1. i \in Nat /\ j \in Nat BY <1>1
      <3>2. ~(j < i) BY <2>1, <3>1 DEF OpToRel
      <3>3. QED BY <3>1, <3>2
    <2>3. QED BY <2>2
  <1>5. QED BY <1>4 DEF LowestAsid

\* env_alloc gives a free slot an ASID that no live environment has.
LEMMA AllocKeeps ==
  ASSUME TypeOK, SlotsExact, NEW e \in env_free_list,
         NEW parent \in ((0..IDMOD - 1) \X Env) \union {NULL}, NEW pri \in Nat,
         env_alloc(e, parent, pri),
         NEW st \in {"RUNNABLE", "NOT_RUNNABLE"},
         env_status' = [env_status EXCEPT ![e] = st]
  PROVE  /\ SlotsExact'
         /\ e \in Env /\ env_status[e] = "FREE"
         /\ env_status' \in [Env -> {"FREE", "RUNNABLE", "NOT_RUNNABLE"}]
         /\ env_free_list' \subseteq Env
         /\ env_id' \in [Env -> 0..IDMOD - 1]
         /\ env_parent_id' \in [Env -> ((0..IDMOD - 1) \X Env) \union {NULL}]
         /\ env_pri' = [env_pri EXCEPT ![e] = pri]
         /\ env_pri' \in [Env -> Nat]
         /\ env_asid' \in [Env -> Nat]
         /\ asid_bitmap' \subseteq Asid
         /\ envid_count' \in 0..IDMOD - 1
         /\ Live' = Live \union {e}
  <1>1. e \in Env /\ env_status[e] = "FREE" BY DEF SlotsExact, Live
  <1>2. LowestAsid \in Asid /\ LowestAsid \notin asid_bitmap /\ LowestAsid \in Nat
    BY LowestIsFree, EnvBounds DEF env_alloc, FreeAsid
  <1>3. mkenvid \in 0..IDMOD - 1
    <2>1. envid_count + 1 \in Int /\ IDMOD \in Nat /\ IDMOD > 0
      BY EnvBounds DEF TypeOK
    <2>2. QED BY <2>1 DEF mkenvid
  <1>4. Live' = Live \union {e} BY <1>1 DEF Live, TypeOK
  <1>5. \A f \in Live : env_asid'[f] = env_asid[f] /\ f # e
    BY <1>1 DEF env_alloc, Live, TypeOK
  <1>6. env_asid'[e] = LowestAsid BY <1>1 DEF env_alloc, TypeOK
  <1>7. SlotsExact'
    <2>1. env_free_list' = Env \ Live' BY <1>4 DEF SlotsExact, env_alloc
    <2>2. \A f \in Live : env_asid[f] # LowestAsid BY <1>2 DEF SlotsExact
    <2>3. \A f \in Live' : \A g \in Live' : env_asid'[f] = env_asid'[g] => f = g
      BY <1>4, <1>5, <1>6, <2>2 DEF SlotsExact
    <2>4. asid_bitmap' = {env_asid'[f] : f \in Live'}
      <3>1. asid_bitmap' = {env_asid[f] : f \in Live} \union {LowestAsid}
        BY DEF SlotsExact, env_alloc
      <3>2. {env_asid'[f] : f \in Live \union {e}} = {env_asid[f] : f \in Live} \union {LowestAsid}
        BY <1>5, <1>6
      <3>3. QED BY <1>4, <3>1, <3>2
    <2>5. QED BY <2>1, <2>3, <2>4 DEF SlotsExact
  <1>8. QED BY <1>1, <1>2, <1>3, <1>4, <1>7 DEF env_alloc, TypeOK

\* One more runnable environment, at the head of the list.
LEMMA HeadKeeps ==
  ASSUME TypeOK, SchedListExact, NEW e \in Env, env_status[e] # "RUNNABLE",
         env_status' = [env_status EXCEPT ![e] = "RUNNABLE"],
         env_sched_list' = T!TAILQ_INSERT_HEAD(env_sched_list, e)
  PROVE  env_sched_list' \in T!TailqType /\ SchedListExact'
  <1>1. Runnable \in SUBSET Env /\ e \in Env \ Runnable BY DEF Runnable
  <1>2. Runnable' = Runnable \union {e} BY DEF Runnable, TypeOK
  <1>3. QED BY <1>1, <1>2, ListInsertHead DEF SchedListExact, TypeOK

\* One more runnable environment, at the tail of the list.
LEMMA TailKeeps ==
  ASSUME TypeOK, SchedListExact, NEW e \in Env, env_status[e] # "RUNNABLE",
         env_status' = [env_status EXCEPT ![e] = "RUNNABLE"],
         env_sched_list' = T!TAILQ_INSERT_TAIL(env_sched_list, e)
  PROVE  env_sched_list' \in T!TailqType /\ SchedListExact'
  <1>1. Runnable \in SUBSET Env /\ e \in Env \ Runnable BY DEF Runnable
  <1>2. Runnable' = Runnable \union {e} BY DEF Runnable, TypeOK
  <1>3. QED BY <1>1, <1>2, ListInsertTail DEF SchedListExact, TypeOK

\* One runnable environment less.
LEMMA OffKeeps ==
  ASSUME TypeOK, SchedListExact, NEW e \in Env, env_status[e] = "RUNNABLE",
         NEW st \in {"FREE", "NOT_RUNNABLE"}
  PROVE  LET list == T!TAILQ_REMOVE(env_sched_list, e)
             status == [env_status EXCEPT ![e] = st] IN
         /\ ~T!RemoveFaults(env_sched_list, e)
         /\ list \in T!TailqType
         /\ T!IsListOf(list, RunnableIn(status))
         /\ ~T!RemoveFaults(list, e) /\ T!TAILQ_REMOVE(list, e) = list
  <1>1. Runnable \in SUBSET Env /\ e \in Runnable BY DEF Runnable
  <1>2. RunnableIn([env_status EXCEPT ![e] = st]) = Runnable \ {e}
    BY DEF Runnable, RunnableIn, TypeOK
  <1>3. env_sched_list \in T!TailqType /\ T!IsListOf(env_sched_list, Runnable)
    BY DEF SchedListExact, TypeOK
  <1>4. /\ ~T!RemoveFaults(env_sched_list, e)
        /\ T!TAILQ_REMOVE(env_sched_list, e) \in T!TailqType
        /\ T!IsListOf(T!TAILQ_REMOVE(env_sched_list, e), Runnable \ {e})
    BY <1>1, <1>3, ListRemove
  <1>5. /\ ~T!RemoveFaults(T!TAILQ_REMOVE(env_sched_list, e), e)
        /\ T!TAILQ_REMOVE(T!TAILQ_REMOVE(env_sched_list, e), e) = T!TAILQ_REMOVE(env_sched_list, e)
    BY <1>1, <1>3, RemoveAgain
  <1>6. QED BY <1>2, <1>4, <1>5

\* env_create, before the first schedule().
LEMMA CreateKeeps ==
  ASSUME EInv, NEW e \in Env, NEW pri \in BootPri, env_create(e, pri)
  PROVE  EInv'
  <1> DEFINE P == ((0..IDMOD - 1) \X Env) \union {NULL}
  <1>1. TypeOK /\ SlotsExact /\ SchedListExact BY DEF EInv
  <1>2. /\ env_alloc(e, NULL, pri) /\ e \in env_free_list
        /\ env_status' = [env_status EXCEPT ![e] = "RUNNABLE"]
        /\ env_sched_list' = T!TAILQ_INSERT_HEAD(env_sched_list, e)
        /\ UNCHANGED <<curenv, count, ipc, halted>> /\ curenv = NULL
    BY DEF env_create
  <1>3. pri \in Nat /\ pri # 0 /\ NULL \in P BY EnvBounds
  <1>4. /\ SlotsExact'
        /\ e \in Env /\ env_status[e] = "FREE"
        /\ env_status' \in [Env -> {"FREE", "RUNNABLE", "NOT_RUNNABLE"}]
        /\ env_free_list' \subseteq Env
        /\ env_id' \in [Env -> 0..IDMOD - 1]
        /\ env_parent_id' \in [Env -> P]
        /\ env_pri' = [env_pri EXCEPT ![e] = pri]
        /\ env_pri' \in [Env -> Nat]
        /\ env_asid' \in [Env -> Nat]
        /\ asid_bitmap' \subseteq Asid
        /\ envid_count' \in 0..IDMOD - 1
        /\ Live' = Live \union {e}
    BY <1>1, <1>2, <1>3, AllocKeeps
  <1>5. env_sched_list' \in T!TailqType /\ SchedListExact' BY <1>1, <1>2, <1>4, HeadKeeps
  <1>6. TypeOK' BY <1>1, <1>2, <1>4, <1>5 DEF TypeOK, ipc
  <1>7. RecvBlocked' BY <1>1, <1>2, <1>4 DEF EInv, RecvBlocked, TypeOK, ipc
  <1>8. NoPanic' /\ CurenvRuns' BY <1>2 DEF EInv, NoPanic, CurenvRuns
  <1>9. HasSlice'
    <2>1. \A f \in Live : f # e BY <1>4 DEF Live
    <2>2. QED BY <1>1, <1>3, <1>4, <2>1 DEF EInv, HasSlice, TypeOK, Live
  <1>10. QED BY <1>4, <1>5, <1>6, <1>7, <1>8, <1>9 DEF EInv

\* sys_exofork: a child that is not on the list, or a slot that keeps only a
\* new id when the ASIDs have run out.
LEMMA ExoforkKeeps ==
  ASSUME EInv, NEW e \in Env, sys_exofork(e)
  PROVE  EInv'
  <1> DEFINE P == ((0..IDMOD - 1) \X Env) \union {NULL}
  <1>1. TypeOK /\ SlotsExact /\ SchedListExact /\ CurenvRuns BY DEF EInv
  <1>2. /\ e \in env_free_list /\ curenv \in Env
        /\ UNCHANGED <<env_sched_list, curenv, count, ipc, halted>>
    BY <1>1 DEF sys_exofork, Running, TypeOK
  <1>3. e \in Env /\ env_status[e] = "FREE" BY <1>1, <1>2 DEF SlotsExact, Live
  <1>4. CASE /\ env_alloc(e, Id(curenv), env_pri[curenv])
             /\ env_status' = [env_status EXCEPT ![e] = "NOT_RUNNABLE"]
    <2>1. Id(curenv) \in P /\ env_pri[curenv] \in Nat BY <1>1, <1>2 DEF Id, TypeOK
    <2>2. env_pri[curenv] # 0
      BY <1>1, <1>2, EnvDistinct DEF EInv, HasSlice, Live, CurenvRuns
    <2>3. /\ SlotsExact'
          /\ env_status' \in [Env -> {"FREE", "RUNNABLE", "NOT_RUNNABLE"}]
          /\ env_free_list' \subseteq Env
          /\ env_id' \in [Env -> 0..IDMOD - 1]
          /\ env_parent_id' \in [Env -> P]
          /\ env_pri' = [env_pri EXCEPT ![e] = env_pri[curenv]]
          /\ env_pri' \in [Env -> Nat]
          /\ env_asid' \in [Env -> Nat]
          /\ asid_bitmap' \subseteq Asid
          /\ envid_count' \in 0..IDMOD - 1
          /\ Live' = Live \union {e}
      BY <1>1, <1>2, <1>4, <2>1, AllocKeeps
    <2>4. TypeOK' BY <1>1, <1>2, <2>3 DEF TypeOK, ipc
    <2>5. Runnable' = Runnable BY <1>1, <1>3, <1>4 DEF Runnable, TypeOK
    <2>6. SchedListExact' BY <1>1, <1>2, <2>5 DEF SchedListExact
    <2>7. RecvBlocked' /\ NoPanic' /\ CurenvRuns'
      BY <1>1, <1>2, <1>3, <1>4 DEF EInv, RecvBlocked, NoPanic, CurenvRuns, TypeOK, ipc
    <2>8. HasSlice'
      <3>1. \A f \in Live : f # e BY <1>3 DEF Live
      <3>2. QED BY <1>1, <1>3, <2>2, <2>3, <3>1 DEF EInv, HasSlice, TypeOK, Live
    <2>9. QED BY <2>3, <2>4, <2>6, <2>7, <2>8 DEF EInv
  <1>5. CASE EnvAllocNoAsid(e) /\ UNCHANGED env_status
    <2>1. mkenvid \in 0..IDMOD - 1
      <3>1. envid_count + 1 \in Int /\ IDMOD \in Nat /\ IDMOD > 0
        BY <1>1, EnvBounds DEF TypeOK
      <3>2. QED BY <3>1 DEF mkenvid
    <2>2. TypeOK' BY <1>1, <1>2, <1>5, <2>1 DEF TypeOK, EnvAllocNoAsid, ipc
    <2>3. Runnable' = Runnable /\ Live' = Live BY <1>5 DEF Runnable, Live
    <2>4. SchedListExact' /\ SlotsExact' /\ HasSlice'
      BY <1>1, <1>2, <1>5, <2>3 DEF EInv, SchedListExact, SlotsExact, HasSlice, EnvAllocNoAsid
    <2>5. RecvBlocked' /\ NoPanic' /\ CurenvRuns'
      BY <1>2, <1>5 DEF EInv, RecvBlocked, NoPanic, CurenvRuns, ipc
    <2>6. QED BY <2>2, <2>4, <2>5 DEF EInv
  <1>6. QED BY <1>4, <1>5 DEF sys_exofork

\* sys_set_env_status by the user library: a child is made runnable that does
\* not wait, or a runnable child is paused.
LEMMA SetStatusKeeps ==
  ASSUME EInv, NEW e \in Env, NEW st \in {"RUNNABLE", "NOT_RUNNABLE"}, LibStatus(e, st),
         sys_set_env_status(e, st)
  PROVE  EInv'
  <1>1. TypeOK /\ SlotsExact /\ SchedListExact /\ CurenvRuns /\ RecvBlocked BY DEF EInv
  <1>2. env_status[e] # "FREE" /\ env_status[e] # st BY DEF sys_set_env_status, MayControl
  <1>3. st = "NOT_RUNNABLE" => env_status[e] = "RUNNABLE" /\ ~T!RemoveFaults(env_sched_list, e)
    <2>1. st = "NOT_RUNNABLE" => env_status[e] = "RUNNABLE" BY <1>1, <1>2 DEF TypeOK
    <2>2. QED BY <1>1, <2>1, OffKeeps
  <1>4. /\ env_sched_list' = IF st = "RUNNABLE" THEN T!TAILQ_INSERT_HEAD(env_sched_list, e)
                             ELSE T!TAILQ_REMOVE(env_sched_list, e)
        /\ env_status' = [env_status EXCEPT ![e] = st]
        /\ UNCHANGED <<curenv, count, ids, ipc, halted>>
    BY <1>3 DEF sys_set_env_status
  <1>5. env_sched_list' \in T!TailqType /\ SchedListExact'
    <2>1. CASE st = "RUNNABLE"
      <3>1. env_sched_list' = T!TAILQ_INSERT_HEAD(env_sched_list, e) BY <1>4, <2>1
      <3>2. QED BY <1>1, <1>2, <1>4, <2>1, <3>1, HeadKeeps
    <2>2. CASE st = "NOT_RUNNABLE"
      <3>1. env_sched_list' = T!TAILQ_REMOVE(env_sched_list, e) BY <1>4, <2>2
      <3>2. /\ env_sched_list' \in T!TailqType
            /\ T!IsListOf(env_sched_list', RunnableIn(env_status'))
        BY <1>1, <1>3, <1>4, <2>2, <3>1, OffKeeps
      <3>3. QED BY <3>2, RunnableIs DEF SchedListExact
    <2>3. QED BY <2>1, <2>2
  <1>6. TypeOK' BY <1>1, <1>4, <1>5 DEF TypeOK, ids, ipc
  <1>7. Live' = Live BY <1>1, <1>2, <1>4 DEF Live, TypeOK
  <1>8. SlotsExact' /\ HasSlice' BY <1>1, <1>4, <1>7 DEF EInv, SlotsExact, HasSlice, ids
  <1>9. RecvBlocked' BY <1>1, <1>4 DEF RecvBlocked, TypeOK, LibStatus, ipc
  <1>10. CurenvRuns' BY <1>1, <1>4 DEF CurenvRuns, TypeOK, LibStatus
  <1>11. NoPanic' BY <1>4 DEF EInv, NoPanic
  <1>12. QED BY <1>5, <1>6, <1>8, <1>9, <1>10, <1>11 DEF EInv

\* env_destroy of a runnable environment gives back its slot and its ASID,
\* and goes on with another one if it was curenv.
LEMMA DestroyKeeps ==
  ASSUME EInv, NEW e \in Env, LibDestroy(e), sys_env_destroy(e)
  PROVE  EInv'
  <1> DEFINE list == T!TAILQ_REMOVE(env_sched_list, e)
             status == [env_status EXCEPT ![e] = "FREE"]
  <1>1. TypeOK /\ SlotsExact /\ SchedListExact /\ CurenvRuns /\ RecvBlocked BY DEF EInv
  <1>2. env_status[e] = "RUNNABLE" BY DEF LibDestroy
  <1>3. /\ ~T!RemoveFaults(env_sched_list, e)
        /\ list \in T!TailqType
        /\ T!IsListOf(list, RunnableIn(status))
    BY <1>1, <1>2, OffKeeps
  <1>4. /\ IF e = curenv THEN ThenSchedule(TRUE, list, status, NULL)
           ELSE /\ env_status' = status /\ env_sched_list' = list
                /\ UNCHANGED <<curenv, count, halted>>
        /\ IF halted' = "no"
             THEN /\ asid_bitmap' = asid_free(env_asid[e])
                  /\ env_free_list' = env_free_list \union {e}
                  /\ UNCHANGED <<env_id, env_parent_id, env_pri, env_asid, envid_count>>
             ELSE UNCHANGED ids
        /\ UNCHANGED ipc
        /\ halted = "no" /\ curenv # NULL
    BY <1>3 DEF sys_env_destroy, Running
  <1> HIDE DEF list
  <1>5. CASE Stop("idle") BY <1>5, IdleKeeps
  <1>6. CASE ~Stop("idle")
    <2>1. /\ env_status' = status
          /\ env_sched_list' \in T!TailqType
          /\ T!IsListOf(env_sched_list', RunnableIn(status))
          /\ curenv' \in RunnableIn(status)
          /\ \/ count' = env_pri[curenv'] - 1
             \/ count' = count
             \/ count # 0 /\ count' = count - 1
          /\ UNCHANGED halted
      <3>1. CASE e = curenv
        <4>1. Schedulable(list, status, NULL) BY <1>3, EnvDistinct DEF Schedulable
        <4>2. ThenSchedule(TRUE, list, status, NULL) /\ count \in Nat BY <1>1, <1>4, <3>1 DEF TypeOK
        <4>3. QED BY <1>6, <4>1, <4>2, ScheduleKeeps
      <3>2. CASE e # curenv
        <4>1. curenv \in RunnableIn(status)
          BY <1>1, <1>4, <3>2 DEF RunnableIn, CurenvRuns, TypeOK
        <4>2. QED BY <1>3, <1>4, <3>2, <4>1
      <3>3. QED BY <3>1, <3>2
    <2>2. curenv' \in Env /\ status[curenv'] = "RUNNABLE" BY <2>1 DEF RunnableIn
    <2>3. count' \in Nat
      <3>1. curenv' \in Live BY <1>1, <1>2, <2>2 DEF Live, TypeOK
      <3>2. env_pri[curenv'] \in Nat \ {0} BY <1>1, <2>2, <3>1 DEF EInv, HasSlice, TypeOK
      <3>3. count \in Nat BY <1>1 DEF TypeOK
      <3>4. QED BY <2>1, <3>2, <3>3
    <2>4. /\ asid_bitmap' = asid_bitmap \ {env_asid[e]}
          /\ env_free_list' = env_free_list \union {e}
          /\ UNCHANGED <<env_id, env_parent_id, env_pri, env_asid, envid_count>>
          /\ UNCHANGED ipc /\ halted' = "no"
      BY <1>4, <2>1 DEF asid_free
    <2>5. TypeOK' BY <1>1, <2>1, <2>2, <2>3, <2>4 DEF TypeOK, ipc
    <2>6. SchedListExact' BY <2>1, RunnableIs DEF SchedListExact
    <2>7. Live' = Live \ {e} /\ e \in Live BY <1>1, <1>2, <2>1 DEF Live, TypeOK
    <2>8. SlotsExact'
      <3>1. env_free_list' = Env \ Live' BY <1>1, <2>4, <2>7 DEF SlotsExact
      <3>2. \A f \in Live' : \A g \in Live' : env_asid'[f] = env_asid'[g] => f = g
        BY <1>1, <2>4, <2>7 DEF SlotsExact
      <3>3. asid_bitmap' = {env_asid'[f] : f \in Live'}
        BY <1>1, <2>4, <2>7 DEF SlotsExact
      <3>4. QED BY <3>1, <3>2, <3>3 DEF SlotsExact
    <2>9. RecvBlocked' BY <1>1, <1>2, <2>1, <2>4 DEF RecvBlocked, TypeOK, ipc
    <2>10. CurenvRuns' /\ NoPanic' BY <2>1, <2>2, <2>4 DEF CurenvRuns, NoPanic
    <2>11. HasSlice' BY <2>4, <2>7 DEF EInv, HasSlice
    <2>12. QED BY <2>5, <2>6, <2>8, <2>9, <2>10, <2>11 DEF EInv
  <1>7. QED BY <1>5, <1>6

\* sys_ipc_recv blocks curenv and takes it off the list, which schedule() then
\* does again.
LEMMA RecvKeeps ==
  ASSUME EInv, sys_ipc_recv
  PROVE  EInv'
  <1> DEFINE list == T!TAILQ_REMOVE(env_sched_list, curenv)
             status == [env_status EXCEPT ![curenv] = "NOT_RUNNABLE"]
  <1>1. TypeOK /\ SlotsExact /\ SchedListExact /\ CurenvRuns /\ RecvBlocked BY DEF EInv
  <1>2. /\ ThenSchedule(TRUE, list, status, curenv)
        /\ IF halted' = "no"
             THEN env_ipc_recving' = [env_ipc_recving EXCEPT ![curenv] = TRUE]
             ELSE UNCHANGED env_ipc_recving
        /\ UNCHANGED <<ids, env_ipc_from>>
        /\ halted = "no" /\ curenv # NULL
    BY DEF sys_ipc_recv, Running
  <1>3. curenv \in Env /\ env_status[curenv] = "RUNNABLE" BY <1>1, <1>2 DEF TypeOK, CurenvRuns
  <1>4. /\ list \in T!TailqType
        /\ T!IsListOf(list, RunnableIn(status))
        /\ ~T!RemoveFaults(list, curenv) /\ T!TAILQ_REMOVE(list, curenv) = list
    BY <1>1, <1>3, OffKeeps
  <1> HIDE DEF list
  <1>5. Schedulable(list, status, curenv) BY <1>3, <1>4 DEF Schedulable
  <1>6. CASE Stop("idle") BY <1>6, IdleKeeps
  <1>7. CASE ~Stop("idle")
    <2>1. /\ env_status' = status
          /\ env_sched_list' \in T!TailqType
          /\ T!IsListOf(env_sched_list', RunnableIn(status))
          /\ curenv' \in RunnableIn(status)
          /\ \/ count' = env_pri[curenv'] - 1
             \/ count # 0 /\ count' = count - 1
          /\ UNCHANGED halted
      <3>1. count \in Nat BY <1>1 DEF TypeOK
      <3>2. QED BY <1>2, <1>5, <1>7, <3>1, ScheduleKeeps
    <2>2. curenv' \in Env /\ status[curenv'] = "RUNNABLE" BY <2>1 DEF RunnableIn
    <2>3. count' \in Nat
      <3>1. curenv' \in Live BY <1>1, <1>3, <2>2 DEF Live, TypeOK
      <3>2. env_pri[curenv'] \in Nat \ {0} BY <1>1, <2>2, <3>1 DEF EInv, HasSlice, TypeOK
      <3>3. count \in Nat BY <1>1 DEF TypeOK
      <3>4. QED BY <2>1, <3>2, <3>3
    <2>4. /\ env_ipc_recving' = [env_ipc_recving EXCEPT ![curenv] = TRUE]
          /\ halted' = "no"
      BY <1>2, <2>1
    <2>5. TypeOK' BY <1>1, <1>2, <1>3, <2>1, <2>2, <2>3, <2>4 DEF TypeOK, ids
    <2>6. SchedListExact' BY <2>1, RunnableIs DEF SchedListExact
    <2>7. Live' = Live BY <1>1, <1>3, <2>1 DEF Live, TypeOK
    <2>8. SlotsExact' /\ HasSlice' BY <1>1, <1>2, <2>7 DEF EInv, SlotsExact, HasSlice, ids
    <2>9. RecvBlocked' BY <1>1, <1>3, <2>1, <2>4 DEF RecvBlocked, TypeOK
    <2>10. CurenvRuns' /\ NoPanic' BY <2>1, <2>2, <2>4 DEF CurenvRuns, NoPanic
    <2>11. QED BY <2>5, <2>6, <2>8, <2>9, <2>10 DEF EInv
  <1>8. QED BY <1>6, <1>7

\* sys_ipc_try_send wakes an environment that waits, hence is not on the list.
LEMMA SendKeeps ==
  ASSUME EInv, NEW e \in Env, sys_ipc_try_send(e)
  PROVE  EInv'
  <1>1. TypeOK /\ SlotsExact /\ SchedListExact /\ CurenvRuns /\ RecvBlocked BY DEF EInv
  <1>2. /\ env_ipc_recving[e] /\ curenv # NULL
        /\ env_ipc_recving' = [env_ipc_recving EXCEPT ![e] = FALSE]
        /\ env_ipc_from' = [env_ipc_from EXCEPT ![e] = Id(curenv)]
        /\ env_status' = [env_status EXCEPT ![e] = "RUNNABLE"]
        /\ env_sched_list' = T!TAILQ_INSERT_TAIL(env_sched_list, e)
        /\ UNCHANGED <<curenv, count, ids, halted>>
    BY DEF sys_ipc_try_send, MayReceive, Delivered, Running
  <1>3. env_status[e] = "NOT_RUNNABLE" BY <1>1, <1>2 DEF RecvBlocked
  <1>4. env_sched_list' \in T!TailqType /\ SchedListExact' BY <1>1, <1>2, <1>3, TailKeeps
  <1>5. TypeOK'
    <2>1. Id(curenv) \in (0..IDMOD - 1) \X Env BY <1>1, <1>2 DEF Id, TypeOK
    <2>2. QED BY <1>1, <1>2, <1>4, <2>1 DEF TypeOK, ids
  <1>6. Live' = Live BY <1>1, <1>2, <1>3 DEF Live, TypeOK
  <1>7. SlotsExact' /\ HasSlice' BY <1>1, <1>2, <1>6 DEF EInv, SlotsExact, HasSlice, ids
  <1>8. RecvBlocked' BY <1>1, <1>2 DEF RecvBlocked, TypeOK
  <1>9. CurenvRuns' BY <1>1, <1>2 DEF CurenvRuns, TypeOK
  <1>10. NoPanic' BY <1>2 DEF EInv, NoPanic
  <1>11. QED BY <1>4, <1>5, <1>7, <1>8, <1>9, <1>10 DEF EInv

-----------------------------------------------------------------------------
(* The theorems *)

\* env_init: all slots free, an empty list, nothing running.
LEMMA InitHolds == Init => EInv
  <1>1. SUFFICES ASSUME Init PROVE EInv OBVIOUS
  <1>2. Runnable = {} /\ Live = {} BY <1>1 DEF Init, Runnable, Live
  <1>3. TypeOK BY <1>1, ListInit, EnvBounds DEF Init, TypeOK
  <1>4. SchedListExact BY <1>1, <1>2, ListInit DEF Init, SchedListExact
  <1>5. RecvBlocked /\ NoPanic /\ CurenvRuns BY <1>1 DEF Init, RecvBlocked, NoPanic, CurenvRuns
  <1>6. SlotsExact /\ HasSlice BY <1>1, <1>2 DEF Init, SlotsExact, HasSlice
  <1>7. QED BY <1>3, <1>4, <1>5, <1>6 DEF EInv

\* Every system call, the timer and the boot keep the invariant.
LEMMA NextKeeps ==
  ASSUME EInv, [LibNext]_vars
  PROVE  EInv'
  <1>1. CASE \E e \in Env : \E pri \in BootPri : env_create(e, pri) BY <1>1, CreateKeeps
  <1>2. CASE Start
    <2>1. ThenSchedule(FALSE, env_sched_list, env_status, NULL) /\ UNCHANGED <<ids, ipc>>
      BY <1>2 DEF Start
    <2>2. QED BY <2>1, ScheduleOnlyKeeps
  <1>3. CASE Timer
    <2>1. ThenSchedule(FALSE, env_sched_list, env_status, curenv) /\ UNCHANGED <<ids, ipc>>
      BY <1>3 DEF Timer
    <2>2. QED BY <2>1, ScheduleOnlyKeeps
  <1>4. CASE sys_yield
    <2>1. ThenSchedule(TRUE, env_sched_list, env_status, curenv) /\ UNCHANGED <<ids, ipc>>
      BY <1>4 DEF sys_yield
    <2>2. QED BY <2>1, ScheduleOnlyKeeps
  <1>5. CASE \E e \in Env : LibExofork /\ sys_exofork(e) BY <1>5, ExoforkKeeps
  <1>6. CASE \E e \in Env : \E status \in {"RUNNABLE", "NOT_RUNNABLE"} :
               LibStatus(e, status) /\ sys_set_env_status(e, status)
    BY <1>6, SetStatusKeeps
  <1>7. CASE \E e \in Env : LibDestroy(e) /\ sys_env_destroy(e) BY <1>7, DestroyKeeps
  <1>8. CASE sys_ipc_recv BY <1>8, RecvKeeps
  <1>9. CASE \E e \in Env : sys_ipc_try_send(e) BY <1>9, SendKeeps
  <1>10. CASE Halted BY <1>10, StutterKeeps DEF Halted
  <1>11. CASE UNCHANGED vars BY <1>11, StutterKeeps
  <1>12. QED
    BY <1>1, <1>2, <1>3, <1>4, <1>5, <1>6, <1>7, <1>8, <1>9, <1>10, <1>11 DEF LibNext

(***************************************************************************)
(* env.c, sched.c and the environment and IPC system calls keep the whole  *)
(* invariant for every number of slots, ASIDs, ids, boot environments and  *)
(* priorities, under the calls the user library makes.                     *)
(***************************************************************************)
THEOREM EInvHolds == LibSpec => []EInv
  <1>1. Init => EInv BY InitHolds
  <1>2. EInv /\ [LibNext]_vars => EInv' BY NextKeeps
  <1>3. QED BY <1>1, <1>2, PTL DEF LibSpec

\* Ids, ASIDs, links, slices and statuses keep their types: count does not go
\* below zero although it is reloaded with env_pri - 1.
THEOREM EnvTypesHold == LibSpec => []TypeOK
  <1>1. EInv => TypeOK BY DEF EInv
  <1>2. QED BY <1>1, EInvHolds, PTL

\* kern/env.c: "'env' in 'env_sched_list' iff 'env->env_status' is
\* 'RUNNABLE'", down to the links: one list, without a loop.
THEOREM SchedListExactHolds == LibSpec => []SchedListExact
  <1>1. EInv => SchedListExact BY DEF EInv
  <1>2. QED BY <1>1, EInvHolds, PTL

\* A message is never written into an environment that runs.
THEOREM RecvBlockedHolds == LibSpec => []RecvBlocked
  <1>1. EInv => RecvBlocked BY DEF EInv
  <1>2. QED BY <1>1, EInvHolds, PTL

\* The free list, the statuses and the ASID bitmap agree, and no two live
\* environments share an ASID, through env_alloc, env_free and failures.
THEOREM SlotsExactHolds == LibSpec => []SlotsExact
  <1>1. EInv => SlotsExact BY DEF EInv
  <1>2. QED BY <1>1, EInvHolds, PTL

\* schedule() and env_run never fault or assert: the kernel stops only when
\* no environment is runnable.
THEOREM EnvNoPanicHolds == LibSpec => []NoPanic
  <1>1. EInv => NoPanic BY DEF EInv
  <1>2. QED BY <1>1, EInvHolds, PTL

\* kern/sched.c: "If 'yield' is set (non-zero), 'curenv' should not be
\* scheduled again unless it is the only runnable env."
THEOREM YieldSwitchesHolds == LibSpec => YieldSwitches
  <1> DEFINE Yields == sys_yield /\ halted' = "no" /\ curenv' = curenv => Runnable = {curenv}
  <1>1. ASSUME EInv, sys_yield, halted' = "no", curenv' = curenv PROVE Runnable = {curenv}
    <2>1. TypeOK /\ SchedListExact /\ CurenvRuns BY <1>1 DEF EInv
    <2>2. Schedulable(env_sched_list, env_status, curenv)
      BY <2>1, EnvDistinct, RunnableIs DEF Schedulable, TypeOK, SchedListExact, CurenvRuns
    <2>3. ThenSchedule(TRUE, env_sched_list, env_status, curenv) /\ count \in Nat
      BY <1>1, <2>1 DEF sys_yield, TypeOK
    <2>4. ~Stop("idle") BY <1>1 DEF Stop
    <2>5. RunnableIn(env_status) = {curenv} BY <1>1, <2>2, <2>3, <2>4, ScheduleKeeps
    <2>6. QED BY <2>5, RunnableIs
  <1>2. EInv /\ [LibNext]_vars => [Yields]_vars BY <1>1
  <1>3. QED BY <1>2, EInvHolds, PTL DEF LibSpec, YieldSwitches

=============================================================================
