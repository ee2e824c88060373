-------------------------------- MODULE Tailq -------------------------------
(***************************************************************************)
(* The tail queues of include/queue.h, at the level of their pointers.     *)
(*                                                                         *)
(* A queue is a record q of two functions over cells.  The cell of an      *)
(* element x holds x's links, the cell Head the two fields of the queue:   *)
(*   q.next[x] = tqe_next       q.next[Head] = tqh_first                   *)
(*   q.prev[x] = tqe_prev       q.prev[Head] = tqh_last                    *)
(* tqe_prev and tqh_last are addresses of a tqe_next or tqh_first field:   *)
(* the cell that holds the field stands for its address.                   *)
(***************************************************************************)
EXTENDS Naturals, FiniteSets

CONSTANTS Elem, Head, NULL   \* Head and NULL are not elements, and differ

Cell == Elem \union {Head}
TailqType == [next : [Cell -> Elem \union {NULL}], prev : [Cell -> Cell \union {NULL}]]

\* TAILQ_INIT, with every element zeroed by the loader.
TAILQ_INIT ==
  [next |-> [c \in Cell |-> NULL],
   prev |-> [c \in Cell |-> IF c = Head THEN Head ELSE NULL]]

TAILQ_FIRST(q) == q.next[Head]

TAILQ_INSERT_HEAD(q, x) ==
  LET first == q.next[Head]
      after == IF first = NULL THEN Head ELSE first IN
  [next |-> [q.next EXCEPT ![x] = first, ![Head] = x],
   prev |-> [q.prev EXCEPT ![after] = x, ![x] = Head]]

TAILQ_INSERT_TAIL(q, x) ==
  LET last == q.prev[Head] IN
  [next |-> [q.next EXCEPT ![x] = NULL, ![last] = x],
   prev |-> [q.prev EXCEPT ![x] = last, ![Head] = x]]

\* Writes through the element's tqe_prev, whatever it points to; the links
\* of the removed element itself are left as they are.
TAILQ_REMOVE(q, x) ==
  LET after == IF q.next[x] = NULL THEN Head ELSE q.next[x] IN
  [next |-> [q.next EXCEPT ![q.prev[x]] = q.next[x]],
   prev |-> [q.prev EXCEPT ![after] = q.prev[x]]]

\* TAILQ_REMOVE of an element that was never inserted writes to address 0.
RemoveFaults(q, x) == q.prev[x] = NULL

\* What TAILQ_FOREACH meets, going from Head along next: the elements that no
\* set of cells closed under next and with Head in it leaves out.
Closed(q, R) == \A c \in R : q.next[c] \in R \union {NULL}
Elements(q) ==
  LET closed == {R \in SUBSET Elem : Closed(q, R \union {Head})} IN
  {x \in Elem : \A R \in closed : x \in R}

\* Every link and its back link agree, over exactly the elements of S.
LinksAgree(q, S) ==
  /\ \A c \in S \union {Head} :
       /\ q.next[c] \in S \union {NULL}
       /\ q.prev[c] \in S \union {Head}
       /\ q.next[c] # NULL => q.prev[q.next[c]] = c
  /\ \A x \in S : q.next[q.prev[x]] = x
  /\ q.next[q.prev[Head]] = NULL

\* q is a finite list of the elements of S, each of them once.
IsListOf(q, S) == LinksAgree(q, S) /\ Elements(q) = S

=============================================================================
