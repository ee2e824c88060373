------------------------------ MODULE EnvSched ------------------------------
(***************************************************************************)
(* Environments: their slots, ids and ASIDs (kern/env.c), the scheduler    *)
(* (kern/sched.c), and the system calls that create, stop, destroy and     *)
(* block them (kern/syscall_all.c).  env_sched_list is a Tailq: the code   *)
(* removes and inserts without looking, so what a second removal or        *)
(* insertion does to the links is part of the behaviour.                   *)
(*                                                                         *)
(* Interrupts are off in the kernel: a system call and the schedule() it   *)
(* ends in are one action of curenv.  The address spaces are Pmap's; the   *)
(* page that an IPC message may carry is Pmap's ipc_page.                  *)
(***************************************************************************)
EXTENDS Integers, FiniteSets

CONSTANTS
  Env,      \* the slots of envs[] (NENV)
  Head, NULL,
  Asid,     \* 0..NASID-1
  IDMOD,    \* distinct values of the counter in an env id (2^21)
  Boot,     \* number of environments env_create makes before the first schedule
  BootPri   \* the priorities ENV_CREATE_PRIORITY may give

T == INSTANCE Tailq WITH Elem <- Env

ASSUME EnvFinite == IsFiniteSet(Env) /\ Env # {}
ASSUME EnvDistinct == Head \notin Env /\ NULL \notin Env /\ Head # NULL
ASSUME EnvBounds ==
  /\ Asid \subseteq Nat /\ NULL \notin Nat
  /\ IDMOD \in Nat \ {0, 1} /\ Boot \in Nat \ {0}
  /\ BootPri \subseteq Nat \ {0}

VARIABLES
  env_status,      \* "FREE", "RUNNABLE" or "NOT_RUNNABLE"
  env_sched_list,
  env_free_list,   \* set of slots: its order is left out
  env_id,          \* counter part of env_id; the slot is the other part
  env_parent_id,   \* <<counter, slot>>, or NULL for the id 0
  env_pri,
  env_asid,
  asid_bitmap,     \* set of ASIDs in use
  envid_count,     \* the static counter of mkenvid()
  env_ipc_recving,
  env_ipc_from,    \* id of the last sender, NULL if none
  curenv,
  count,           \* slices left to curenv
  halted           \* "no", or why the kernel stopped

ids == <<env_free_list, env_id, env_parent_id, env_pri, env_asid, asid_bitmap, envid_count>>
ipc == <<env_ipc_recving, env_ipc_from>>
running == <<env_status, env_sched_list, curenv, count>>
vars == <<running, ids, ipc, halted>>

Id(e) == <<env_id[e], e>>

Init ==
  /\ env_status = [e \in Env |-> "FREE"]
  /\ env_sched_list = T!TAILQ_INIT
  /\ env_free_list = Env
  /\ env_id = [e \in Env |-> 0]
  /\ env_parent_id = [e \in Env |-> NULL]
  /\ env_pri = [e \in Env |-> 0]
  /\ env_asid = [e \in Env |-> 0]
  /\ asid_bitmap = {}
  /\ envid_count = 0
  /\ env_ipc_recving = [e \in Env |-> FALSE]
  /\ env_ipc_from = [e \in Env |-> NULL]
  /\ curenv = NULL
  /\ count = 0
  /\ halted = "no"

-----------------------------------------------------------------------------
(* schedule(yield) and env_run, from a list and statuses the caller changed *)

\* The definitions called _twice, _at_head and so on are slips a change to the
\* code could make; they are used only to see that the properties notice them.

Stop(why) == halted' = why /\ UNCHANGED <<running, ids, ipc>>

\* The list after schedule() moved e to the tail, or took it off.
Requeue_twice(list, status, e) ==
  IF e # NULL /\ status[e] = "RUNNABLE" THEN T!TAILQ_INSERT_TAIL(list, e) ELSE list
Requeue_blocked(list, status, e) ==
  IF e = NULL THEN list ELSE T!TAILQ_INSERT_TAIL(T!TAILQ_REMOVE(list, e), e)
Requeue_at_head(list, status, e) ==
  IF e = NULL THEN list
  ELSE LET rest == T!TAILQ_REMOVE(list, e) IN
       IF status[e] = "RUNNABLE" THEN T!TAILQ_INSERT_HEAD(rest, e) ELSE rest
Requeue(list, status, e) ==
  IF e = NULL THEN list
  ELSE LET rest == T!TAILQ_REMOVE(list, e) IN
       IF status[e] = "RUNNABLE" THEN T!TAILQ_INSERT_TAIL(rest, e) ELSE rest

Switch_endless(yield, status, e) == yield \/ e = NULL \/ status[e] # "RUNNABLE"
Switch(yield, status, e) == yield \/ count = 0 \/ e = NULL \/ status[e] # "RUNNABLE"

\* env_run(e) needs a list that is not empty (a null pointer is read
\* otherwise) and asserts that its first element is RUNNABLE.
NextEnv(yield, list, status, e) ==
  IF Switch(yield, status, e) THEN T!TAILQ_FIRST(Requeue(list, status, e)) ELSE e

ScheduleFails(yield, list, status, e) ==
  LET n == NextEnv(yield, list, status, e) IN
  \/ Switch(yield, status, e) /\ e # NULL /\ T!RemoveFaults(list, e)
  \/ n = NULL
  \/ status[n] # "RUNNABLE"

schedule(yield, list, status, e) ==
  LET n == NextEnv(yield, list, status, e) IN
  /\ env_status' = status
  /\ curenv' = n
  /\ IF Switch(yield, status, e)
       THEN env_sched_list' = Requeue(list, status, e) /\ count' = env_pri[n] - 1
       ELSE env_sched_list' = list /\ count' = count - 1
  /\ UNCHANGED halted

\* Why schedule() could not go on: nobody is runnable, or a broken list.
WhyNot(status) ==
  IF \E e \in Env : status[e] = "RUNNABLE" THEN "panic" ELSE "idle"

\* A system call that ends in schedule().
ThenSchedule(yield, list, status, e) ==
  IF ScheduleFails(yield, list, status, e)
    THEN Stop(WhyNot(status))
    ELSE schedule(yield, list, status, e)

-----------------------------------------------------------------------------
(* env_alloc and env_free *)

FreeAsid == Asid \ asid_bitmap
LowestAsid == CHOOSE i \in FreeAsid : \A j \in FreeAsid : i <= j

\* mkenvid(): the counter part of the next id.
mkenvid == (envid_count + 1) % IDMOD

asid_free_skipped(i) == asid_bitmap
asid_free(i) == asid_bitmap \ {i}

\* mkenvid() has run when asid_alloc() fails: the slot stays on the free
\* list with a new id.
EnvAllocNoAsid(e) ==
  /\ FreeAsid = {}
  /\ envid_count' = mkenvid
  /\ env_id' = [env_id EXCEPT ![e] = mkenvid]
  /\ UNCHANGED <<env_free_list, env_parent_id, env_pri, env_asid, asid_bitmap>>

env_alloc(e, parent, pri) ==
  /\ FreeAsid # {}
  /\ envid_count' = mkenvid
  /\ env_id' = [env_id EXCEPT ![e] = mkenvid]
  /\ env_asid' = [env_asid EXCEPT ![e] = LowestAsid]
  /\ asid_bitmap' = asid_bitmap \union {LowestAsid}
  /\ env_parent_id' = [env_parent_id EXCEPT ![e] = parent]
  /\ env_pri' = [env_pri EXCEPT ![e] = pri]
  /\ env_free_list' = env_free_list \ {e}

\* env_create, for the environments the kernel starts with.
env_create(e, pri) ==
  /\ halted = "no" /\ curenv = NULL /\ envid_count < Boot
  /\ e \in env_free_list
  /\ env_alloc(e, NULL, pri)
  /\ env_status' = [env_status EXCEPT ![e] = "RUNNABLE"]
  /\ env_sched_list' = T!TAILQ_INSERT_HEAD(env_sched_list, e)
  /\ UNCHANGED <<curenv, count, ipc, halted>>

\* The first schedule(0), at the end of mips_init.
Start ==
  /\ halted = "no" /\ curenv = NULL /\ envid_count = Boot
  /\ ThenSchedule(FALSE, env_sched_list, env_status, NULL)
  /\ UNCHANGED <<ids, ipc>>

-----------------------------------------------------------------------------
(* System calls of curenv *)

Running == halted = "no" /\ curenv # NULL

\* envid2env with checkperm: the caller or an immediate child of it.
MayControl(e) ==
  /\ env_status[e] # "FREE"
  /\ e = curenv \/ env_parent_id[e] = Id(curenv)

\* The timer interrupt.
Timer ==
  /\ Running
  /\ ThenSchedule(FALSE, env_sched_list, env_status, curenv)
  /\ UNCHANGED <<ids, ipc>>

sys_yield ==
  /\ Running
  /\ ThenSchedule(TRUE, env_sched_list, env_status, curenv)
  /\ UNCHANGED <<ids, ipc>>

sys_exofork(e) ==
  /\ Running
  /\ e \in env_free_list
  /\ \/ /\ env_alloc(e, Id(curenv), env_pri[curenv])
        /\ env_status' = [env_status EXCEPT ![e] = "NOT_RUNNABLE"]
     \/ /\ EnvAllocNoAsid(e)
        /\ UNCHANGED env_status
  /\ UNCHANGED <<env_sched_list, curenv, count, ipc, halted>>

sys_set_env_status(e, status) ==
  /\ Running
  /\ MayControl(e)
  /\ env_status[e] # status
  /\ IF status = "NOT_RUNNABLE" /\ T!RemoveFaults(env_sched_list, e) THEN Stop("panic")
     ELSE /\ env_sched_list' = IF status = "RUNNABLE" THEN T!TAILQ_INSERT_HEAD(env_sched_list, e)
                               ELSE T!TAILQ_REMOVE(env_sched_list, e)
          /\ env_status' = [env_status EXCEPT ![e] = status]
          /\ UNCHANGED <<curenv, count, ids, ipc, halted>>

\* env_destroy: env_free, whose last statement takes the slot off
\* env_sched_list, then schedule(1) if it was the caller.
sys_env_destroy(e) ==
  LET list == T!TAILQ_REMOVE(env_sched_list, e)
      status == [env_status EXCEPT ![e] = "FREE"] IN
  /\ Running
  /\ MayControl(e)
  /\ IF T!RemoveFaults(env_sched_list, e) THEN Stop("panic")
     ELSE /\ IF e = curenv THEN ThenSchedule(TRUE, list, status, NULL)
             ELSE /\ env_status' = status /\ env_sched_list' = list
                  /\ UNCHANGED <<curenv, count, halted>>
          /\ IF halted' = "no"
               THEN /\ asid_bitmap' = asid_free(env_asid[e])
                    /\ env_free_list' = env_free_list \union {e}
                    /\ UNCHANGED <<env_id, env_parent_id, env_pri, env_asid, envid_count>>
               ELSE UNCHANGED ids
          /\ UNCHANGED ipc

sys_ipc_recv ==
  LET list == T!TAILQ_REMOVE(env_sched_list, curenv)
      status == [env_status EXCEPT ![curenv] = "NOT_RUNNABLE"] IN
  /\ Running
  /\ ThenSchedule(TRUE, list, status, curenv)
  /\ IF halted' = "no"
       THEN env_ipc_recving' = [env_ipc_recving EXCEPT ![curenv] = TRUE]
       ELSE UNCHANGED env_ipc_recving
  /\ UNCHANGED <<ids, env_ipc_from>>

\* The receiver may be anybody (envid2env without checkperm) that waits.
MayReceive(e) == env_status[e] # "FREE" /\ env_ipc_recving[e]
Delivered_still_waiting(e) == env_ipc_recving
Delivered(e) == [env_ipc_recving EXCEPT ![e] = FALSE]

sys_ipc_try_send(e) ==
  /\ Running
  /\ MayReceive(e)
  /\ env_ipc_recving' = Delivered(e)
  /\ env_ipc_from' = [env_ipc_from EXCEPT ![e] = Id(curenv)]
  /\ env_status' = [env_status EXCEPT ![e] = "RUNNABLE"]
  /\ env_sched_list' = T!TAILQ_INSERT_TAIL(env_sched_list, e)
  /\ UNCHANGED <<curenv, count, ids, halted>>

\* After a panic the machine spins.
Halted == halted # "no" /\ UNCHANGED vars

Next ==
  \/ \E e \in Env : \E pri \in BootPri : env_create(e, pri)
  \/ Start
  \/ Timer
  \/ sys_yield
  \/ \E e \in Env : sys_exofork(e)
  \/ \E e \in Env : \E status \in {"RUNNABLE", "NOT_RUNNABLE"} : sys_set_env_status(e, status)
  \/ \E e \in Env : sys_env_destroy(e)
  \/ sys_ipc_recv
  \/ \E e \in Env : sys_ipc_try_send(e)
  \/ Halted

Spec == Init /\ [][Next]_vars

=============================================================================
