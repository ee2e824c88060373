------------------------------- MODULE EnvLib -------------------------------
(***************************************************************************)
(* EnvSched under calls that keep env_sched_list in order: fork and spawn  *)
(* set a fresh child RUNNABLE once (fork.c, spawn.c), environments destroy *)
(* themselves (libos.c exit) or a runnable child, a child may be paused,   *)
(* and ids do not wrap around.  Left out are                               *)
(*   - one call that the library does make: spawn, when it fails, destroys *)
(*     a child that never became RUNNABLE (spawn.c, err1 and err2), and    *)
(*     env_free then removes from the list a slot that is not on it.  The  *)
(*     first time a slot is used its link is null and the kernel panics;   *)
(*     later the list may lose an environment (run env_destroy);           *)
(*   - calls that no program of the repository makes: to destroy a paused  *)
(*     child or one that waits for a message, and to set one that waits    *)
(*     RUNNABLE.                                                           *)
(***************************************************************************)
EXTENDS EnvSched

LibStatus(e, status) ==
  IF status = "RUNNABLE" THEN ~env_ipc_recving[e] ELSE e # curenv

LibDestroy(e) == env_status[e] = "RUNNABLE"

LibExofork == envid_count < IDMOD - 1

LibNext ==
  \/ \E e \in Env : \E pri \in BootPri : env_create(e, pri)
  \/ Start
  \/ Timer
  \/ sys_yield
  \/ \E e \in Env : LibExofork /\ sys_exofork(e)
  \/ \E e \in Env : \E status \in {"RUNNABLE", "NOT_RUNNABLE"} :
       LibStatus(e, status) /\ sys_set_env_status(e, status)
  \/ \E e \in Env : LibDestroy(e) /\ sys_env_destroy(e)
  \/ sys_ipc_recv
  \/ \E e \in Env : sys_ipc_try_send(e)
  \/ Halted

LibSpec == Init /\ [][LibNext]_vars

\* The kernel boots and the timer keeps ticking (kern/entry.S unmasks it for
\* user code); nothing is assumed of what programs call.
BootStep == Start \/ \E e \in Env : \E pri \in BootPri : env_create(e, pri)
Fairness == WF_vars(BootStep) /\ WF_vars(Timer)
FairSpec == LibSpec /\ Fairness

-----------------------------------------------------------------------------
Runnable == {e \in Env : env_status[e] = "RUNNABLE"}
Live == {e \in Env : env_status[e] # "FREE"}

TypeOK ==
  /\ env_status \in [Env -> {"FREE", "RUNNABLE", "NOT_RUNNABLE"}]
  /\ env_sched_list \in T!TailqType
  /\ env_free_list \subseteq Env
  /\ env_id \in [Env -> 0..IDMOD - 1]
  /\ env_parent_id \in [Env -> ((0..IDMOD - 1) \X Env) \union {NULL}]
  /\ env_pri \in [Env -> Nat]
  /\ env_asid \in [Env -> Nat]
  /\ asid_bitmap \subseteq Asid
  /\ envid_count \in 0..IDMOD - 1
  /\ env_ipc_recving \in [Env -> BOOLEAN]
  /\ env_ipc_from \in [Env -> ((0..IDMOD - 1) \X Env) \union {NULL}]
  /\ curenv \in Env \union {NULL}
  /\ count \in Nat
  /\ halted \in {"no", "panic", "idle"}

(***************************************************************************)
(* kern/env.c: "Invariant: 'env' in 'env_sched_list' iff.                  *)
(* 'env->env_status' is 'RUNNABLE'."  The links form one finite list of    *)
(* exactly the runnable environments, although schedule() removes an       *)
(* environment that sys_ipc_recv has already removed.                      *)
(***************************************************************************)
SchedListExact == T!IsListOf(env_sched_list, Runnable)

\* An environment waits for a message only while it is blocked: a message
\* is never written into an environment that runs.
RecvBlocked == \A e \in Env : env_ipc_recving[e] => env_status[e] = "NOT_RUNNABLE"

\* env_alloc and env_free keep the slots in step: FREE slots are on the free
\* list, live ones have different ASIDs, and the bitmap holds these and no
\* other, so that the TLB entries of two environments never mix.
SlotsExact ==
  /\ env_free_list = Env \ Live
  /\ \A e \in Live : \A f \in Live : env_asid[e] = env_asid[f] => e = f
  /\ asid_bitmap = {env_asid[e] : e \in Live}

\* The kernel never dereferences a bad link and env_run never asserts; it
\* may stop only because no environment is runnable.
NoPanic == halted # "panic"

\* kern/sched.c: "If 'yield' is set (non-zero), 'curenv' should not be
\* scheduled again unless it is the only runnable env."
YieldSwitches ==
  [][sys_yield /\ halted' = "no" /\ curenv' = curenv => Runnable = {curenv}]_vars

\* Round robin, when nobody has more than one slice: a runnable environment
\* gets the processor, whatever the others do, as long as it stays runnable
\* and the kernel does not stop.
OneSlice == \A f \in Env : env_pri[f] <= 1
NoStarvation ==
  \A e \in Env : (OneSlice /\ env_status[e] = "RUNNABLE") ~>
                   (curenv = e \/ env_status[e] # "RUNNABLE" \/ halted # "no" \/ ~OneSlice)

=============================================================================
