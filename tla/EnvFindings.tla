----------------------------- MODULE EnvFindings ----------------------------
(***************************************************************************)
(* EnvLib with the call it leaves out: when spawn fails after sys_exofork, *)
(* it destroys a child that nobody made RUNNABLE (user/lib/spawn.c, err1   *)
(* and err2).                                                              *)
(***************************************************************************)
EXTENDS EnvLib

\* A child of fork and spawn is NOT_RUNNABLE from sys_exofork to
\* sys_set_env_status; it has not run, so it does not wait for a message.
Unfinished(e) == env_status[e] = "NOT_RUNNABLE" /\ ~env_ipc_recving[e]

\* fork and spawn finish one child before they begin the next.
OneAtATime == \A c \in Env : Unfinished(c) => env_parent_id[c] # Id(curenv)

\* env_free puts the slot at the head of env_free_list, so that a slot nobody
\* has used is taken only when no other is left.
FreedFirst(e) == env_id[e] = 0 => \A f \in env_free_list : env_id[f] = 0

(***************************************************************************)
(* The library's calls and no others: fork and spawn, exit, messages, and  *)
(* the failure of spawn.  Nobody pauses a child.                           *)
(***************************************************************************)
SpawnNext ==
  \/ \E e \in Env : \E pri \in BootPri : env_create(e, pri)
  \/ Start
  \/ Timer
  \/ sys_yield
  \/ \E e \in Env : LibExofork /\ OneAtATime /\ FreedFirst(e) /\ sys_exofork(e)
  \/ \E e \in Env : LibStatus(e, "RUNNABLE") /\ sys_set_env_status(e, "RUNNABLE")
  \/ \E e \in Env : e = curenv /\ sys_env_destroy(e)
  \/ \E e \in Env : Unfinished(e) /\ sys_env_destroy(e)
  \/ sys_ipc_recv
  \/ \E e \in Env : sys_ipc_try_send(e)
  \/ Halted

SpawnSpec == Init /\ [][SpawnNext]_vars

(***************************************************************************)
(* kern/env.c: "Invariant: 'env' in 'env_sched_list' iff.                  *)
(* 'env->env_status' is 'RUNNABLE'."  env_free takes the slot off          *)
(* env_sched_list without looking whether it is on it: the links of a slot *)
(* that an earlier environment used lead somewhere else by then.           *)
(***************************************************************************)
ListedIffRunnable ==
  \A e \in Env : e \in T!Elements(env_sched_list) <=> env_status[e] = "RUNNABLE"

=============================================================================
