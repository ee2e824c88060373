-------------------------------- MODULE MCEnv -------------------------------
EXTENDS EnvFindings, TLC
CONSTANTS e1, e2, e3, e4
EnvSym == Permutations(Env)

\* In this instance slots are numbers.  env_init puts them on env_free_list in
\* their order and env_free at the head: a slot nobody has used is taken when no
\* other is left, the lowest first.
InOrder(e) ==
  env_id[e] = 0 => FreedFirst(e) /\ \A f \in Env : env_id[f] = 0 => e <= f

\* The environments of the kernel all have the same priority.
SamePri(pri) == \A f \in Env \ env_free_list : env_pri[f] = pri

MCBoot == \E e \in Env : \E pri \in BootPri : InOrder(e) /\ SamePri(pri) /\ env_create(e, pri)

MCNext ==
  \/ MCBoot
  \/ Start
  \/ Timer
  \/ sys_yield
  \/ \E e \in Env : LibExofork /\ InOrder(e) /\ sys_exofork(e)
  \/ \E e \in Env : \E status \in {"RUNNABLE", "NOT_RUNNABLE"} :
       LibStatus(e, status) /\ sys_set_env_status(e, status)
  \/ \E e \in Env : LibDestroy(e) /\ sys_env_destroy(e)
  \/ sys_ipc_recv
  \/ \E e \in Env : sys_ipc_try_send(e)
  \/ Halted

MCSpec == Init /\ [][MCNext]_vars /\ Fairness
=============================================================================
