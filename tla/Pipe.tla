-------------------------------- MODULE Pipe --------------------------------
(***************************************************************************)
(* Pipes and file descriptors: user/lib/pipe.c and fd.c, with the system   *)
(* calls that fork, spawn, exit and wait make on the pages of a pipe.      *)
(*                                                                         *)
(* A descriptor i of an environment is two pages: the Fd page at           *)
(* INDEX2FD(i), which names the device, and, for a pipe, the struct Pipe   *)
(* mapped at INDEX2DATA(i).  One pipe is modelled; its two Fd pages are    *)
(* "rd" and "wr".  The number of mappings of a page over all environments  *)
(* is its pp_ref, and pipe.c learns from these counts alone whether the    *)
(* other end is still open.  Every system call is a step of its own, so a  *)
(* clock interrupt may come between any two of them.                       *)
(*                                                                         *)
(* What an environment still has to do is the sequence code[e] of calls; a *)
(* library call replaces itself by the system calls it makes.              *)
(***************************************************************************)
EXTENDS Integers, Sequences, FiniteSets, SequencesExt

CONSTANTS Env,        \* the environments
          MAXFD,      \* descriptors of each
          PIPE_SIZE,  \* bytes in a pipe
          None,       \* nothing mapped
          Scenario    \* programs to start from: [start, fd, code]

ASSUME PipeSizes == MAXFD \in Nat \ {0} /\ PIPE_SIZE \in Nat \ {0} /\ IsFiniteSet(Env)

VARIABLES
  fd,      \* fd[e][i]: the Fd page at INDEX2FD(i), or None
  data,    \* data[e][i]: the pipe is mapped at INDEX2DATA(i)
  status,  \* env_status
  code,    \* the calls still to make
  io,      \* the read or write under way
  p_rpos, p_wpos, p_buf,  \* struct Pipe
  got,     \* every byte read so far (history)
  eof      \* eof[e]: a read of e has returned 0 (history)

pipe_vars == <<p_rpos, p_wpos, p_buf, got, eof>>
vars == <<fd, data, status, code, io, pipe_vars>>

Fdnum == 0..MAXFD - 1
FdPage == {"cons", "rd", "wr"}
Other(k) == IF k = "rd" THEN "wr" ELSE "rd"
Idle == [ph |-> "idle", i |-> 0, fd_ref |-> 0, same |-> FALSE]

\* The calls a program makes: on a descriptor, with a second one or a number of
\* bytes, and on another environment.
Calls ==
  ({"close", "is_closed"} \X Fdnum)
  \union ({"dup"} \X Fdnum \X Fdnum) \union ({"dup_while"} \X Fdnum \X Fdnum \X Env)
  \union ({"read", "write"} \X Fdnum \X Nat)
  \union ({"fork", "spawn", "wait"} \X Env)
  \union {<<"pipe">>, <<"exit">>, <<"block">>}

\* The programs of the repository have one reader and one writer of a pipe, and
\* make one pipe.
Uses(calls, op) == \E x \in ToSet(calls) : x[1] = op
ASSUME ScenarioShape ==
  /\ None \notin FdPage
  /\ \A s \in Scenario :
       /\ s.fd \in [Fdnum -> {"cons", None}] /\ s.code \in [Env -> Seq(Calls)]
       /\ \A e, f \in Env : \A op \in {"read", "write", "pipe"} :
            Uses(s.code[e], op) /\ Uses(s.code[f], op) => e = f
       /\ \A e \in Env : \A m, n \in DOMAIN s.code[e] :
            s.code[e][m][1] = "pipe" /\ s.code[e][n][1] = "pipe" => m = n

Init ==
  \E s \in Scenario :
    /\ fd = [e \in Env |-> IF e = s.start THEN s.fd ELSE [i \in Fdnum |-> None]]
    /\ data = [e \in Env |-> [i \in Fdnum |-> FALSE]]
    /\ status = [e \in Env |-> IF e = s.start THEN "RUNNABLE" ELSE "FREE"]
    /\ code = s.code
    /\ io = [e \in Env |-> Idle]
    /\ p_rpos = 0 /\ p_wpos = 0 /\ p_buf = [i \in 0..PIPE_SIZE - 1 |-> 0]
    /\ got = <<>>
    /\ eof = [e \in Env |-> FALSE]

\* pp_ref of an Fd page and of the page of the pipe.
FdRef(k) == Cardinality({m \in Env \X Fdnum : fd[m[1]][m[2]] = k})
PipeRef == Cardinality({m \in Env \X Fdnum : data[m[1]][m[2]]})

-----------------------------------------------------------------------------
\* The environment e, about to make the call named c.
At(e, c) == status[e] = "RUNNABLE" /\ code[e] # <<>> /\ Head(code[e])[1] = c
Arg(e, n) == Head(code[e])[n]
Then(e, calls) == code' = [code EXCEPT ![e] = calls \o Tail(@)]
Again(e, calls) == code' = [code EXCEPT ![e] = calls \o @]

\* e runs: whoever is counting references has been interrupted.
Runs(e, r) ==
  io' = [f \in Env |-> IF f = e THEN r ELSE [io[f] EXCEPT !.same = FALSE]]
Step(e) == Runs(e, io[e]) /\ UNCHANGED pipe_vars

\* What follows a definition with a suffix _... is a slip a programmer could
\* make in it: the properties below must notice each.

\* close: the device's close, then fd_close.  pipe_close unmaps the Fd page
\* before the pipe, so that fd_ref never exceeds what pipe_ref still counts.
CloseCalls_pipe_first(k, i) ==
  IF k = "cons" THEN <<<<"unmap_fd", i>>>>
  ELSE <<<<"unmap_data", i>>, <<"unmap_fd", i>>, <<"unmap_fd", i>>>>
CloseCalls(k, i) ==
  IF k = "cons" THEN <<<<"unmap_fd", i>>>>
  ELSE <<<<"unmap_fd", i>>, <<"unmap_data", i>>, <<"unmap_fd", i>>>>

close(e) ==
  /\ At(e, "close")
  /\ Then(e, IF fd[e][Arg(e, 2)] = None THEN <<>>
             ELSE CloseCalls(fd[e][Arg(e, 2)], Arg(e, 2)))
  /\ Step(e) /\ UNCHANGED <<fd, data, status>>

close_all == [n \in 1..MAXFD |-> <<"close", n - 1>>]

\* dup: the pipe first, then the Fd page, once newfdnum is closed.  Its error
\* path is dead: syscall_mem_map of a mapped page fails only for want of memory,
\* and page_alloc panics then.
DupCalls(e, o, n) ==
  (IF data[e][o] THEN <<<<"map_data", o, e, n>>>> ELSE <<>>) \o <<<<"map_fd", o, e, n>>>>

dup(e) ==
  LET o == Arg(e, 2)
      n == Arg(e, 3)
  IN  /\ At(e, "dup")
      /\ Then(e, IF fd[e][o] = None THEN <<>>
                 ELSE <<<<"close", n>>>> \o DupCalls(e, o, n))
      /\ Step(e) /\ UNCHANGED <<fd, data, status>>

\* fd_alloc: the lowest descriptor without an Fd page; the last descriptor is
\* never given out.
Unused(t) == {i \in Fdnum : i < MAXFD - 1 /\ t[i] = None}
fd_alloc(t) == CHOOSE i \in Unused(t) : \A j \in Unused(t) : i <= j

\* Nobody else sees the new pages, so their allocation is one step; when one
\* of them fails, or no descriptor is left, the others are unmapped and the
\* program exits.
pipe(e) ==
  LET f0 == fd_alloc(fd[e])
      f1 == fd_alloc([fd[e] EXCEPT ![f0] = "rd"])
  IN  /\ At(e, "pipe")
      /\ \/ /\ Cardinality(Unused(fd[e])) >= 2
            /\ fd' = [fd EXCEPT ![e][f0] = "rd", ![e][f1] = "wr"]
            /\ data' = [data EXCEPT ![e][f0] = TRUE, ![e][f1] = TRUE]
            /\ Then(e, <<>>)
         \/ /\ code' = [code EXCEPT ![e] = <<<<"exit">>>>]
            /\ UNCHANGED <<fd, data>>
      /\ Step(e) /\ UNCHANGED status

\* fork and spawn hand every page down in the order of the addresses: the
\* table of Fd pages (FDTABLE) lies below the data pages (FILEBASE).
InOrder(S) ==
  [n \in 1..Cardinality(S) |-> CHOOSE i \in S : Cardinality({j \in S : j < i}) = n - 1]
Shared(e, c) ==
  LET f == InOrder({i \in Fdnum : fd[e][i] # None})
      d == InOrder({i \in Fdnum : data[e][i]})
  IN  [n \in DOMAIN f |-> <<"map_fd", f[n], c, f[n]>>] \o
      [n \in DOMAIN d |-> <<"map_data", d[n], c, d[n]>>]

fork_starts_first(e) ==
  LET c == Arg(e, 2)
  IN  /\ At(e, "fork") /\ status[c] = "FREE"
      /\ status' = [status EXCEPT ![c] = "NOT_RUNNABLE"]
      /\ Then(e, <<<<"start", c>>>> \o Shared(e, c))
      /\ Step(e) /\ UNCHANGED <<fd, data>>
fork(e) ==
  LET c == Arg(e, 2)
  IN  /\ At(e, "fork") /\ status[c] = "FREE"
      /\ status' = [status EXCEPT ![c] = "NOT_RUNNABLE"]
      /\ Then(e, Shared(e, c) \o <<<<"start", c>>>>)
      /\ Step(e) /\ UNCHANGED <<fd, data>>

\* spawn may fail before anything of the child is visible.
spawn(e) ==
  /\ At(e, "spawn")
  /\ \/ Then(e, <<<<"fork", Arg(e, 2)>>>>)
     \/ Then(e, <<>>)
  /\ Step(e) /\ UNCHANGED <<fd, data, status>>

wait(e) ==
  /\ At(e, "wait") /\ status[Arg(e, 2)] = "FREE"
  /\ Then(e, <<>>)
  /\ Step(e) /\ UNCHANGED <<fd, data, status>>

exit(e) ==
  /\ At(e, "exit")
  /\ Then(e, close_all \o <<<<"destroy">>>>)
  /\ Step(e) /\ UNCHANGED <<fd, data, status>>

-----------------------------------------------------------------------------
\* The system calls.
mem_unmap(e) ==
  /\ \/ /\ At(e, "unmap_fd")
        /\ fd' = [fd EXCEPT ![e][Arg(e, 2)] = None] /\ UNCHANGED data
     \/ /\ At(e, "unmap_data")
        /\ data' = [data EXCEPT ![e][Arg(e, 2)] = FALSE] /\ UNCHANGED fd
  /\ Then(e, <<>>)
  /\ Step(e) /\ UNCHANGED status

mem_map(e) ==
  /\ \/ /\ At(e, "map_fd")
        /\ fd' = [fd EXCEPT ![Arg(e, 3)][Arg(e, 4)] = fd[e][Arg(e, 2)]]
        /\ UNCHANGED data
     \/ /\ At(e, "map_data")
        /\ data' = [data EXCEPT ![Arg(e, 3)][Arg(e, 4)] = data[e][Arg(e, 2)]]
        /\ UNCHANGED fd
  /\ Then(e, <<>>)
  /\ Step(e) /\ UNCHANGED status

\* syscall_set_env_status: RUNNABLE for a new child; a program that blocks in
\* ipc_recv for ever makes itself NOT_RUNNABLE.
set_env_status(e) ==
  /\ \/ At(e, "start") /\ status' = [status EXCEPT ![Arg(e, 2)] = "RUNNABLE"]
     \/ At(e, "block") /\ status' = [status EXCEPT ![e] = "NOT_RUNNABLE"]
  /\ Then(e, <<>>)
  /\ Step(e) /\ UNCHANGED <<fd, data>>

env_destroy(e) ==
  /\ At(e, "destroy")
  /\ fd' = [fd EXCEPT ![e] = [i \in Fdnum |-> None]]
  /\ data' = [data EXCEPT ![e] = [i \in Fdnum |-> FALSE]]
  /\ status' = [status EXCEPT ![e] = "FREE"]
  /\ code' = [code EXCEPT ![e] = <<>>]
  /\ Step(e)

-----------------------------------------------------------------------------
\* read, write and pipe_is_closed: <<"read", i, n>>, <<"write", i, n>> and
\* <<"is_closed", i>>.
Page(e) == fd[e][Arg(e, 2)]
InCall(e, ph) ==
  /\ At(e, "read") \/ At(e, "write") \/ At(e, "is_closed")
  /\ io[e].ph = ph

\* fd_lookup, and the access mode in the Fd page.
Allowed(e) ==
  Page(e) = (IF Arg(e, 1) = "read" THEN "rd" ELSE "wr") \/ Arg(e, 1) = "is_closed"
call(e) ==
  /\ InCall(e, "idle")
  /\ IF Page(e) \in {"rd", "wr"} /\ Allowed(e)
     THEN /\ Runs(e, [Idle EXCEPT !.ph = IF Arg(e, 1) = "is_closed" THEN "fd_ref" ELSE "test"])
          /\ UNCHANGED code
     ELSE Runs(e, Idle) /\ Then(e, <<>>)
  /\ UNCHANGED <<fd, data, status, pipe_vars>>

Full_overruns == p_wpos - p_rpos > PIPE_SIZE
Full == p_wpos - p_rpos >= PIPE_SIZE
Empty_behind == p_rpos > p_wpos
Empty == p_rpos >= p_wpos
MustWait(e) == IF Arg(e, 1) = "read" THEN Empty ELSE Full

\* The head of the loop: done, wait for the other end, or one more byte.
test(e) ==
  /\ InCall(e, "test")
  /\ io[e].i < Arg(e, 3)
  /\ Runs(e, [io[e] EXCEPT !.ph = IF MustWait(e) THEN "fd_ref" ELSE "copy"])
  /\ UNCHANGED <<fd, data, status, code, pipe_vars>>

\* _pipe_is_closed: runs and fd_ref, then pipe_ref and runs again.
fd_ref(e) ==
  /\ InCall(e, "fd_ref")
  /\ Runs(e, [io[e] EXCEPT !.ph = "pipe_ref", !.fd_ref = FdRef(Page(e)), !.same = TRUE])
  /\ UNCHANGED <<fd, data, status, code, pipe_vars>>

Undisturbed(e) == io[e].same

pipe_ref(e) ==
  /\ InCall(e, "pipe_ref")
  /\ Runs(e, IF ~Undisturbed(e)
             THEN [io[e] EXCEPT !.ph = "fd_ref", !.fd_ref = 0, !.same = FALSE]
             ELSE [io[e] EXCEPT !.ph = IF io[e].fd_ref = PipeRef THEN "closed" ELSE "open",
                                !.fd_ref = 0, !.same = FALSE])
  /\ UNCHANGED <<fd, data, status, code, pipe_vars>>

\* The other end is open: yield and look at the buffer again.
yield(e) ==
  /\ InCall(e, "open") /\ Arg(e, 1) # "is_closed"
  /\ Runs(e, [io[e] EXCEPT !.ph = "test"])
  /\ UNCHANGED <<fd, data, status, code, pipe_vars>>

\* One byte, then the position that publishes it.  The bytes written are
\* numbered, so that a reader can tell which one it got.
copy(e) ==
  /\ InCall(e, "copy")
  /\ IF Arg(e, 1) = "read"
     THEN got' = Append(got, p_buf[p_rpos % PIPE_SIZE]) /\ UNCHANGED p_buf
     ELSE p_buf' = [p_buf EXCEPT ![p_wpos % PIPE_SIZE] = p_wpos + 1] /\ UNCHANGED got
  /\ Runs(e, [io[e] EXCEPT !.ph = "advance"])
  /\ UNCHANGED <<fd, data, status, code, p_rpos, p_wpos, eof>>

advance(e) ==
  /\ InCall(e, "advance")
  /\ IF Arg(e, 1) = "read"
     THEN p_rpos' = p_rpos + 1 /\ UNCHANGED p_wpos
     ELSE p_wpos' = p_wpos + 1 /\ UNCHANGED p_rpos
  /\ Runs(e, [io[e] EXCEPT !.ph = "test", !.i = @ + 1])
  /\ UNCHANGED <<fd, data, status, code, p_buf, got, eof>>

\* The call returns: all n bytes, or the other end closed.  A reader goes on
\* until it has read 0 bytes (cat, readn); a writer of the whole text (n > 1)
\* makes one call, one that writes single bytes goes on until one fails.
return(e) ==
  LET r == io[e].i
      full == InCall(e, "test") /\ r = Arg(e, 3)
      again == IF Arg(e, 1) = "read" THEN r > 0 ELSE Arg(e, 3) = 1 /\ r = 1
  IN  /\ At(e, "read") \/ At(e, "write")
      /\ full \/ InCall(e, "closed")
      /\ Runs(e, Idle)
      /\ IF again THEN UNCHANGED code ELSE Then(e, <<>>)
      /\ eof' = [eof EXCEPT ![e] = @ \/ (Arg(e, 1) = "read" /\ r = 0)]
      /\ UNCHANGED <<fd, data, status, p_rpos, p_wpos, p_buf, got>>

\* pipe_is_closed returns.
verdict(e) ==
  /\ At(e, "is_closed") /\ io[e].ph \in {"closed", "open"}
  /\ Runs(e, Idle)
  /\ Then(e, <<>>)
  /\ UNCHANGED <<fd, data, status, pipe_vars>>

-----------------------------------------------------------------------------
\* while (kid->env_status == ENV_RUNNABLE) dup(p[0], 10).
while_runnable(e) ==
  /\ At(e, "dup_while")
  /\ IF status[Arg(e, 4)] = "RUNNABLE"
     THEN Again(e, <<<<"dup", Arg(e, 2), Arg(e, 3)>>>>)
     ELSE Then(e, <<>>)
  /\ Step(e) /\ UNCHANGED <<fd, data, status>>

Do(e) ==
  \/ close(e) \/ dup(e) \/ pipe(e) \/ fork(e) \/ spawn(e) \/ wait(e) \/ exit(e)
  \/ mem_unmap(e) \/ mem_map(e) \/ set_env_status(e) \/ env_destroy(e)
  \/ call(e) \/ test(e) \/ fd_ref(e) \/ pipe_ref(e) \/ yield(e)
  \/ copy(e) \/ advance(e) \/ return(e) \/ verdict(e) \/ while_runnable(e)

\* Every program has come to its end (or waits for ever in ipc_recv).
Finished == \A e \in Env : status[e] # "RUNNABLE"
Done == Finished /\ UNCHANGED vars

Next == Done \/ \E e \in Env : Do(e)

\* The scheduler gives every runnable environment its turn (EnvLib,
\* NoStarvation), and a turn is longer than two calls of pageref: the loop of
\* _pipe_is_closed is not interrupted every single time.
Spec == Init /\ [][Next]_vars
FairSpec ==
  Spec /\ \A e \in Env : WF_vars(Do(e)) /\ SF_vars(Undisturbed(e) /\ pipe_ref(e))

=============================================================================
