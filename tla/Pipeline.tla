------------------------------ MODULE Pipeline ------------------------------
(***************************************************************************)
(* The programs of the repository that use pipes, as the calls they make,  *)
(* and what a pipe promises them.  The shell runs `left | right`: "sh" is  *)
(* the child that runs the command line, "right" the child it forks for    *)
(* the rest of the line, "lcmd" and "rcmd" are the commands they spawn.    *)
(* testpipe and testpiperace are a parent and one child.                   *)
(***************************************************************************)
EXTENDS Pipe

CONSTANTS Bytes,  \* how much the left side writes
          Chunk   \* how much the right side asks for at a time

Programs == {"sh", "right", "lcmd", "rcmd"}
Fresh == [i \in Fdnum |-> None]
Console == [i \in Fdnum |-> IF i <= 1 THEN "cons" ELSE None]
None4(f) == [e \in Programs |-> IF e \in DOMAIN f THEN f[e] ELSE <<>>]

\* cat(0): until a read returns 0.
cat == <<<<"read", 0, Chunk>>, <<"exit">>>>

\* parsecmd, case '|', of the parent and of the child, each up to runcmd.
left_side == <<<<"dup", 3, 1>>, <<"close", 2>>, <<"close", 3>>>>
right_side_keeps_wr == <<<<"dup", 2, 0>>, <<"close", 2>>>>
right_side == <<<<"dup", 2, 0>>, <<"close", 2>>, <<"close", 3>>>>

\* runcmd after parsecmd: spawn, close_all, wait for the command and for the
\* right side.
runcmd(child, rightpipe) ==
  <<<<"spawn", child>>>> \o close_all \o <<<<"wait", child>>>> \o rightpipe \o <<<<"exit">>>>

shell ==
  [start |-> "sh", fd |-> Console,
   code |-> None4([sh |-> <<<<"pipe">>, <<"fork", "right">>>> \o left_side
                            \o runcmd("lcmd", <<<<"wait", "right">>>>),
                   right |-> right_side \o runcmd("rcmd", <<>>),
                   lcmd |-> <<<<"write", 1, Bytes>>, <<"exit">>>>,
                   rcmd |-> cat])]

\* testpipe.c, its two halves: a reader that reads to the end, and a writer
\* that writes until nobody can read.
testpipe ==
  [start |-> "sh", fd |-> Fresh,
   code |-> None4([sh |-> <<<<"pipe">>, <<"fork", "right">>, <<"close", 0>>,
                            <<"write", 1, Bytes>>, <<"close", 1>>,
                            <<"wait", "right">>, <<"exit">>>>,
                   right |-> <<<<"close", 1>>>> \o cat])]
testpipe_closed ==
  [start |-> "sh", fd |-> Fresh,
   code |-> None4([sh |-> <<<<"pipe">>, <<"fork", "right">>, <<"close", 0>>,
                            <<"close", 1>>, <<"wait", "right">>, <<"exit">>>>,
                   right |-> <<<<"close", 0>>, <<"write", 1, 1>>, <<"close", 0>>,
                               <<"close", 1>>, <<"exit">>>>])]

\* testpiperace.c: the parent dups its end again and again while the child
\* asks whether the pipe is closed.
testpiperace ==
  [start |-> "sh", fd |-> Fresh,
   code |-> None4([sh |-> <<<<"pipe">>, <<"fork", "right">>, <<"dup", 0, 2>>,
                            <<"dup_while", 0, 2, "right">>, <<"is_closed", 0>>, <<"exit">>>>,
                   right |-> <<<<"close", 1>>, <<"is_closed", 0>>, <<"is_closed", 0>>,
                               <<"block">>>>])]

Tested == {shell, testpipe, testpipe_closed, testpiperace}

-----------------------------------------------------------------------------
Phases == {"idle", "test", "fd_ref", "pipe_ref", "closed", "open", "copy", "advance"}

TypeOK ==
  /\ fd \in [Env -> [Fdnum -> FdPage \union {None}]]
  /\ data \in [Env -> [Fdnum -> BOOLEAN]]
  /\ status \in [Env -> {"FREE", "RUNNABLE", "NOT_RUNNABLE"}]
  /\ io \in [Env -> [ph : Phases, i : Nat, fd_ref : Nat, same : BOOLEAN]]
  /\ p_rpos \in Nat /\ p_wpos \in Nat
  /\ p_buf \in [0..PIPE_SIZE - 1 -> Nat]
  /\ got \in Seq(Nat \ {0}) /\ eof \in [Env -> BOOLEAN]

\* Somebody holds the Fd page k.
Open(k) == \E e \in Env : \E i \in Fdnum : fd[e][i] = k

\* The test of _pipe_is_closed is sound: an environment that is told its pipe
\* is closed really is alone with its kind of end, in every interleaving of
\* the system calls of close, dup, fork, spawn and exit ("a no-no" in
\* user/testpiperace.c).
NoFalseEof ==
  \A e \in Env :
    io[e].ph = "closed" => ~Open(Other(Page(e)))

\* While an environment counts the references to its end of the pipe, no other
\* hands that end down: fork and spawn map the Fd pages of a child before the
\* pipe, and a count in between would find as many of the one as of the other.
Apart ==
  \A e \in Env : io[e].ph = "pipe_ref" /\ io[e].same =>
    \A f \in Env : \A x \in ToSet(code[f]) :
      x[1] = "map_data" /\ x[3] # f => fd[f][x[2]] # Page(e)

\* Readers get the bytes that were written, each once and in order, whatever
\* the two sides do to the ring buffer in between.
Fifo == \A n \in DOMAIN got : got[n] = n

\* Every program ends: the reader is told when the last writer has gone and
\* the writer when the last reader has, and the shell's waits return.
AllFinish == <>Finished

(***************************************************************************)
(* user/lib/pipe.c, pipe_read: "The return value must be greater than 0,   *)
(* unless the pipe is closed and nothing has been written since the last   *)
(* read."                                                                  *)
(***************************************************************************)
ReadsAll == \A e \in Env : eof[e] => p_rpos = p_wpos

=============================================================================
