----------------------------- MODULE FileServer -----------------------------
(***************************************************************************)
(* The file server and its clients: fs/serv.c, user/lib/file.c, fsipc.c    *)
(* and the parts of fd.c and ipc.c they use.                               *)
(*                                                                         *)
(* A client sends a request and its argument page, then waits for the      *)
(* answer; ipc_send tries again while the other side is not receiving, so  *)
(* a send is a step that waits for that.  The server serves one request    *)
(* after the other.  An open file is an entry of opentab and a page, the   *)
(* Filefd, that the server and the descriptors of the clients have mapped; *)
(* the server tells from the count of these mappings whether an entry is   *)
(* in use.  The pages of a file are mapped by the server and the clients   *)
(* too: they are the blocks in the cache of FileSystem.                    *)
(*                                                                         *)
(* What a client still has to do is the sequence code[c]; a library call   *)
(* replaces itself by the requests it makes.  Programs give up on an error *)
(* (user_panic, which calls exit), except on one of close.  Eviction of    *)
(* pages is left to Pmap: pageref counts every mapping.                    *)
(***************************************************************************)
EXTENDS Fsformat, FsLayout

CONSTANTS Client,   \* environments other than the server
          MAXOPEN,  \* entries of opentab
          MAXFD,    \* descriptors of a client
          Scripts   \* what may run: [image, start, code]

ASSUME ServerSizes ==
  MAXOPEN \in Nat \ {0} /\ MAXFD \in Nat \ {0} /\ Client # {} /\ IsFiniteSet(Client)

VARIABLES
  fs,       \* the disk and its cache
  opentab,  \* opentab[k]: o_file and the directory it is in
  ff,       \* ff[k]: the Filefd page of entry k
  srv,      \* the server: [ph, from, req, val, page]
  fd,       \* fd[c][i]: the entry whose Filefd is mapped at INDEX2FD(i)
  data,     \* data[c][i][b]: the block mapped at page b of INDEX2DATA(i)
  code,     \* the calls a client still has to make
  res,      \* the value of its last request
  ipc       \* "off", "run", "sent", "recv" (env_ipc_recving), "done"

client_vars == <<fd, data, code, res, ipc>>
server_vars == <<fs, opentab, srv>>
vars == <<server_vars, client_vars, ff>>

Fileid == 0..MAXOPEN - 1
Fdnum == 0..MAXFD - 1
Bno == 0..NINDIRECT - 1
None == -1     \* no page mapped
Private == -1  \* a page that is not of the file: the kernel's passive_alloc
E_NO_MEM == -5
E_MAX_OPEN == -6
Mode == {"r", "w", "rw"}

\* The calls a program makes: with a path, how to open it and the access mode;
\* with a descriptor, and a number of blocks or a size.
Calls ==
  ({"open"} \X Seq(Names) \X BOOLEAN \X BOOLEAN \X Mode)
  \union ({"remove"} \X Seq(Names))
  \union ({"close"} \X Fdnum)
  \union ({"read", "write", "seek", "ftruncate"} \X Fdnum \X Nat)
  \union ({"fork", "wait"} \X Client)
  \union {<<"sync">>, <<"exit">>}

ASSUME ScriptShape ==
  \A s \in Scripts :
    Formatted(fs_init(s.image)) /\ s.start \subseteq Client /\ s.code \in [Client -> Seq(Calls)]

Closed == [mapped |-> FALSE, size |-> 0, offset |-> 0, mode |-> "r"]
Receiving == [ph |-> "recv", from |-> CHOOSE c \in Client : TRUE, req |-> <<>>,
              val |-> 0, page |-> 0]

\* serve_init and fs_init; clients begin with no descriptor.
Init ==
  \E s \in Scripts :
    /\ fs = fs_init(s.image)
    /\ opentab = [k \in Fileid |-> [file |-> NIL, dir |-> NIL]]
    /\ ff = [k \in Fileid |-> Closed]
    /\ srv = Receiving
    /\ fd = [c \in Client |-> [i \in Fdnum |-> None]]
    /\ data = [c \in Client |-> [i \in Fdnum |-> [b \in Bno |-> 0]]]
    /\ code = s.code
    /\ res = [c \in Client |-> 0]
    /\ ipc = [c \in Client |-> IF c \in s.start THEN "run" ELSE "off"]

\* An operator with a suffix _... is a slip a programmer could make in the
\* one after it.
-----------------------------------------------------------------------------
(* The server. *)

Users(k) == {m \in Client \X Fdnum : fd[m[1]][m[2]] = k}
pageref(k) == IF ff[k].mapped THEN 1 + Cardinality(Users(k)) ELSE 0

\* open_alloc: the first entry that only the server has mapped, or nobody.
open_alloc_shared == {k \in Fileid : pageref(k) <= 2 /\ \A j \in 0..k - 1 : pageref(j) > 2}
open_alloc == {k \in Fileid : pageref(k) <= 1 /\ \A j \in 0..k - 1 : pageref(j) > 1}
open_lookup(k) == k \in Fileid /\ pageref(k) > 1

Serving(op) == srv.ph = "serve" /\ srv.req[1] = op
Answer(val, page) == srv' = [srv EXCEPT !.ph = "reply", !.val = val, !.page = page]

\* An open that fails leaves the entry to the next one.
serve_open ==
  /\ Serving("open")
  /\ \/ open_alloc = {} /\ Answer(E_MAX_OPEN, 0) /\ UNCHANGED <<fs, opentab, ff>>
     \/ \E k \in open_alloc :
          /\ ~ff[k].mapped /\ Answer(E_NO_MEM, 0) /\ UNCHANGED <<fs, opentab, ff>>
     \/ \E k \in open_alloc :
          LET o == open_file(fs, srv.req[2], srv.req[3], srv.req[4])
          IN  /\ fs' = o.s
              /\ opentab' = IF o.v < 0 THEN opentab
                            ELSE [opentab EXCEPT ![k] = [file |-> o.f, dir |-> o.dir]]
              /\ ff' = [ff EXCEPT ![k] =
                          IF o.v < 0 THEN [Closed EXCEPT !.mapped = TRUE]
                          ELSE [mapped |-> TRUE, size |-> File(o.s, o.f).size,
                                offset |-> 0, mode |-> srv.req[5]]]
              /\ Answer(o.v, k)
  /\ UNCHANGED client_vars

\* The requests that name an entry: r is what the file system makes of it.
OnEntry(op, r) ==
  /\ Serving(op)
  /\ IF open_lookup(srv.req[2]) THEN fs' = r.s /\ Answer(r.v, 0)
     ELSE Answer(E_INVAL, 0) /\ UNCHANGED fs
  /\ UNCHANGED <<opentab, ff, client_vars>>

Entry == opentab[srv.req[2]]

serve_map ==
  /\ Serving("map")
  /\ LET r == file_get_block(fs, Entry.file, srv.req[3])
     IN  IF ~open_lookup(srv.req[2]) THEN Answer(E_INVAL, 0) /\ UNCHANGED fs
         ELSE fs' = r.s /\ Answer(IF r.v < 0 THEN r.v ELSE 0, r.v)
  /\ UNCHANGED <<opentab, ff, client_vars>>
serve_set_size == OnEntry("set_size", Ret(file_set_size(fs, Entry.file, srv.req[3], Entry.dir), 0))
serve_dirty_silent ==
  LET r == file_dirty(fs, Entry.file, srv.req[3])
  IN  /\ Serving("dirty") /\ fs' = r.s
      /\ IF r.v < 0 THEN srv' = Receiving ELSE Answer(r.v, 0)
      /\ UNCHANGED <<opentab, ff, client_vars>>
serve_dirty == OnEntry("dirty", file_dirty(fs, Entry.file, srv.req[3]))
serve_close == OnEntry("close", Ret(file_close(fs, Entry.file, Entry.dir), 0))

serve_remove ==
  LET r == file_remove(fs, srv.req[2])
  IN  Serving("remove") /\ fs' = r.s /\ Answer(r.v, 0) /\ UNCHANGED <<opentab, ff, client_vars>>
serve_sync ==
  Serving("sync") /\ fs' = fs_sync(fs) /\ Answer(0, 0) /\ UNCHANGED <<opentab, ff, client_vars>>

\* The end of the loop in serve: ipc_send succeeds once the client receives;
\* the page goes where the client said.  Then the request page is unmapped and
\* the server receives again.
reply ==
  LET c == srv.from
  IN  /\ srv.ph = "reply" /\ ipc[c] = "recv"
      /\ ipc' = [ipc EXCEPT ![c] = "run"]
      /\ res' = [res EXCEPT ![c] = srv.val]
      /\ fd' = IF srv.req[1] = "open" /\ srv.val = 0
               THEN [fd EXCEPT ![c][srv.req[6]] = srv.page] ELSE fd
      /\ data' = IF srv.req[1] = "map" /\ srv.val = 0
                 THEN [data EXCEPT ![c][srv.req[4]][srv.req[3]] = srv.page] ELSE data
      /\ srv' = Receiving
      /\ UNCHANGED <<fs, opentab, ff, code>>

\* A panic of the file system ends the server.
Alive == fs.status = "ok"
Serve ==
  /\ Alive
  /\ \/ serve_open \/ serve_map \/ serve_set_size \/ serve_dirty
     \/ serve_close \/ serve_remove \/ serve_sync \/ reply

-----------------------------------------------------------------------------
(* The client's side. *)

At(c, op) == ipc[c] = "run" /\ code[c] # <<>> /\ Head(code[c])[1] = op
Arg(c, n) == Head(code[c])[n]
Then(c, calls) == code' = [code EXCEPT ![c] = calls \o Tail(@)]
\* The program gives up: exit, with a close_all.
close_all == [n \in 1..MAXFD |-> <<"close", n - 1>>]
Fails(c) == code' = [code EXCEPT ![c] = close_all \o <<<<"destroy">>>>]
Request(req) == <<"fsipc", req>>

fsipc(c) ==
  /\ At(c, "fsipc") /\ srv.ph = "recv" /\ Then(c, <<>>)
  /\ srv' = [srv EXCEPT !.ph = "serve", !.from = c, !.req = Arg(c, 2)]
  /\ ipc' = [ipc EXCEPT ![c] = "sent"]
  /\ UNCHANGED <<fs, opentab, ff, fd, data, res>>

ipc_recv(c) ==
  /\ ipc[c] = "sent"
  /\ ipc' = [ipc EXCEPT ![c] = "recv"]
  /\ UNCHANGED <<server_vars, ff, fd, data, code, res>>

\* The steps of the library between requests.
Local(c) == UNCHANGED <<server_vars, fd, ipc, res>>

\* The lowest unused descriptor; the last one is never given out.
fd_alloc(c) ==
  {i \in Fdnum : i < MAXFD - 1 /\ fd[c][i] = None /\ \A j \in 0..i - 1 : fd[c][j] # None}

open(c) ==
  /\ At(c, "open")
  /\ IF fd_alloc(c) = {} THEN Fails(c)
     ELSE LET i == CHOOSE j \in fd_alloc(c) : TRUE
          IN  Then(c, <<Request(<<"open", Arg(c, 2), Arg(c, 3), Arg(c, 4), Arg(c, 5), i>>),
                        <<"open_map", i, 0>>>>)
  /\ Local(c) /\ UNCHANGED <<ff, data>>

\* Every page below the size in the Filefd is mapped, one request each.  When
\* one fails, open returns and the Filefd stays mapped.
open_map_stuck(c) ==
  LET i == Arg(c, 2)
      b == Arg(c, 3)
  IN  /\ At(c, "open_map")
      /\ IF res[c] < 0 THEN Fails(c)
         ELSE Then(c, IF b < ff[fd[c][i]].size
                      THEN <<Request(<<"map", fd[c][i], b, i>>), <<"open_map", i, b>>>>
                      ELSE <<>>)
      /\ Local(c) /\ UNCHANGED <<ff, data>>
open_map(c) ==
  LET i == Arg(c, 2)
      b == Arg(c, 3)
  IN  /\ At(c, "open_map")
      /\ IF res[c] < 0 THEN Fails(c)
         ELSE Then(c, IF b < ff[fd[c][i]].size
                      THEN <<Request(<<"map", fd[c][i], b, i>>), <<"open_map", i, b + 1>>>>
                      ELSE <<>>)
      /\ Local(c) /\ UNCHANGED <<ff, data>>

\* close and file_close: call every page dirty, then close, unmap the pages and
\* in the end the Filefd.  After an error the pages stay mapped.
close(c) ==
  LET i == Arg(c, 2)
  IN  /\ At(c, "close")
      /\ Then(c, IF fd[c][i] = None THEN <<>> ELSE <<<<"closing", i, 0, ff[fd[c][i]].size>>>>)
      /\ res' = [res EXCEPT ![c] = 0]
      /\ UNCHANGED <<server_vars, ff, fd, data, ipc>>

closing_short(c) ==
  LET i == Arg(c, 2)
      b == Arg(c, 3)
      size == Arg(c, 4)
  IN  /\ At(c, "closing")
      /\ Then(c, IF res[c] < 0 THEN <<<<"fd_close", i>>>>
                 ELSE IF b + 1 < size
                 THEN <<Request(<<"dirty", fd[c][i], b>>), <<"closing", i, b + 1, size>>>>
                 ELSE <<Request(<<"close", fd[c][i]>>), <<"unmap", i, 0, size>>, <<"fd_close", i>>>>)
      /\ Local(c) /\ UNCHANGED <<ff, data>>
closing(c) ==
  LET i == Arg(c, 2)
      b == Arg(c, 3)
      size == Arg(c, 4)
  IN  /\ At(c, "closing")
      /\ Then(c, IF res[c] < 0 THEN <<<<"fd_close", i>>>>
                 ELSE IF b < size
                 THEN <<Request(<<"dirty", fd[c][i], b>>), <<"closing", i, b + 1, size>>>>
                 ELSE <<Request(<<"close", fd[c][i]>>), <<"unmap", i, 0, size>>, <<"fd_close", i>>>>)
      /\ Local(c) /\ UNCHANGED <<ff, data>>

\* Only the client sees its own mappings of the pages: one step for the loop.
unmap(c) ==
  LET i == Arg(c, 2)
  IN  /\ At(c, "unmap") /\ Then(c, <<>>)
      /\ data' = [data EXCEPT ![c][i] =
                    [b \in Bno |-> IF res[c] = 0 /\ b \in Arg(c, 3)..Arg(c, 4) - 1 THEN 0 ELSE @[b]]]
      /\ Local(c) /\ UNCHANGED ff

fd_close(c) ==
  /\ At(c, "fd_close") /\ Then(c, <<>>)
  /\ fd' = [fd EXCEPT ![c][Arg(c, 2)] = None]
  /\ UNCHANGED <<server_vars, ff, data, res, ipc>>

\* Pages from..to-1 of descriptor i as the client touches them: where nothing
\* is mapped the kernel gives it a page of its own.
Touched(c, i, from, to) ==
  [data EXCEPT ![c][i] =
     [b \in Bno |-> IF b \in from..to - 1 /\ @[b] = 0 THEN Private ELSE @[b]]]

\* read and file_read, up to the size in the Filefd.
ReadSize(k, n) ==
  IF ff[k].offset > ff[k].size THEN 0
  ELSE IF ff[k].offset + n > ff[k].size THEN ff[k].size - ff[k].offset
  ELSE n
read(c) ==
  LET i == Arg(c, 2)
      k == fd[c][i]
      n == ReadSize(k, Arg(c, 3))
  IN  /\ At(c, "read")
      /\ IF k = None \/ ff[k].mode = "w" THEN Fails(c) /\ UNCHANGED <<ff, data>>
         ELSE /\ data' = Touched(c, i, ff[k].offset, ff[k].offset + n)
              /\ ff' = [ff EXCEPT ![k].offset = @ + n]
              /\ Then(c, <<>>)
      /\ Local(c)

\* write and file_write, at the offset found here: the file is made longer
\* first if need be.
write(c) ==
  LET i == Arg(c, 2)
      k == fd[c][i]
      offset == ff[k].offset
      tot == offset + Arg(c, 3)
  IN  /\ At(c, "write")
      /\ IF k = None \/ ff[k].mode = "r" \/ tot > NINDIRECT THEN Fails(c)
         ELSE Then(c, (IF tot > ff[k].size THEN <<<<"ftruncate", i, tot>>>> ELSE <<>>)
                       \o <<<<"store", i, offset, Arg(c, 3)>>>>)
      /\ Local(c) /\ UNCHANGED <<ff, data>>

\* The blocks of the file among these pages.
FilePages(c, i, from, to) == {data[c][i][b] : b \in from..to - 1} \ {0, Private}

\* Blocks of the cache as users have written into them.
Stored(s, S) ==
  [s EXCEPT !.blk = [b \in Block |-> IF b \in S THEN [@[b] EXCEPT !.bytes = TRUE] ELSE @[b]],
            !.unsaved = @ \union S]

\* The memcpy of file_write into the pages; then write moves the offset, which
\* another client may have moved in the meantime.
store(c) ==
  LET i == Arg(c, 2)
      k == fd[c][i]
      from == Arg(c, 3)
      to == from + Arg(c, 4)
  IN  /\ At(c, "store") /\ Then(c, <<>>)
      /\ data' = Touched(c, i, from, to)
      /\ fs' = Stored(fs, FilePages(c, i, from, to))
      /\ ff' = [ff EXCEPT ![k].offset = @ + Arg(c, 4)]
      /\ UNCHANGED <<opentab, srv, fd, res, ipc>>

seek(c) ==
  LET k == fd[c][Arg(c, 2)]
  IN  /\ At(c, "seek")
      /\ IF k = None THEN Fails(c) /\ UNCHANGED ff
         ELSE Then(c, <<>>) /\ ff' = [ff EXCEPT ![k].offset = Arg(c, 3)]
      /\ Local(c) /\ UNCHANGED data

\* The size in the Filefd is set before the server is asked.
ftruncate_unlimited(c) ==
  LET i == Arg(c, 2)
      k == fd[c][i]
  IN  /\ At(c, "ftruncate")
      /\ IF k = None THEN Fails(c) /\ UNCHANGED ff
         ELSE /\ Then(c, <<Request(<<"set_size", k, Arg(c, 3)>>),
                           <<"grow", i, ff[k].size, ff[k].size, Arg(c, 3)>>>>)
              /\ ff' = [ff EXCEPT ![k].size = Arg(c, 3)]
      /\ Local(c) /\ UNCHANGED data
ftruncate(c) ==
  LET i == Arg(c, 2)
      k == fd[c][i]
  IN  /\ At(c, "ftruncate")
      /\ IF k = None \/ Arg(c, 3) > NINDIRECT THEN Fails(c) /\ UNCHANGED ff
         ELSE /\ Then(c, <<Request(<<"set_size", k, Arg(c, 3)>>),
                           <<"grow", i, ff[k].size, ff[k].size, Arg(c, 3)>>>>)
              /\ ff' = [ff EXCEPT ![k].size = Arg(c, 3)]
      /\ Local(c) /\ UNCHANGED data

\* The new pages are mapped; when one fails the server's size is put back,
\* the Filefd's is not, and the error is returned.
grow(c) ==
  LET i == Arg(c, 2)
      b == Arg(c, 3)
      oldsize == Arg(c, 4)
      size == Arg(c, 5)
  IN  /\ At(c, "grow")
      /\ \/ res[c] < 0 /\ b = oldsize /\ Fails(c)
         \/ /\ res[c] < 0 /\ b > oldsize
            /\ Then(c, <<Request(<<"set_size", fd[c][i], oldsize>>), <<"fails">>>>)
         \/ /\ res[c] = 0 /\ b < size
            /\ Then(c, <<Request(<<"map", fd[c][i], b, i>>), <<"grow", i, b + 1, oldsize, size>>>>)
         \/ res[c] = 0 /\ b >= size /\ Then(c, <<<<"unmap", i, size, oldsize>>>>)
      /\ Local(c) /\ UNCHANGED <<ff, data>>
fails(c) == At(c, "fails") /\ Fails(c) /\ Local(c) /\ UNCHANGED <<ff, data>>

\* remove and sync are one request; a program looks at the result.
remove(c) ==
  /\ At(c, "remove") /\ Then(c, <<Request(<<"remove", Arg(c, 2)>>), <<"check">>>>)
  /\ Local(c) /\ UNCHANGED <<ff, data>>
sync(c) ==
  /\ At(c, "sync") /\ Then(c, <<Request(<<"sync">>)>>)
  /\ Local(c) /\ UNCHANGED <<ff, data>>
check(c) ==
  /\ At(c, "check") /\ (IF res[c] < 0 THEN Fails(c) ELSE Then(c, <<>>))
  /\ Local(c) /\ UNCHANGED <<ff, data>>

\* fork hands down every page that is shared (PTE_LIBRARY): those of files are.
\* The child is an environment that was free (sys_exofork).
fork(c) ==
  LET child == Arg(c, 2)
  IN  /\ At(c, "fork") /\ ipc[child] = "off" /\ Then(c, <<>>)
      /\ fd' = [fd EXCEPT ![child] = fd[c]]
      /\ data' = [data EXCEPT ![child] = data[c]]
      /\ ipc' = [ipc EXCEPT ![child] = "run"]
      /\ UNCHANGED <<server_vars, ff, res>>

wait(c) ==
  /\ At(c, "wait") /\ ipc[Arg(c, 2)] = "done" /\ Then(c, <<>>)
  /\ Local(c) /\ UNCHANGED <<ff, data>>

exit(c) == At(c, "exit") /\ Fails(c) /\ Local(c) /\ UNCHANGED <<ff, data>>

\* sys_env_destroy: env_free unmaps what is left.
destroy(c) ==
  /\ At(c, "destroy") /\ Then(c, <<>>)
  /\ fd' = [fd EXCEPT ![c] = [i \in Fdnum |-> None]]
  /\ data' = [data EXCEPT ![c] = [i \in Fdnum |-> [b \in Bno |-> 0]]]
  /\ ipc' = [ipc EXCEPT ![c] = "done"]
  /\ UNCHANGED <<server_vars, ff, res>>

Run(c) ==
  \/ fsipc(c) \/ ipc_recv(c) \/ open(c) \/ open_map(c) \/ close(c) \/ closing(c)
  \/ unmap(c) \/ fd_close(c) \/ read(c) \/ write(c) \/ store(c) \/ seek(c)
  \/ ftruncate(c) \/ grow(c) \/ fails(c) \/ remove(c) \/ sync(c) \/ check(c)
  \/ fork(c) \/ wait(c) \/ exit(c) \/ destroy(c)

AllDone == \A c \in Client : ipc[c] \in {"off", "done"}
Finished == AllDone /\ UNCHANGED vars

Next == Serve \/ (\E c \in Client : Run(c)) \/ Finished

Spec == Init /\ [][Next]_vars

\* The scheduler runs every environment that is runnable (EnvSched), so a call
\* that can be made is made; a send that finds the server busy is tried again
\* until it succeeds, and every program ends, so it does.  ServerRuns is
\* WF_vars(Serve) with ENABLED Serve written out, which TLC would evaluate by
\* executing the file system.
ServerCan == Alive /\ (srv.ph = "serve" \/ (srv.ph = "reply" /\ ipc[srv.from] = "recv"))
ServerRuns == ([]<>~ServerCan) \/ []<><<srv.ph # "recv" /\ srv' # srv>>_vars
FairSpec == Spec /\ ServerRuns /\ \A c \in Client : WF_vars(Run(c))

-----------------------------------------------------------------------------
TypeOK ==
  /\ fs \in State /\ Bounded(fs)
  /\ opentab \in [Fileid -> [file : FilePlace, dir : FilePlace]]
  /\ ff \in [Fileid -> [mapped : BOOLEAN, size : 0..NINDIRECT + 1, offset : Nat, mode : Mode]]
  /\ srv.ph \in {"recv", "serve", "reply"} /\ srv.from \in Client
  /\ fd \in [Client -> [Fdnum -> Fileid \union {None}]]
  /\ data \in [Client -> [Fdnum -> [Bno -> Block \union {Private}]]]
  /\ ipc \in [Client -> {"off", "run", "sent", "recv", "done"}]

\* The block of page b of the file, 0 if it has none.
BlockOf(f, b) ==
  LET m == file_map_block(fs, f, b, FALSE) IN IF m.v < 0 THEN 0 ELSE m.v

\* A descriptor shows its client the file it was opened for: every page mapped
\* under it, below the size of the file, is that file's block.  It takes an
\* entry that is given to a second open while somebody still has the Filefd,
\* or a block that is freed and allocated again, to break this.
MapsOwnFile ==
  \A c \in Client : \A i \in Fdnum : fd[c][i] # None =>
    LET f == opentab[fd[c][i]].file
    IN  \A b \in 0..File(fs, f).size - 1 :
          data[c][i][b] # 0 /\ b < ff[fd[c][i]].size => data[c][i][b] = BlockOf(f, b)

\* Between two calls of a program that has met no error, its descriptors are
\* complete: the size in the Filefd is the size of the file, and all its pages
\* are mapped.  So file_read and file_write never touch a page that is missing,
\* whatever the server and the other clients do.
AtRest(c) ==
  /\ ipc[c] = "run" /\ code[c] # <<>>
  /\ Head(code[c])[1] \in {"open", "close", "read", "write", "store", "ftruncate", "remove", "sync"}
  /\ <<"exit">> \in Range(code[c])

\* The server works for the one client that waits for it, and answers it once:
\* a client waits exactly while its request is with the server.
OneAnswer ==
  \A c \in Client :
    ipc[c] \in {"sent", "recv"} <=> srv.ph \in {"serve", "reply"} /\ srv.from = c

\* When the server has answered a close, everything that was written through
\* the descriptor is on the disk.
CloseSaves ==
  [][Serving("close") /\ srv'.ph = "reply" /\ srv'.val = 0 =>
       \A b \in 0..File(fs, Entry.file).size - 1 : BlockOf(Entry.file, b) \notin fs'.unsaved]_vars

\* Every program comes to its end: no request is left unanswered, and the
\* clients and the server never wait for each other.
AllEnd == <>AllDone

=============================================================================
