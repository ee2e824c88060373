---------------------------- MODULE ServerProofs ----------------------------
(***************************************************************************)
(* Proofs about FileServer, for any number of clients and any programs:    *)
(* the server answers every request once, an entry of opentab that         *)
(* somebody still uses is never given to another open, and the types.      *)
(*                                                                         *)
(* The argument.  FInv says who waits for whom and which Filefds are       *)
(* mapped; it needs nothing of the file system and of the programs.  TInv  *)
(* adds the types.  What serve does with a request depends on what a       *)
(* client put into it, often several calls before, so TInv follows the     *)
(* programs: every call still to be made, and every request on its way,    *)
(* has arguments in range.  What the requests do to the disk are lemmas of *)
(* FileSystemProofs.                                                       *)
(***************************************************************************)
EXTENDS FileSystemProofs, FileServer, FiniteSetTheorems, SequenceTheorems

-----------------------------------------------------------------------------
(* The inductive invariant.  The file system, the programs and the blocks   *)
(* mapped by the clients are left open: nothing here depends on them.       *)

\* The record of the server, the Filefd pages and the descriptors.
ServerRecord ==
  /\ srv = [ph |-> srv.ph, from |-> srv.from, req |-> srv.req, val |-> srv.val, page |-> srv.page]
  /\ srv.ph \in {"recv", "serve", "reply"} /\ srv.from \in Client
ipcOK == ipc \in [Client -> {"off", "run", "sent", "recv", "done"}]

Filefd(p) ==
  /\ p = [mapped |-> p.mapped, size |-> p.size, offset |-> p.offset, mode |-> p.mode]
  /\ p.mapped \in BOOLEAN
ffOK == ff = [k \in Fileid |-> ff[k]] /\ \A k \in Fileid : Filefd(ff[k])
fdOK == fd \in [Client -> [Fdnum -> Fileid \union {None}]]

\* The server has mapped every Filefd that a client has, and the one that it
\* is about to hand out.
FilefdMapped ==
  /\ \A c \in Client : \A n \in Fdnum : fd[c][n] # None => ff[fd[c][n]].mapped
  /\ srv.ph = "reply" /\ srv.req[1] = "open" /\ srv.val = 0 =>
       srv.page \in Fileid /\ ff[srv.page].mapped

FInv == ServerRecord /\ ipcOK /\ ffOK /\ fdOK /\ FilefdMapped /\ OneAnswer

-----------------------------------------------------------------------------
LEMMA SomeClient == (CHOOSE c \in Client : TRUE) \in Client
  BY ServerSizes

LEMMA ClosedFilefd == Filefd(Closed)
  BY DEF Filefd, Closed

LEMMA MarkMapped ==
  ASSUME NEW p, Filefd(p)
  PROVE  Filefd([p EXCEPT !.mapped = TRUE]) /\ [p EXCEPT !.mapped = TRUE].mapped
  <1>0. PICK t : t = TRUE
    OBVIOUS
  <1> DEFINE n == [p EXCEPT !.mapped = t]
  <1>1. p = [mapped |-> p.mapped, size |-> p.size, offset |-> p.offset, mode |-> p.mode]
    BY DEF Filefd
  <1>2. n = [mapped |-> t, size |-> p.size, offset |-> p.offset, mode |-> p.mode]
    BY <1>1
  <1> HIDE DEF n
  <1>3. n.mapped = t /\ n = [mapped |-> n.mapped, size |-> n.size, offset |-> n.offset, mode |-> n.mode]
    BY <1>2
  <1>4. Filefd(n) /\ n.mapped
    BY <1>0, <1>3, Zenon DEF Filefd
  <1> QED BY <1>0, <1>4, Zenon DEF n

LEMMA FInvInit == Init => FInv
  <1> SUFFICES ASSUME Init PROVE FInv
    OBVIOUS
  <1>1. PICK s \in Scripts :
          /\ ff = [k \in Fileid |-> Closed]
          /\ srv = Receiving
          /\ fd = [c \in Client |-> [n \in Fdnum |-> None]]
          /\ ipc = [c \in Client |-> IF c \in s.start THEN "run" ELSE "off"]
    BY DEF Init
  <1>2. ServerRecord /\ srv.ph = "recv"
    BY <1>1, SomeClient DEF ServerRecord, Receiving
  <1>3. ipcOK /\ \A c \in Client : ipc[c] \in {"run", "off"}
    BY <1>1 DEF ipcOK
  <1>4. Filefd(Closed)
    BY ClosedFilefd
  <1>5. ffOK
    <2> HIDE DEF Closed
    <2> QED BY <1>1, <1>4 DEF ffOK
  <1>6. fdOK /\ \A c \in Client : \A n \in Fdnum : fd[c][n] = None
    BY <1>1 DEF fdOK
  <1> QED BY <1>2, <1>3, <1>5, <1>6 DEF FInv, FilefdMapped, OneAnswer
-----------------------------------------------------------------------------
(* What a step does to this part of the state. *)

\* A request other than open is served.
ServesOther ==
  /\ srv.ph = "serve" /\ srv.req[1] # "open"
  /\ \E val, page : Answer(val, page)
  /\ UNCHANGED <<opentab, ff, fd, ipc>>

\* A client works: it may write the offset or the size in a Filefd.
Works ==
  /\ UNCHANGED <<opentab, srv, fd, ipc>>
  /\ \/ ff' = ff
     \/ \E k, v : ff' = [ff EXCEPT ![k].offset = v]
     \/ \E k, v : ff' = [ff EXCEPT ![k].size = v]

\* A client gives up descriptors, and ends or not.
Closes(c) ==
  /\ ipc[c] = "run" /\ UNCHANGED <<opentab, ff, srv>>
  /\ \/ ipc' = ipc /\ \E n : fd' = [fd EXCEPT ![c][n] = None]
     \/ ipc' = [ipc EXCEPT ![c] = "done"] /\ fd' = [fd EXCEPT ![c] = [n \in Fdnum |-> None]]

\* A new client begins with the descriptors of another one.
Begins(c, child) ==
  /\ ipc[child] = "off" /\ UNCHANGED <<opentab, ff, srv>>
  /\ ipc' = [ipc EXCEPT ![child] = "run"] /\ fd' = [fd EXCEPT ![child] = fd[c]]

LEMMA OtherRequests ==
  ASSUME serve_map \/ serve_set_size \/ serve_dirty \/ serve_close \/ serve_remove \/ serve_sync
  PROVE  ServesOther
  <1>1. CASE serve_map
    BY <1>1 DEF serve_map, Serving, ServesOther, client_vars
  <1>2. CASE serve_set_size
    BY <1>2 DEF serve_set_size, OnEntry, Serving, ServesOther, client_vars
  <1>3. CASE serve_dirty
    BY <1>3 DEF serve_dirty, OnEntry, Serving, ServesOther, client_vars
  <1>4. CASE serve_close
    BY <1>4 DEF serve_close, OnEntry, Serving, ServesOther, client_vars
  <1>5. CASE serve_remove
    BY <1>5 DEF serve_remove, Serving, ServesOther, client_vars
  <1>6. CASE serve_sync
    BY <1>6 DEF serve_sync, Serving, ServesOther, client_vars
  <1> QED BY <1>1, <1>2, <1>3, <1>4, <1>5, <1>6

LEMMA ClientSteps ==
  ASSUME NEW c \in Client, Run(c), ~fsipc(c), ~ipc_recv(c)
  PROVE  Works \/ Closes(c) \/ \E child : Begins(c, child)
  <1>1. CASE open(c) \/ open_map(c) \/ closing(c) \/ write(c) \/ grow(c) \/ fails(c)
    BY <1>1 DEF open, open_map, closing, write, grow, fails, Local, server_vars, Works
  <1>2. CASE remove(c) \/ sync(c) \/ check(c) \/ wait(c) \/ exit(c) \/ close(c) \/ unmap(c)
    BY <1>2 DEF remove, sync, check, wait, exit, close, unmap, Local, server_vars, Works
  <1>3. CASE read(c)
    <2>1. UNCHANGED <<opentab, srv, fd, ipc>>
      BY <1>3 DEF read, Local, server_vars
    <2>2. ff' = ff \/ \E k, v : ff' = [ff EXCEPT ![k].offset = v]
      <3> DEFINE k == fd[c][Arg(c, 2)]
      <3>1. ff' = ff \/ ff' = [ff EXCEPT ![k].offset = ff[k].offset + ReadSize(k, Arg(c, 3))]
        BY <1>3 DEF read
      <3> QED BY <3>1
    <2> QED BY <2>1, <2>2 DEF Works
  <1>4. CASE store(c)
    <2>1. UNCHANGED <<opentab, srv, fd, ipc>>
      BY <1>4 DEF store
    <2>2. \E k, v : ff' = [ff EXCEPT ![k].offset = v]
      BY <1>4 DEF store
    <2> QED BY <2>1, <2>2 DEF Works
  <1>5. CASE seek(c)
    <2>1. UNCHANGED <<opentab, srv, fd, ipc>>
      BY <1>5 DEF seek, Local, server_vars
    <2>2. ff' = ff \/ \E k, v : ff' = [ff EXCEPT ![k].offset = v]
      BY <1>5 DEF seek
    <2> QED BY <2>1, <2>2 DEF Works
  <1>6. CASE ftruncate(c)
    <2>1. UNCHANGED <<opentab, srv, fd, ipc>>
      BY <1>6 DEF ftruncate, Local, server_vars
    <2>2. ff' = ff \/ \E k, v : ff' = [ff EXCEPT ![k].size = v]
      BY <1>6 DEF ftruncate
    <2> QED BY <2>1, <2>2 DEF Works
  <1>7. CASE fd_close(c)
    BY <1>7 DEF fd_close, At, server_vars, Closes
  <1>8. CASE destroy(c)
    BY <1>8 DEF destroy, At, server_vars, Closes
  <1>9. CASE fork(c)
    BY <1>9 DEF fork, server_vars, Begins
  <1> QED BY <1>1, <1>2, <1>3, <1>4, <1>5, <1>6, <1>7, <1>8, <1>9 DEF Run

\* The kinds of steps of the whole system.
LEMMA StepKinds ==
  ASSUME [Next]_vars
  PROVE  \/ serve_open \/ ServesOther \/ reply \/ Works
         \/ \E c \in Client : fsipc(c) \/ ipc_recv(c) \/ Closes(c) \/ \E child : Begins(c, child)
  <1>1. CASE Serve
    BY <1>1, OtherRequests DEF Serve
  <1>2. ASSUME NEW c \in Client, Run(c)
        PROVE  Works \/ fsipc(c) \/ ipc_recv(c) \/ Closes(c) \/ \E child : Begins(c, child)
    BY <1>2, ClientSteps
  <1>3. CASE UNCHANGED vars
    BY <1>3 DEF vars, server_vars, client_vars, Works
  <1> QED BY <1>1, <1>2, <1>3 DEF Next, Finished

-----------------------------------------------------------------------------
(* Every kind of step keeps the invariant. *)

LEMMA AnswerIs ==
  ASSUME ServerRecord, NEW val, NEW page, Answer(val, page)
  PROVE  /\ ServerRecord'
         /\ srv'.ph = "reply" /\ srv'.from = srv.from /\ srv'.req = srv.req
         /\ srv'.val = val /\ srv'.page = page
  BY DEF ServerRecord, Answer

\* A client waits for its answer while the server works on it.
LEMMA StillWaits ==
  ASSUME FInv, srv.ph = "serve", srv'.ph = "reply", srv'.from = srv.from, ipc' = ipc
  PROVE  OneAnswer' /\ ipcOK'
  BY DEF FInv, OneAnswer, ipcOK

LEMMA ServesKeeps ==
  ASSUME FInv, ServesOther
  PROVE  FInv'
  <1>1. PICK val, page : Answer(val, page)
    BY DEF ServesOther
  <1>2. ServerRecord' /\ srv'.ph = "reply" /\ srv'.from = srv.from /\ srv'.req = srv.req
    BY <1>1, AnswerIs DEF FInv
  <1>3. UNCHANGED <<ff, fd, ipc>> /\ srv.ph = "serve" /\ srv'.req[1] # "open"
    BY <1>2 DEF ServesOther
  <1>4. OneAnswer' /\ ipcOK'
    BY <1>2, <1>3, StillWaits
  <1>5. ffOK' /\ fdOK' /\ FilefdMapped'
    BY <1>3 DEF FInv, ffOK, fdOK, FilefdMapped, Filefd
  <1> QED BY <1>2, <1>4, <1>5 DEF FInv

\* Pages that are mapped stay mapped.
LEMMA StaysMapped ==
  ASSUME FInv, fd' = fd, srv' = srv \/ srv'.ph # "reply",
         \A k \in Fileid : ff[k].mapped => ff'[k].mapped
  PROVE  FilefdMapped'
  <1>1. \A c \in Client : \A n \in Fdnum : fd[c][n] \in Fileid \union {None}
    BY DEF FInv, fdOK
  <1>2. \A c \in Client : \A n \in Fdnum : fd[c][n] # None => ff'[fd[c][n]].mapped
    BY <1>1 DEF FInv, FilefdMapped
  <1>3. srv'.ph = "reply" /\ srv'.req[1] = "open" /\ srv'.val = 0 =>
          srv'.page \in Fileid /\ ff'[srv'.page].mapped
    BY DEF FInv, FilefdMapped
  <1> QED BY <1>2, <1>3 DEF FilefdMapped

LEMMA OpenKeeps ==
  ASSUME FInv, serve_open
  PROVE  FInv'
  <1>1. srv.ph = "serve" /\ srv.req[1] = "open" /\ UNCHANGED <<fd, ipc>> /\ ServerRecord /\ ffOK
    BY DEF serve_open, Serving, client_vars, FInv
  <1>2. CASE \E val, page : Answer(val, page) /\ val # 0 /\ ff' = ff
    <2>1. PICK val, page : Answer(val, page) /\ val # 0 /\ ff' = ff
      BY <1>2
    <2>2. ServerRecord' /\ srv'.ph = "reply" /\ srv'.from = srv.from /\ srv'.val # 0
      BY <1>1, <2>1, AnswerIs
    <2>3. OneAnswer' /\ ipcOK'
      BY <1>1, <2>2, StillWaits
    <2>4. ffOK' /\ fdOK' /\ FilefdMapped'
      BY <1>1, <2>1, <2>2 DEF FInv, ffOK, fdOK, FilefdMapped, Filefd
    <2> QED BY <2>2, <2>3, <2>4 DEF FInv
  <1>3. CASE \E k \in Fileid : \E val, page : Answer(val, k) /\ Filefd(page) /\ page.mapped
                                              /\ ff' = [ff EXCEPT ![k] = page]
    <2>0. PICK k \in Fileid : \E val, page : Answer(val, k) /\ Filefd(page) /\ page.mapped
                                            /\ ff' = [ff EXCEPT ![k] = page]
      BY <1>3
    <2>1. PICK val, page : Answer(val, k) /\ Filefd(page) /\ page.mapped
                           /\ ff' = [ff EXCEPT ![k] = page]
      BY <2>0
    <2>2. ServerRecord' /\ srv'.ph = "reply" /\ srv'.from = srv.from /\ srv'.page = k
      BY <1>1, <2>1, AnswerIs
    <2>3. OneAnswer' /\ ipcOK'
      BY <1>1, <2>2, StillWaits
    <2>4. ff' = [j \in Fileid |-> ff'[j]]
      BY <1>1, <2>1 DEF ffOK
    <2>5. \A j \in Fileid : ff'[j] = ff[j] \/ ff'[j] = page
      BY <1>1, <2>1 DEF ffOK
    <2>6. ff'[k] = page
      BY <1>1, <2>1 DEF ffOK
    <2>7. ffOK'
      BY <1>1, <2>1, <2>4, <2>5 DEF ffOK
    <2>8. \A c \in Client : \A n \in Fdnum : fd[c][n] # None => ff'[fd[c][n]].mapped
      BY <2>1, <2>5 DEF FInv, FilefdMapped, fdOK
    <2>9. FilefdMapped'
      BY <1>1, <2>1, <2>2, <2>6, <2>8 DEF FilefdMapped
    <2>10. fdOK'
      BY <1>1 DEF FInv, fdOK
    <2> QED BY <2>2, <2>3, <2>7, <2>9, <2>10 DEF FInv
  <1>4. \/ \E val, page : Answer(val, page) /\ val # 0 /\ ff' = ff
        \/ \E k \in Fileid : \E val, page : Answer(val, k) /\ Filefd(page) /\ page.mapped
                                            /\ ff' = [ff EXCEPT ![k] = page]
    <2>1. CASE open_alloc = {} /\ Answer(E_MAX_OPEN, 0) /\ UNCHANGED <<fs, opentab, ff>>
      BY <2>1 DEF E_MAX_OPEN
    <2>2. CASE \E k \in open_alloc : ~ff[k].mapped /\ Answer(E_NO_MEM, 0) /\ UNCHANGED <<fs, opentab, ff>>
      BY <2>2 DEF E_NO_MEM
    <2>3. ASSUME NEW k \in open_alloc, NEW o, Answer(o.v, k),
                 ff' = [ff EXCEPT ![k] =
                          IF o.v < 0 THEN [Closed EXCEPT !.mapped = TRUE]
                          ELSE [mapped |-> TRUE, size |-> File(o.s, o.f).size,
                                offset |-> 0, mode |-> srv.req[5]]]
          PROVE  \E val, page : Answer(val, k) /\ Filefd(page) /\ page.mapped
                                /\ ff' = [ff EXCEPT ![k] = page]
      <3> DEFINE empty == [Closed EXCEPT !.mapped = TRUE]
      <3>1. Filefd(empty) /\ empty.mapped
        <4>1. Filefd(Closed)
          BY ClosedFilefd
        <4> QED BY <4>1, MarkMapped
      <3> DEFINE new == [mapped |-> TRUE, size |-> File(o.s, o.f).size,
                         offset |-> 0, mode |-> srv.req[5]]
      <3>2. Filefd(new) /\ new.mapped
        <4>1. new.mapped = TRUE /\ new = [mapped |-> new.mapped, size |-> new.size,
                                         offset |-> new.offset, mode |-> new.mode]
          OBVIOUS
        <4> HIDE DEF new
        <4> QED BY <4>1, Zenon DEF Filefd
      <3>3. ff' = [ff EXCEPT ![k] = empty] \/ ff' = [ff EXCEPT ![k] = new]
        BY <2>3
      <3> HIDE DEF new, empty
      <3> QED BY <2>3, <3>1, <3>2, <3>3
    <2>4. open_alloc \subseteq Fileid
      BY DEF open_alloc
    <2> QED BY <2>1, <2>2, <2>3, <2>4 DEF serve_open
  <1> QED BY <1>2, <1>3, <1>4

LEMMA WorksKeeps ==
  ASSUME FInv, Works
  PROVE  FInv'
  <1>1. UNCHANGED <<srv, fd, ipc>> /\ ffOK
    BY DEF Works, FInv
  <1>2. ffOK' /\ \A k \in Fileid : ff[k].mapped => ff'[k].mapped
    <2>1. CASE ff' = ff
      BY <1>1, <2>1 DEF ffOK, Filefd
    <2>2. ASSUME NEW k, NEW v, ff' = [ff EXCEPT ![k].offset = v]
          PROVE  ffOK' /\ \A j \in Fileid : ff[j].mapped => ff'[j].mapped
      <3>1. ff' = [j \in Fileid |-> ff'[j]]
        BY <1>1, <2>2 DEF ffOK
      <3>2. ASSUME NEW j \in Fileid PROVE Filefd(ff'[j]) /\ (ff[j].mapped => ff'[j].mapped)
        <4>1. ff'[j] = ff[j] \/ ff'[j] = [ff[j] EXCEPT !.offset = v]
          BY <1>1, <2>2 DEF ffOK
        <4>2. Filefd(ff[j])
          BY <1>1 DEF ffOK
        <4> QED BY <4>1, <4>2 DEF Filefd
      <3> QED BY <3>1, <3>2 DEF ffOK
    <2>3. ASSUME NEW k, NEW v, ff' = [ff EXCEPT ![k].size = v]
          PROVE  ffOK' /\ \A j \in Fileid : ff[j].mapped => ff'[j].mapped
      <3>1. ff' = [j \in Fileid |-> ff'[j]]
        BY <1>1, <2>3 DEF ffOK
      <3>2. ASSUME NEW j \in Fileid PROVE Filefd(ff'[j]) /\ (ff[j].mapped => ff'[j].mapped)
        <4>1. ff'[j] = ff[j] \/ ff'[j] = [ff[j] EXCEPT !.size = v]
          BY <1>1, <2>3 DEF ffOK
        <4>2. Filefd(ff[j])
          BY <1>1 DEF ffOK
        <4> QED BY <4>1, <4>2 DEF Filefd
      <3> QED BY <3>1, <3>2 DEF ffOK
    <2> QED BY <2>1, <2>2, <2>3 DEF Works
  <1>3. FilefdMapped'
    BY <1>1, <1>2, StaysMapped
  <1>4. ServerRecord' /\ ipcOK' /\ fdOK' /\ OneAnswer'
    BY <1>1 DEF FInv, ServerRecord, ipcOK, fdOK, OneAnswer
  <1> QED BY <1>2, <1>3, <1>4 DEF FInv

LEMMA ReplyKeeps ==
  ASSUME FInv, reply
  PROVE  FInv'
  <1> DEFINE c == srv.from
  <1>1. /\ srv.ph = "reply" /\ c \in Client /\ srv' = Receiving /\ ff' = ff
        /\ ipc' = [ipc EXCEPT ![c] = "run"]
        /\ fd' = IF srv.req[1] = "open" /\ srv.val = 0
                 THEN [fd EXCEPT ![c][srv.req[6]] = srv.page] ELSE fd
    BY DEF reply, FInv, ServerRecord
  <1>2. ServerRecord' /\ srv'.ph = "recv"
    BY <1>1, SomeClient DEF ServerRecord, Receiving
  <1>3. ipcOK' /\ OneAnswer'
    BY <1>1, <1>2 DEF FInv, ipcOK, OneAnswer
  <1>4. ffOK'
    BY <1>1 DEF FInv, ffOK, Filefd
  <1>5. CASE srv.req[1] = "open" /\ srv.val = 0
    <2>1. srv.page \in Fileid /\ ff[srv.page].mapped
      BY <1>1, <1>5 DEF FInv, FilefdMapped
    <2>2. fd' = [fd EXCEPT ![c][srv.req[6]] = srv.page]
      BY <1>1, <1>5
    <2>3. fdOK'
      BY <2>1, <2>2 DEF FInv, fdOK
    <2>4. \A d \in Client : \A n \in Fdnum : fd'[d][n] = fd[d][n] \/ fd'[d][n] = srv.page
      BY <2>2 DEF FInv, fdOK
    <2>5. \A d \in Client : \A n \in Fdnum : fd'[d][n] # None => ff[fd'[d][n]].mapped
      BY <2>1, <2>4 DEF FInv, FilefdMapped
    <2> QED BY <1>1, <1>2, <1>3, <1>4, <2>3, <2>5 DEF FInv, FilefdMapped
  <1>6. CASE ~(srv.req[1] = "open" /\ srv.val = 0)
    <2>1. fd' = fd
      BY <1>1, <1>6
    <2> QED BY <1>1, <1>2, <1>3, <1>4, <2>1 DEF FInv, FilefdMapped, fdOK
  <1> QED BY <1>5, <1>6

LEMMA RequestKeeps ==
  ASSUME FInv, NEW c \in Client, fsipc(c)
  PROVE  FInv'
  <1>1. /\ srv.ph = "recv" /\ UNCHANGED <<ff, fd>> /\ ipc' = [ipc EXCEPT ![c] = "sent"]
        /\ srv' = [srv EXCEPT !.ph = "serve", !.from = c, !.req = Arg(c, 2)]
    BY DEF fsipc
  <1>2. ServerRecord' /\ srv'.ph = "serve" /\ srv'.from = c
    BY <1>1 DEF FInv, ServerRecord
  <1>3. ipcOK' /\ OneAnswer'
    BY <1>1, <1>2 DEF FInv, ipcOK, OneAnswer
  <1>4. ffOK' /\ fdOK'
    BY <1>1 DEF FInv, ffOK, fdOK, Filefd
  <1>5. FilefdMapped'
    BY <1>1, <1>2, StaysMapped
  <1> QED BY <1>2, <1>3, <1>4, <1>5 DEF FInv

LEMMA RecvKeeps ==
  ASSUME FInv, NEW c \in Client, ipc_recv(c)
  PROVE  FInv'
  <1>1. ipc[c] = "sent" /\ ipc' = [ipc EXCEPT ![c] = "recv"] /\ UNCHANGED <<srv, ff, fd>>
    BY DEF ipc_recv, server_vars
  <1>2. ipcOK' /\ OneAnswer'
    BY <1>1 DEF FInv, ipcOK, OneAnswer
  <1>3. ServerRecord' /\ ffOK' /\ fdOK' /\ FilefdMapped'
    BY <1>1 DEF FInv, ServerRecord, ffOK, fdOK, Filefd, FilefdMapped
  <1> QED BY <1>2, <1>3 DEF FInv

\* A descriptor is closed, or one is a copy of another.
LEMMA CopiedDescriptors ==
  ASSUME FInv, UNCHANGED <<srv, ff>>, fdOK',
         \A d \in Client : \A n \in Fdnum : fd'[d][n] = None \/ \E e \in Client : fd'[d][n] = fd[e][n]
  PROVE  ServerRecord' /\ ffOK' /\ FilefdMapped'
  <1>1. ServerRecord' /\ ffOK'
    BY DEF FInv, ServerRecord, ffOK, Filefd
  <1>2. \A d \in Client : \A n \in Fdnum : fd'[d][n] # None => ff[fd'[d][n]].mapped
    BY DEF FInv, FilefdMapped
  <1> QED BY <1>1, <1>2 DEF FInv, FilefdMapped

LEMMA ClosesKeeps ==
  ASSUME FInv, NEW c \in Client, Closes(c)
  PROVE  FInv'
  <1>1. /\ ipc[c] = "run" /\ UNCHANGED <<srv, ff>> /\ ipc' \in {ipc, [ipc EXCEPT ![c] = "done"]}
        /\ \/ \E n : fd' = [fd EXCEPT ![c][n] = None]
           \/ fd' = [fd EXCEPT ![c] = [n \in Fdnum |-> None]]
    BY DEF Closes
  <1>2. ipcOK' /\ OneAnswer'
    BY <1>1 DEF FInv, ipcOK, OneAnswer
  <1>3. fdOK' /\ \A d \in Client : \A n \in Fdnum : fd'[d][n] = None \/ fd'[d][n] = fd[d][n]
    <2>1. CASE \E n : fd' = [fd EXCEPT ![c][n] = None]
      <3>1. PICK m : fd' = [fd EXCEPT ![c][m] = None]
        BY <2>1
      <3>2. fdOK'
        BY <3>1 DEF FInv, fdOK
      <3>3. \A d \in Client : \A n \in Fdnum : fd'[d][n] = None \/ fd'[d][n] = fd[d][n]
        BY <3>1 DEF FInv, fdOK
      <3> QED BY <3>2, <3>3
    <2>2. CASE fd' = [fd EXCEPT ![c] = [n \in Fdnum |-> None]]
      <3>1. fdOK'
        BY <2>2 DEF FInv, fdOK
      <3>2. \A d \in Client : \A n \in Fdnum : fd'[d][n] = None \/ fd'[d][n] = fd[d][n]
        BY <2>2 DEF FInv, fdOK
      <3> QED BY <3>1, <3>2
    <2> QED BY <1>1, <2>1, <2>2
  <1>4. ServerRecord' /\ ffOK' /\ FilefdMapped'
    BY <1>1, <1>3, CopiedDescriptors
  <1> QED BY <1>2, <1>3, <1>4 DEF FInv

LEMMA BeginsKeeps ==
  ASSUME FInv, NEW c \in Client, NEW child, Begins(c, child)
  PROVE  FInv'
  <1>1. /\ ipc[child] = "off" /\ UNCHANGED <<srv, ff>> /\ ipc' = [ipc EXCEPT ![child] = "run"]
        /\ fd' = [fd EXCEPT ![child] = fd[c]]
    BY DEF Begins
  <1>2. ipcOK' /\ OneAnswer'
    BY <1>1 DEF FInv, ipcOK, OneAnswer
  <1>3. fdOK' /\ \A d \in Client : fd'[d] = fd[d] \/ fd'[d] = fd[c]
    BY <1>1 DEF FInv, fdOK
  <1>4. ServerRecord' /\ ffOK' /\ FilefdMapped'
    BY <1>1, <1>3, CopiedDescriptors
  <1> QED BY <1>2, <1>3, <1>4 DEF FInv

LEMMA FInvStep == FInv /\ [Next]_vars => FInv'
  BY StepKinds, OpenKeeps, ServesKeeps, ReplyKeeps, WorksKeeps, RequestKeeps, RecvKeeps,
     ClosesKeeps, BeginsKeeps

-----------------------------------------------------------------------------
(* The theorems. *)

\* Every reachable state of the server and its clients satisfies the invariant.
THEOREM FInvHolds == Spec => []FInv
  <1> QED BY FInvInit, FInvStep, PTL DEF Spec

\* OneAnswer: serve answers each request exactly once, to the client that is
\* blocked in fsipc for it, whatever the file system makes of the request.
THEOREM OneAnswerHolds == Spec => []OneAnswer
  <1>1. FInv => OneAnswer
    BY DEF FInv
  <1> QED BY <1>1, FInvHolds, PTL

\* open_alloc never gives out an entry whose Filefd somebody has mapped: its
\* file stays the same, and a new open does not reset its size and offset.
EntryKept ==
  [][\A c \in Client : \A n \in Fdnum : fd[c][n] # None =>
       /\ opentab'[fd[c][n]] = opentab[fd[c][n]]
       /\ serve_open => ff'[fd[c][n]] = ff[fd[c][n]]]_vars

opentabOK == opentab = [k \in Fileid |-> opentab[k]]

LEMMA OpensFree ==
  ASSUME FInv, opentabOK, serve_open, NEW c \in Client, NEW n \in Fdnum, fd[c][n] # None
  PROVE  opentab'[fd[c][n]] = opentab[fd[c][n]] /\ ff'[fd[c][n]] = ff[fd[c][n]]
  <1> DEFINE k == fd[c][n]
  <1>1. k \in Fileid /\ ff[k].mapped
    BY DEF FInv, fdOK, FilefdMapped
  <1>2. pageref(k) \in Nat /\ pageref(k) > 1
    <2>1. IsFiniteSet(Client \X Fdnum)
      <3>1. IsFiniteSet(Fdnum)
        BY ServerSizes, FS_Interval DEF Fdnum
      <3> QED BY <3>1, ServerSizes, FS_Product
    <2>2. IsFiniteSet(Users(k))
      BY <2>1, FS_Subset DEF Users
    <2>3. <<c, n>> \in Users(k)
      BY DEF Users
    <2>4. Cardinality(Users(k)) \in Nat /\ Cardinality(Users(k)) # 0
      BY <2>2, <2>3, FS_EmptySet, FS_CardinalityType
    <2>5. pageref(k) = 1 + Cardinality(Users(k))
      BY <1>1 DEF pageref
    <2> QED BY <2>4, <2>5
  <1>3. k \notin open_alloc
    <2>1. ~(pageref(k) <= 1)
      BY <1>2
    <2> QED BY <2>1 DEF open_alloc
  <1>4. \/ UNCHANGED <<opentab, ff>>
        \/ \E j \in open_alloc : \E e, p : /\ opentab' \in {opentab, [opentab EXCEPT ![j] = e]}
                                          /\ ff' = [ff EXCEPT ![j] = p]
    <2> DEFINE o == open_file(fs, srv.req[2], srv.req[3], srv.req[4])
               e(j) == [file |-> o.f, dir |-> o.dir]
               p(j) == IF o.v < 0 THEN [Closed EXCEPT !.mapped = TRUE]
                       ELSE [mapped |-> TRUE, size |-> File(o.s, o.f).size,
                             offset |-> 0, mode |-> srv.req[5]]
    <2>1. \/ UNCHANGED <<opentab, ff>>
          \/ \E j \in open_alloc : /\ opentab' = IF o.v < 0 THEN opentab ELSE [opentab EXCEPT ![j] = e(j)]
                                   /\ ff' = [ff EXCEPT ![j] = p(j)]
      BY Zenon DEF serve_open
    <2> HIDE DEF e, p, o
    <2> QED BY <2>1
  <1> HIDE DEF k
  <1>5. opentab'[k] = opentab[k] /\ ff'[k] = ff[k]
    BY <1>1, <1>3, <1>4 DEF FInv, ffOK, opentabOK
  <1> QED BY <1>5 DEF k

\* Every step of the server and the clients keeps the entries in use.
THEOREM EntryKeptHolds == Spec => EntryKept
  <1>1. Init => opentabOK
    BY DEF Init, opentabOK
  <1>2. opentabOK /\ [Next]_vars => opentabOK'
    <2> SUFFICES ASSUME opentabOK, [Next]_vars PROVE opentabOK'
      OBVIOUS
    <2>1. opentab' = opentab \/ \E j, e : opentab' = [opentab EXCEPT ![j] = e]
      <3>1. CASE serve_open
        BY <3>1 DEF serve_open
      <3>2. CASE ~serve_open
        BY <3>2, StepKinds DEF ServesOther, reply, Works, fsipc, ipc_recv, server_vars, Closes, Begins
      <3> QED BY <3>1, <3>2
    <2> QED BY <2>1 DEF opentabOK
  <1>3. FInv /\ opentabOK /\ [Next]_vars =>
          [\A c \in Client : \A n \in Fdnum : fd[c][n] # None =>
             /\ opentab'[fd[c][n]] = opentab[fd[c][n]]
             /\ serve_open => ff'[fd[c][n]] = ff[fd[c][n]]]_vars
    <2> SUFFICES ASSUME FInv, opentabOK, [Next]_vars, NEW c \in Client, NEW n \in Fdnum, fd[c][n] # None
                 PROVE  /\ opentab'[fd[c][n]] = opentab[fd[c][n]]
                        /\ serve_open => ff'[fd[c][n]] = ff[fd[c][n]]
      OBVIOUS
    <2>1. CASE serve_open
      BY <2>1, OpensFree
    <2>2. CASE ~serve_open
      BY <2>2, StepKinds DEF ServesOther, reply, Works, fsipc, ipc_recv, server_vars, Closes, Begins
    <2> QED BY <2>1, <2>2
  <1> QED BY <1>1, <1>2, <1>3, FInvHolds, PTL DEF Spec, EntryKept

-----------------------------------------------------------------------------
(* The types.  The programs are sequences of calls: those of the scripts,   *)
(* and those that the library replaces a call by.                           *)

Sizes == 0..NINDIRECT + 1
Requests ==
  ({"open"} \X Seq(Names) \X BOOLEAN \X BOOLEAN \X Mode \X Fdnum)
  \union ({"map"} \X (Fileid \union {None}) \X Nat \X Fdnum)
  \union ({"set_size"} \X (Fileid \union {None}) \X Sizes)
  \union ({"dirty"} \X (Fileid \union {None}) \X Nat)
  \union ({"close"} \X (Fileid \union {None}))
  \union ({"remove"} \X Seq(Names))
  \union {<<"sync">>}
Inner ==
  ({"fsipc"} \X Requests)
  \union ({"open_map"} \X Fdnum \X Nat)
  \union ({"closing", "unmap"} \X Fdnum \X Nat \X Nat)
  \union ({"fd_close"} \X Fdnum)
  \union {x \in {"store"} \X Fdnum \X Nat \X Nat : x[3] + x[4] <= NINDIRECT}
  \union ({"grow"} \X Fdnum \X Nat \X Sizes \X Sizes)
  \union {<<"fails">>, <<"check">>, <<"destroy">>}
AllCalls == Calls \union Inner

LEMMA RequestIs ==
  ASSUME NEW r \in Requests
  PROVE  /\ r[1] = "open" =>
              r[2] \in Seq(Names) /\ r[3] \in BOOLEAN /\ r[4] \in BOOLEAN /\ r[5] \in Mode /\ r[6] \in Fdnum
         /\ r[1] = "map" => r[3] \in Nat /\ r[4] \in Fdnum
         /\ r[1] = "set_size" => r[3] \in Sizes
         /\ r[1] = "dirty" => r[3] \in Nat
         /\ r[1] = "remove" => r[2] \in Seq(Names)
  <1> USE DEF Requests
  <1>1. CASE r \in {"open"} \X Seq(Names) \X BOOLEAN \X BOOLEAN \X Mode \X Fdnum
    BY <1>1
  <1>2. CASE r \in {"map"} \X (Fileid \union {None}) \X Nat \X Fdnum
    BY <1>2
  <1>3. CASE r \in {"set_size"} \X (Fileid \union {None}) \X Sizes
    BY <1>3
  <1>4. CASE r \in {"dirty"} \X (Fileid \union {None}) \X Nat
    BY <1>4
  <1>5. CASE r \in {"close"} \X (Fileid \union {None})
    BY <1>5
  <1>6. CASE r \in {"remove"} \X Seq(Names)
    BY <1>6
  <1>7. CASE r = <<"sync">>
    BY <1>7
  <1> QED BY <1>1, <1>2, <1>3, <1>4, <1>5, <1>6, <1>7

\* What a call is made with.
CallShape(x) ==
  /\ x[1] = "fsipc" => x[2] \in Requests
  /\ x[1] = "open" => x[2] \in Seq(Names) /\ x[3] \in BOOLEAN /\ x[4] \in BOOLEAN /\ x[5] \in Mode
  /\ x[1] = "remove" => x[2] \in Seq(Names)
  /\ x[1] = "fork" => x[2] \in Client
  /\ x[1] \in {"close", "open_map", "closing", "unmap", "fd_close", "grow"} => x[2] \in Fdnum
  /\ x[1] \in {"read", "write", "seek", "ftruncate", "store"} => x[2] \in Fdnum
  /\ x[1] \in {"read", "write", "seek", "ftruncate", "store"} => x[3] \in Nat
  /\ x[1] \in {"open_map", "closing", "unmap", "grow"} => x[3] \in Nat
  /\ x[1] \in {"closing", "unmap", "store"} => x[4] \in Nat
  /\ x[1] = "store" => x[3] + x[4] <= NINDIRECT
  /\ x[1] = "grow" => x[4] \in Sizes /\ x[5] \in Sizes

LEMMA CallIs ==
  ASSUME NEW x \in AllCalls
  PROVE  CallShape(x)
  <1> USE DEF CallShape
  <1>1. CASE x \in {"open"} \X Seq(Names) \X BOOLEAN \X BOOLEAN \X Mode
    BY <1>1
  <1>2. CASE x \in {"remove"} \X Seq(Names)
    BY <1>2
  <1>3. CASE x \in {"close"} \X Fdnum
    BY <1>3
  <1>4. CASE x \in {"read", "write", "seek", "ftruncate"} \X Fdnum \X Nat
    BY <1>4
  <1>5. CASE x \in {"fork", "wait"} \X Client
    BY <1>5
  <1>6. CASE x \in {<<"sync">>, <<"exit">>}
    BY <1>6
  <1>7. CASE x \in {"fsipc"} \X Requests
    BY <1>7
  <1>8. CASE x \in {"open_map"} \X Fdnum \X Nat
    BY <1>8
  <1>9. CASE x \in {"closing", "unmap"} \X Fdnum \X Nat \X Nat
    BY <1>9
  <1>10. CASE x \in {"fd_close"} \X Fdnum
    BY <1>10
  <1>11. CASE x \in {y \in {"store"} \X Fdnum \X Nat \X Nat : y[3] + y[4] <= NINDIRECT}
    BY <1>11
  <1>12. CASE x \in {"grow"} \X Fdnum \X Nat \X Sizes \X Sizes
    BY <1>12
  <1>13. CASE x \in {<<"fails">>, <<"check">>, <<"destroy">>}
    BY <1>13
  <1>14. x \in Calls \/ x \in Inner
    BY DEF AllCalls
  <1>15. CASE x \in Calls
    BY <1>15, <1>1, <1>2, <1>3, <1>4, <1>5, <1>6, Zenon DEF Calls
  <1>16. CASE x \in Inner
    BY <1>16, <1>7, <1>8, <1>9, <1>10, <1>11, <1>12, <1>13, Zenon DEF Inner
  <1> QED BY <1>14, <1>15, <1>16

\* The calls the library makes are such calls.
LEMMA CallOf ==
  /\ \A r \in Requests : <<"fsipc", r>> \in AllCalls
  /\ \A i \in Fdnum : <<"close", i>> \in AllCalls /\ <<"fd_close", i>> \in AllCalls
  /\ \A i \in Fdnum : \A n \in Nat : <<"open_map", i, n>> \in AllCalls /\ <<"ftruncate", i, n>> \in AllCalls
  /\ \A i \in Fdnum : \A n \in Nat : \A m \in Nat :
       <<"closing", i, n, m>> \in AllCalls /\ <<"unmap", i, n, m>> \in AllCalls
  /\ \A i \in Fdnum : \A n \in Nat : \A m \in Nat :
       n + m <= NINDIRECT => <<"store", i, n, m>> \in AllCalls
  /\ \A i \in Fdnum : \A n \in Nat : \A a \in Sizes : \A b \in Sizes : <<"grow", i, n, a, b>> \in AllCalls
  /\ <<"fails">> \in AllCalls /\ <<"check">> \in AllCalls /\ <<"destroy">> \in AllCalls
  <1>1. \A r \in Requests : <<"fsipc", r>> \in AllCalls
    BY DEF AllCalls, Inner
  <1>2. \A i \in Fdnum : <<"close", i>> \in AllCalls
    BY DEF AllCalls, Calls
  <1>3. \A i \in Fdnum : <<"fd_close", i>> \in AllCalls
    BY DEF AllCalls, Inner
  <1>4. \A i \in Fdnum : \A n \in Nat : <<"open_map", i, n>> \in AllCalls
    BY DEF AllCalls, Inner
  <1>5. \A i \in Fdnum : \A n \in Nat : <<"ftruncate", i, n>> \in AllCalls
    BY DEF AllCalls, Calls
  <1>6. \A i \in Fdnum : \A n \in Nat : \A m \in Nat : <<"closing", i, n, m>> \in AllCalls
    BY DEF AllCalls, Inner
  <1>7. \A i \in Fdnum : \A n \in Nat : \A m \in Nat : <<"unmap", i, n, m>> \in AllCalls
    BY DEF AllCalls, Inner
  <1>8. ASSUME NEW i \in Fdnum, NEW n \in Nat, NEW m \in Nat, n + m <= NINDIRECT
        PROVE  <<"store", i, n, m>> \in AllCalls
    <2> DEFINE S == {x \in {"store"} \X Fdnum \X Nat \X Nat : x[3] + x[4] <= NINDIRECT}
    <2>1. <<"store", i, n, m>> \in S
      BY <1>8
    <2> HIDE DEF S
    <2> QED BY <2>1, Zenon DEF AllCalls, Inner, S
  <1>9. \A i \in Fdnum : \A n \in Nat : \A a \in Sizes : \A b \in Sizes : <<"grow", i, n, a, b>> \in AllCalls
    BY DEF AllCalls, Inner
  <1>10. <<"fails">> \in AllCalls /\ <<"check">> \in AllCalls /\ <<"destroy">> \in AllCalls
    BY DEF AllCalls, Inner
  <1> QED BY <1>1, <1>2, <1>3, <1>4, <1>5, <1>6, <1>7, <1>8, <1>9, <1>10

LEMMA RequestOf ==
  /\ \A path \in Seq(Names) : \A a \in BOOLEAN : \A b \in BOOLEAN : \A m \in Mode : \A i \in Fdnum :
       <<"open", path, a, b, m, i>> \in Requests
  /\ \A k \in Fileid \union {None} :
       /\ \A n \in Nat : \A i \in Fdnum : <<"map", k, n, i>> \in Requests
       /\ \A n \in Sizes : <<"set_size", k, n>> \in Requests
       /\ \A n \in Nat : <<"dirty", k, n>> \in Requests
       /\ <<"close", k>> \in Requests
  /\ \A path \in Seq(Names) : <<"remove", path>> \in Requests
  /\ <<"sync">> \in Requests
  <1>1. \A path \in Seq(Names) : \A a \in BOOLEAN : \A b \in BOOLEAN : \A m \in Mode : \A i \in Fdnum :
          <<"open", path, a, b, m, i>> \in Requests
    BY DEF Requests
  <1>2. ASSUME NEW k \in Fileid \union {None}
        PROVE  /\ \A n \in Nat : \A i \in Fdnum : <<"map", k, n, i>> \in Requests
               /\ \A n \in Sizes : <<"set_size", k, n>> \in Requests
               /\ \A n \in Nat : <<"dirty", k, n>> \in Requests
               /\ <<"close", k>> \in Requests
    BY DEF Requests
  <1>3. \A path \in Seq(Names) : <<"remove", path>> \in Requests
    BY DEF Requests
  <1>4. <<"sync">> \in Requests
    BY DEF Requests
  <1> QED BY <1>1, <1>2, <1>3, <1>4

-----------------------------------------------------------------------------
\* The invariant for the types: what is in the Filefds, the pages and the
\* requests on their way comes from the calls of the programs.
fsOK == fs \in Saved /\ Bounded(fs)
openOK == opentab \in [Fileid -> [file : FilePlace, dir : FilePlace]]
FilefdType == [mapped : BOOLEAN, size : Sizes, offset : Nat, mode : Mode]
pagesOK == ff \in [Fileid -> FilefdType]
Page == Block \union {Private}
dataOK == data \in [Client -> [Fdnum -> [Bno -> Page]]]
codeOK == code \in [Client -> Seq(AllCalls)]
requestOK ==
  /\ srv.ph \in {"serve", "reply"} => srv.req \in Requests
  /\ srv.ph = "reply" /\ srv.req[1] = "map" /\ srv.val = 0 => srv.page \in Block
TInv == FInv /\ fsOK /\ openOK /\ pagesOK /\ dataOK /\ codeOK /\ requestOK

LEMMA TInvInit == Init => TInv
  <1> SUFFICES ASSUME Init PROVE TInv
    OBVIOUS
  <1>1. PICK s \in Scripts :
          /\ fs = fs_init(s.image)
          /\ opentab = [k \in Fileid |-> [file |-> NIL, dir |-> NIL]]
          /\ ff = [k \in Fileid |-> Closed]
          /\ srv = Receiving
          /\ data = [c \in Client |-> [i \in Fdnum |-> [b \in Bno |-> 0]]]
          /\ code = s.code
    BY DEF Init
  <1>2. fsOK
    BY <1>1, ScriptShape DEF Formatted, Saved, fsOK
  <1>3. openOK
    BY <1>1, RootPlace DEF openOK
  <1>4. pagesOK
    <2>1. Closed \in FilefdType
      BY FsSizes DEF Closed, FilefdType, Sizes, Mode
    <2> QED BY <1>1, <2>1 DEF pagesOK
  <1>5. dataOK
    BY <1>1, RootPlace DEF dataOK, Page
  <1>6. codeOK
    <2>1. Seq(Calls) \subseteq Seq(AllCalls)
      <3>1. Calls \subseteq AllCalls
        BY DEF AllCalls
      <3> QED BY <3>1, SeqMonotonic
    <2>2. code \in [Client -> Seq(Calls)]
      BY <1>1, ScriptShape
    <2> QED BY <2>1, <2>2 DEF codeOK
  <1>7. requestOK
    BY <1>1 DEF requestOK, Receiving
  <1> QED BY <1>2, <1>3, <1>4, <1>5, <1>6, <1>7, FInvInit DEF TInv

-----------------------------------------------------------------------------
(* The file system. *)

LEMMA TypedIs ==
  ASSUME NEW s, NEW t, s \in Saved, Bounded(s), Typed(s, t)
  PROVE  t \in Saved /\ Bounded(t)
  BY DEF Typed

LEMMA FrameTyped ==
  ASSUME NEW s \in Saved, NEW t, Frame(s, t)
  PROVE  Typed(s, t)
  BY FrameGrown, RootPlace DEF Grown, Safe

\* serve_open, also when it truncates a directory.
LEMMA OpenTyped ==
  ASSUME NEW s \in Saved, NEW path \in Seq(Names), NEW creat \in BOOLEAN, NEW trunc \in BOOLEAN
  PROVE  LET x == open_file(s, path, creat, trunc)
         IN  Typed(s, x.s) /\ x.f \in FilePlace /\ x.dir \in FilePlace
  <1> DEFINE c == Created(s, path, creat)
             o == walk_path(c.s, path)
             y == file_set_size(o.s, o.f, 0, o.dir)
             x == open_file(s, path, creat, trunc)
             P == Typed(s, x.s) /\ x.f \in FilePlace /\ x.dir \in FilePlace
  <1> SUFFICES P
    OBVIOUS
  <1>1. \/ x = [s |-> c.s, v |-> c.v, f |-> NIL, dir |-> NIL]
        \/ x = o
        \/ x = [o EXCEPT !.s = y]
    BY DEF open_file, Created, file_open
  <1>2. Typed(s, c.s) /\ c.s \in Saved
    BY CreatedIs, RootPlace DEF Safe, Typed
  <1> HIDE DEF c, x
  <1>3. o \in PathResult /\ Looked(c.s, o.s)
    BY <1>2, PathIs, LastName
  <1> HIDE DEF o
  <1>4. o.s \in Saved /\ o.f \in FilePlace /\ o.dir \in FilePlace
    BY <1>3 DEF PathResult
  <1>5. Typed(c.s, o.s)
    BY <1>3, RootPlace DEF Looked, Grown, Safe
  <1>6. Typed(o.s, y)
    BY <1>4, SetSizeIs, FsSizes
  <1> HIDE DEF y
  <1>7. Typed(s, o.s) /\ Typed(s, y)
    BY <1>2, <1>5, <1>6 DEF Typed
  <1>8. CASE x = [s |-> c.s, v |-> c.v, f |-> NIL, dir |-> NIL]
    BY <1>2, <1>8, RootPlace
  <1>9. CASE x = o
    BY <1>4, <1>7, <1>9
  <1>10. CASE x = [o EXCEPT !.s = y]
    <2>1. x.s = y /\ x.f = o.f /\ x.dir = o.dir
      BY <1>3, <1>10 DEF PathResult
    <2> QED BY <1>4, <1>7, <2>1
  <1> QED BY <1>1, <1>8, <1>9, <1>10

\* file_remove, also of a directory.
LEMMA RemoveTyped ==
  ASSUME NEW s \in Saved, NEW path \in Seq(Names)
  PROVE  Typed(s, file_remove(s, path).s)
  <1> DEFINE w == walk_path(s, path)
             r == file_remove(s, path)
             y == Cleared(file_truncate(w.s, w.f, 0), w.f, w.dir)
  <1>1. w \in PathResult /\ Looked(s, w.s)
    BY PathIs, LastName
  <1>2. r = Ret(w.s, w.v) \/ r = Ret(y, 0)
    BY DEF file_remove, Cleared
  <1> HIDE DEF w
  <1>3. w.s \in Saved /\ w.f \in FilePlace /\ w.dir \in FilePlace
    BY <1>1 DEF PathResult
  <1>4. Typed(s, w.s)
    BY <1>1, RootPlace DEF Looked, Grown, Safe
  <1>5. Typed(w.s, y)
    BY <1>3, ClearedIs
  <1> HIDE DEF y
  <1>6. Typed(s, y)
    BY <1>4, <1>5 DEF Typed
  <1> HIDE DEF r
  <1>7. r.s = w.s \/ r.s = y
    BY <1>2 DEF Ret
  <1>8. Typed(s, r.s)
    BY <1>4, <1>6, <1>7
  <1> QED BY <1>8 DEF r

\* A client writes into pages of the cache.
LEMMA StoredTyped ==
  ASSUME NEW s \in Saved, NEW S \in SUBSET Block
  PROVE  Stored(s, S) \in Saved /\ (Bounded(s) => Bounded(Stored(s, S)))
  <1> DEFINE d(b) == [s.blk[b] EXCEPT !.bytes = TRUE]
             blk == [b \in Block |-> IF b \in S THEN d(b) ELSE s.blk[b]]
             u == s.unsaved \union S
             t == [s EXCEPT !.blk = blk, !.unsaved = u]
  <1>0. Stored(s, S) = t
    BY DEF Stored
  <1>1. /\ s = Rec(s.free, s.disk_free, s.mapped, s.dirty, s.unsaved, s.blk, s.status)
        /\ s.blk \in [Block -> Content] /\ u \in SUBSET Block
    BY SavedIs
  <1>2. ASSUME NEW b \in Block PROVE d(b) \in Content /\ d(b).files = s.blk[b].files
    <2>1. s.blk[b] \in Content
      BY <1>1
    <2>2. PICK yes \in BOOLEAN : yes = TRUE
      OBVIOUS
    <2>3. d(b) = [s.blk[b] EXCEPT !.bytes = yes]
      BY <2>2
    <2> HIDE DEF d
    <2> QED BY <2>1, <2>3 DEF Content
  <1> HIDE DEF d
  <1>3. blk \in [Block -> Content] /\ \A b \in Block : blk[b].files = s.blk[b].files
    BY <1>1, <1>2
  <1> HIDE DEF blk, u
  <1>4. t = Rec(s.free, s.disk_free, s.mapped, s.dirty, u, blk, s.status)
    <2> DEFINE v == [s EXCEPT !.blk = blk]
    <2>1. v = Rec(s.free, s.disk_free, s.mapped, s.dirty, s.unsaved, blk, s.status)
      BY <1>1 DEF Rec
    <2>2. t = [v EXCEPT !.unsaved = u]
      BY <1>1
    <2> HIDE DEF v, t
    <2> QED BY <2>1, <2>2 DEF Rec
  <1> HIDE DEF t
  <1>5. t \in Saved
    BY <1>1, <1>3, <1>4, SavedIs, IsSaved
  <1>6. t.blk = blk
    BY <1>4 DEF Rec
  <1>7. \A f \in FilePlace : File(t, f) = File(s, f)
    BY <1>3, <1>6 DEF File, FilePlace
  <1> QED BY <1>0, <1>5, <1>7 DEF Bounded, Size

LEMMA EntryIs ==
  ASSUME openOK, NEW k \in Fileid
  PROVE  opentab[k].file \in FilePlace /\ opentab[k].dir \in FilePlace
  BY DEF openOK

\* The server, while it serves.
LEMMA FsServes ==
  ASSUME TInv, Serve, ~serve_open
  PROVE  fsOK' /\ openOK' /\ pagesOK' /\ codeOK' /\ requestOK'
  <1>0. /\ fs \in Saved /\ Bounded(fs) /\ openOK /\ pagesOK /\ codeOK /\ requestOK /\ ServerRecord
    BY DEF TInv, FInv, fsOK
  <1>1. CASE reply
    <2>1. UNCHANGED <<fs, opentab, ff, code>> /\ srv' = Receiving
      BY <1>1 DEF reply
    <2>2. requestOK'
      BY <2>1 DEF requestOK, Receiving
    <2> QED BY <1>0, <2>1, <2>2 DEF fsOK, openOK, pagesOK, codeOK
  <1>2. ASSUME srv.ph = "serve", Typed(fs, fs'), UNCHANGED <<opentab, ff, client_vars>>,
               NEW val, NEW page, Answer(val, page), srv.req[1] = "map" /\ val = 0 => page \in Block
        PROVE  fsOK' /\ openOK' /\ pagesOK' /\ codeOK' /\ requestOK'
    <2>1. srv'.ph = "reply" /\ srv'.req = srv.req /\ srv'.val = val /\ srv'.page = page
      BY <1>0, <1>2, AnswerIs
    <2>2. requestOK'
      BY <1>0, <1>2, <2>1 DEF requestOK
    <2>3. fsOK'
      BY <1>0, <1>2, TypedIs DEF fsOK
    <2> QED BY <1>0, <1>2, <2>2, <2>3 DEF openOK, pagesOK, codeOK, client_vars
  <1>3. Typed(fs, fs)
    BY <1>0 DEF Typed
  <1>4. srv.ph = "serve" => srv.req \in Requests
    BY <1>0 DEF requestOK
  <1>5. \A k \in Fileid : opentab[k].file \in FilePlace /\ opentab[k].dir \in FilePlace
    BY <1>0, EntryIs
  <1>6. ASSUME NEW op, NEW r, OnEntry(op, r), op # "map", open_lookup(srv.req[2]) => Typed(fs, r.s)
        PROVE  fsOK' /\ openOK' /\ pagesOK' /\ codeOK' /\ requestOK'
    <2>1. srv.ph = "serve" /\ srv.req[1] # "map" /\ UNCHANGED <<opentab, ff, client_vars>>
      BY <1>6 DEF OnEntry, Serving
    <2>2. CASE open_lookup(srv.req[2])
      <3>1. fs' = r.s /\ Answer(r.v, 0)
        BY <1>6, <2>2 DEF OnEntry
      <3>2. Typed(fs, fs')
        BY <1>6, <2>2, <3>1
      <3> QED BY <1>2, <2>1, <3>1, <3>2
    <2>3. CASE ~open_lookup(srv.req[2])
      <3>1. fs' = fs /\ Answer(E_INVAL, 0)
        BY <1>6, <2>3 DEF OnEntry
      <3> QED BY <1>2, <1>3, <2>1, <3>1
    <2> QED BY <2>2, <2>3
  <1>7. open_lookup(srv.req[2]) => Entry.file \in FilePlace /\ Entry.dir \in FilePlace
    BY <1>5 DEF open_lookup, Entry
  <1>8. CASE serve_map
    <2> DEFINE r == file_get_block(fs, Entry.file, srv.req[3])
    <2>0. srv.ph = "serve" /\ srv.req[1] = "map" /\ UNCHANGED <<opentab, ff, client_vars>>
      BY <1>8 DEF serve_map, Serving
    <2>1. CASE ~open_lookup(srv.req[2])
      <3>1. fs' = fs /\ Answer(E_INVAL, 0) /\ E_INVAL # 0
        BY <1>8, <2>1 DEF serve_map, E_INVAL
      <3> QED BY <1>2, <1>3, <2>0, <3>1
    <2>2. CASE open_lookup(srv.req[2])
      <3>1. fs' = r.s /\ Answer(IF r.v < 0 THEN r.v ELSE 0, r.v)
        BY <1>8, <2>2 DEF serve_map
      <3>2. srv.req[3] \in Nat
        BY <1>4, <2>0, RequestIs
      <3>3. Got(fs, Entry.file, srv.req[3], r)
        BY <1>0, <1>7, <2>2, <3>2, GetIs
      <3>4. Typed(fs, r.s) /\ r.v \in Block \union {E_NO_DISK, E_INVAL, E_NOT_FOUND}
        BY <3>3 DEF Got
      <3> HIDE DEF r
      <3>5. r.v < 0 \/ r.v \in Block
        BY <3>4 DEF E_NO_DISK, E_INVAL, E_NOT_FOUND
      <3> DEFINE val == IF r.v < 0 THEN r.v ELSE 0
      <3>6. val = 0 => r.v \in Block
        BY <3>5
      <3>7. Typed(fs, fs') /\ Answer(val, r.v)
        BY <3>1, <3>4
      <3> HIDE DEF val
      <3> QED BY <1>2, <2>0, <3>6, <3>7
    <2> QED BY <2>1, <2>2
  <1>9. CASE serve_set_size
    <2> DEFINE r == Ret(file_set_size(fs, Entry.file, srv.req[3], Entry.dir), 0)
    <2>1. OnEntry("set_size", r) /\ srv.ph = "serve" /\ srv.req[1] = "set_size"
      BY <1>9 DEF serve_set_size, OnEntry, Serving
    <2>2. srv.req[3] \in Nat /\ srv.req[3] <= NINDIRECT + 1
      <3>1. srv.req[3] \in Sizes
        BY <1>4, <2>1, RequestIs
      <3> QED BY <3>1, FsSizes DEF Sizes
    <2>3. open_lookup(srv.req[2]) => Typed(fs, file_set_size(fs, Entry.file, srv.req[3], Entry.dir))
      BY <1>0, <1>7, <2>2, SetSizeIs
    <2>4. open_lookup(srv.req[2]) => Typed(fs, r.s)
      BY <2>3 DEF Ret
    <2> HIDE DEF r
    <2> QED BY <1>6, <2>1, <2>4
  <1>10. CASE serve_dirty
    <2> DEFINE r == file_dirty(fs, Entry.file, srv.req[3])
    <2>1. OnEntry("dirty", r) /\ srv.ph = "serve" /\ srv.req[1] = "dirty"
      BY <1>10 DEF serve_dirty, OnEntry, Serving
    <2>2. srv.req[3] \in Nat
      BY <1>4, <2>1, RequestIs
    <2>3. open_lookup(srv.req[2]) => Typed(fs, r.s)
      BY <1>0, <1>7, <2>2, DirtyIs, FrameTyped
    <2> HIDE DEF r
    <2> QED BY <1>6, <2>1, <2>3
  <1>11. CASE serve_close
    <2> DEFINE r == Ret(file_close(fs, Entry.file, Entry.dir), 0)
    <2>1. OnEntry("close", r)
      BY <1>11 DEF serve_close
    <2>2. open_lookup(srv.req[2]) => Typed(fs, file_close(fs, Entry.file, Entry.dir))
      BY <1>0, <1>7, CloseIs, FrameTyped
    <2>3. open_lookup(srv.req[2]) => Typed(fs, r.s)
      BY <2>2 DEF Ret
    <2> HIDE DEF r
    <2> QED BY <1>6, <2>1, <2>3
  <1>12. CASE serve_remove
    <2> DEFINE r == file_remove(fs, srv.req[2])
    <2>1. /\ srv.ph = "serve" /\ srv.req[1] = "remove" /\ UNCHANGED <<opentab, ff, client_vars>>
          /\ fs' = r.s /\ Answer(r.v, 0)
      BY <1>12 DEF serve_remove, Serving
    <2>2. Typed(fs, r.s)
      BY <1>0, <1>4, <2>1, RequestIs, RemoveTyped
    <2> HIDE DEF r
    <2> QED BY <1>2, <2>1, <2>2
  <1>13. CASE serve_sync
    <2>1. /\ srv.ph = "serve" /\ srv.req[1] = "sync" /\ UNCHANGED <<opentab, ff, client_vars>>
          /\ fs' = fs_sync(fs) /\ Answer(0, 0)
      BY <1>13 DEF serve_sync, Serving
    <2>2. Typed(fs, fs')
      BY <1>0, <2>1, SyncIs, FrameTyped
    <2> QED BY <1>2, <2>1, <2>2
  <1> QED BY <1>1, <1>8, <1>9, <1>10, <1>11, <1>12, <1>13 DEF Serve

LEMMA FsOpens ==
  ASSUME TInv, serve_open
  PROVE  fsOK' /\ openOK' /\ pagesOK' /\ codeOK' /\ requestOK'
  <1> DEFINE o == open_file(fs, srv.req[2], srv.req[3], srv.req[4])
             e == [file |-> o.f, dir |-> o.dir]
             p == IF o.v < 0 THEN [Closed EXCEPT !.mapped = TRUE]
                  ELSE [mapped |-> TRUE, size |-> File(o.s, o.f).size, offset |-> 0, mode |-> srv.req[5]]
  <1>0. /\ fs \in Saved /\ Bounded(fs) /\ openOK /\ pagesOK /\ codeOK /\ requestOK /\ ServerRecord
    BY DEF TInv, FInv, fsOK
  <1>1. srv.ph = "serve" /\ srv.req[1] = "open" /\ UNCHANGED client_vars
    BY DEF serve_open, Serving
  <1>2. srv.req \in Requests
    BY <1>0, <1>1 DEF requestOK
  <1>3. srv.req[2] \in Seq(Names) /\ srv.req[3] \in BOOLEAN /\ srv.req[4] \in BOOLEAN /\ srv.req[5] \in Mode
    BY <1>1, <1>2, RequestIs
  <1>4. Typed(fs, o.s) /\ o.f \in FilePlace /\ o.dir \in FilePlace
    BY <1>0, <1>3, OpenTyped
  <1>5. \/ UNCHANGED <<fs, opentab, ff>>
        \/ \E k \in open_alloc : /\ fs' = o.s /\ ff' = [ff EXCEPT ![k] = p]
                                 /\ opentab' = IF o.v < 0 THEN opentab ELSE [opentab EXCEPT ![k] = e]
    BY Zenon DEF serve_open
  <1>6. \E val, page : Answer(val, page)
    BY Zenon DEF serve_open
  <1> HIDE DEF o
  <1>7. o.s \in Saved /\ Bounded(o.s)
    BY <1>0, <1>4, TypedIs
  <1>8. File(o.s, o.f).size \in Sizes
    <2>1. Size(o.s, o.f) \in Nat /\ Size(o.s, o.f) <= NINDIRECT + 1
      BY <1>4, <1>7, FileIs DEF Bounded
    <2> QED BY <2>1, FsSizes DEF Size, Sizes
  <1>9. p \in FilefdType
    <2>0. PICK yes, no : yes = TRUE /\ no = FALSE
      OBVIOUS
    <2> DEFINE q == [mapped |-> no, size |-> 0, offset |-> 0, mode |-> "r"]
               r == [q EXCEPT !.mapped = yes]
    <2>1. yes \in BOOLEAN /\ 0 \in Sizes /\ "r" \in Mode
      BY <2>0, FsSizes DEF Sizes, Mode
    <2>2. r = [mapped |-> yes, size |-> 0, offset |-> 0, mode |-> "r"]
      OBVIOUS
    <2>3. r \in FilefdType
      BY <2>1, <2>2 DEF FilefdType
    <2>4. [mapped |-> yes, size |-> File(o.s, o.f).size, offset |-> 0, mode |-> srv.req[5]] \in FilefdType
      BY <1>3, <1>8, <2>1 DEF FilefdType
    <2> QED BY <2>0, <2>3, <2>4, Zenon DEF Closed
  <1>10. e \in [file : FilePlace, dir : FilePlace]
    BY <1>4
  <1> HIDE DEF e, p
  <1>11. open_alloc \subseteq Fileid
    BY DEF open_alloc
  <1>12. fsOK' /\ openOK' /\ pagesOK'
    <2>1. CASE UNCHANGED <<fs, opentab, ff>>
      BY <1>0, <2>1 DEF fsOK, openOK, pagesOK
    <2>2. ASSUME NEW k \in open_alloc, fs' = o.s, ff' = [ff EXCEPT ![k] = p],
                 opentab' = IF o.v < 0 THEN opentab ELSE [opentab EXCEPT ![k] = e]
          PROVE  fsOK' /\ openOK' /\ pagesOK'
      <3>1. fsOK'
        BY <1>7, <2>2 DEF fsOK
      <3>2. openOK'
        BY <1>0, <1>10, <2>2 DEF openOK
      <3>3. pagesOK'
        BY <1>0, <1>9, <2>2 DEF pagesOK
      <3> QED BY <3>1, <3>2, <3>3
    <2> QED BY <1>5, <2>1, <2>2
  <1>13. codeOK'
    BY <1>0, <1>1 DEF codeOK, client_vars
  <1>14. requestOK'
    <2>1. srv'.req = srv.req
      BY <1>0, <1>6, AnswerIs
    <2> QED BY <1>1, <1>2, <2>1 DEF requestOK
  <1> QED BY <1>12, <1>13, <1>14

\* The pages of the clients.
LEMMA DataServes ==
  ASSUME TInv, Serve
  PROVE  dataOK'
  <1>0. dataOK /\ requestOK
    BY DEF TInv
  <1>1. CASE reply
    <2> DEFINE c == srv.from
    <2>1. srv.ph = "reply" /\ data' = IF srv.req[1] = "map" /\ srv.val = 0
                   THEN [data EXCEPT ![c][srv.req[4]][srv.req[3]] = srv.page] ELSE data
      BY <1>1 DEF reply
    <2>2. srv.req[1] = "map" /\ srv.val = 0 => srv.page \in Page
      BY <1>0, <2>1 DEF requestOK, Page
    <2> HIDE DEF c
    <2> QED BY <1>0, <2>1, <2>2 DEF dataOK
  <1>2. CASE ~reply
    <2>1. data' = data
      BY <1>2 DEF Serve, serve_open, serve_map, serve_set_size, serve_dirty, serve_close, serve_remove,
                  serve_sync, OnEntry, client_vars
    <2> QED BY <1>0, <2>1 DEF dataOK
  <1> QED BY <1>1, <1>2

-----------------------------------------------------------------------------
(* The clients. *)

\* The call a client makes.
LEMMA HeadIs ==
  ASSUME codeOK, NEW c \in Client, NEW op, At(c, op)
  PROVE  /\ Head(code[c]) \in AllCalls /\ Tail(code[c]) \in Seq(AllCalls)
         /\ CallShape(Head(code[c])) /\ Head(code[c])[1] = op
  <1>1. code[c] \in Seq(AllCalls) /\ code[c] # <<>>
    BY DEF codeOK, At
  <1>2. Head(code[c]) \in AllCalls /\ Tail(code[c]) \in Seq(AllCalls)
    BY <1>1, HeadTailProperties
  <1> QED BY <1>2, CallIs DEF At

LEMMA ThenTyped ==
  ASSUME codeOK, NEW c \in Client, NEW op, At(c, op), NEW calls \in Seq(AllCalls), Then(c, calls)
  PROVE  codeOK'
  <1>1. Tail(code[c]) \in Seq(AllCalls)
    BY HeadIs
  <1>2. calls \o Tail(code[c]) \in Seq(AllCalls)
    BY <1>1, ConcatProperties
  <1>3. code' = [code EXCEPT ![c] = calls \o Tail(code[c])]
    BY DEF Then
  <1> DEFINE q == calls \o Tail(code[c])
  <1> HIDE DEF q
  <1>4. q \in Seq(AllCalls) /\ code' = [code EXCEPT ![c] = q]
    BY <1>2, <1>3 DEF q
  <1> QED BY <1>4 DEF codeOK

LEMMA FailsTyped ==
  ASSUME codeOK, NEW c \in Client, Fails(c)
  PROVE  codeOK'
  <1>1. close_all \in Seq(AllCalls)
    <2>1. \A n \in 1..MAXFD : n - 1 \in Fdnum
      BY ServerSizes DEF Fdnum
    <2>2. \A n \in 1..MAXFD : <<"close", n - 1>> \in AllCalls
      BY <2>1, CallOf
    <2> DEFINE e == [n \in 1..MAXFD |-> <<"close", n - 1>>]
    <2>3. e \in [1..MAXFD -> AllCalls]
      BY <2>2
    <2> HIDE DEF e
    <2>4. e \in Seq(AllCalls)
      BY <2>3, ServerSizes, SeqDef
    <2> QED BY <2>4 DEF e, close_all
  <1>2. <<<<"destroy">>>> \in Seq(AllCalls)
    <2> DEFINE d == <<"destroy">>
    <2>1. d \in AllCalls
      BY CallOf
    <2> HIDE DEF d
    <2>2. <<d>> \in Seq(AllCalls)
      BY <2>1
    <2> QED BY <2>2 DEF d
  <1> DEFINE q == close_all \o <<<<"destroy">>>>
  <1>3. q \in Seq(AllCalls)
    BY <1>1, <1>2, ConcatProperties
  <1>4. code' = [code EXCEPT ![c] = q]
    BY DEF Fails
  <1> HIDE DEF q
  <1> QED BY <1>3, <1>4 DEF codeOK

\* At most three calls take the place of one.
LEMMA FewCalls ==
  /\ <<>> \in Seq(AllCalls)
  /\ \A x \in AllCalls : <<x>> \in Seq(AllCalls)
  /\ \A x \in AllCalls : \A y \in AllCalls : <<x, y>> \in Seq(AllCalls)
  /\ \A x \in AllCalls : \A y \in AllCalls : \A z \in AllCalls : <<x, y, z>> \in Seq(AllCalls)
  <1> DEFINE S == AllCalls
  <1> HIDE DEF S
  <1>1. /\ <<>> \in Seq(S)
        /\ \A x \in S : <<x>> \in Seq(S)
        /\ \A x \in S : \A y \in S : <<x, y>> \in Seq(S)
        /\ \A x \in S : \A y \in S : \A z \in S : <<x, y, z>> \in Seq(S)
    OBVIOUS
  <1> QED BY <1>1 DEF S

LEMMA FilefdIs ==
  ASSUME pagesOK, NEW k \in Fileid
  PROVE  ff[k].size \in Sizes /\ ff[k].size \in Nat /\ ff[k].offset \in Nat
  <1>1. ff[k] \in FilefdType
    BY DEF pagesOK
  <1>2. ff[k].size \in Sizes /\ ff[k].offset \in Nat
    BY <1>1 DEF FilefdType
  <1> QED BY <1>2, FsSizes DEF Sizes

\* What the library does with a call is again a sequence of calls.
LEMMA CodeRuns ==
  ASSUME TInv, NEW c \in Client, Run(c)
  PROVE  codeOK'
  <1>0. codeOK /\ pagesOK /\ fdOK
    BY DEF TInv, FInv
  <1> DEFINE x == Head(code[c])
             a == x[2]
  <1>x. \A op : At(c, op) => CallShape(x) /\ x[1] = op
    BY <1>0, HeadIs
  <1>a. \A n : Arg(c, n) = x[n]
    BY DEF Arg
  <1>f. \A i \in Fdnum : fd[c][i] \in Fileid \union {None}
    BY <1>0 DEF fdOK
  <1>k. \A k \in Fileid : ff[k].size \in Sizes /\ ff[k].size \in Nat /\ ff[k].offset \in Nat
    BY <1>0, FilefdIs
  <1>g. Fails(c) => codeOK'
    BY <1>0, FailsTyped
  <1>t. \A op, calls : At(c, op) /\ calls \in Seq(AllCalls) /\ Then(c, calls) => codeOK'
    BY <1>0, ThenTyped
  <1>z. \A n \in Nat : n + 1 \in Nat
    OBVIOUS
  <1>o. 0 \in Nat /\ None \notin Fileid
    BY ServerSizes DEF None, Fileid
  <1> HIDE DEF x
  <1>1. CASE ipc_recv(c)
    BY <1>0, <1>1 DEF ipc_recv, codeOK
  <1>2. CASE fsipc(c) \/ unmap(c) \/ fd_close(c) \/ store(c) \/ fork(c) \/ wait(c) \/ destroy(c)
    <2>1. Then(c, <<>>) /\ \E op : At(c, op)
      BY <1>2 DEF fsipc, unmap, fd_close, store, fork, wait, destroy
    <2> QED BY <1>t, <2>1, FewCalls
  <1>3. CASE fails(c) \/ exit(c)
    BY <1>3, <1>g DEF fails, exit
  <1>4. CASE check(c)
    <2>1. Fails(c) \/ (At(c, "check") /\ Then(c, <<>>))
      BY <1>4 DEF check
    <2> QED BY <1>g, <1>t, <2>1, FewCalls
  <1>5. CASE read(c)
    <2>1. Fails(c) \/ (At(c, "read") /\ Then(c, <<>>))
      BY <1>5 DEF read
    <2> QED BY <1>g, <1>t, <2>1, FewCalls
  <1>6. CASE seek(c)
    <2>1. Fails(c) \/ (At(c, "seek") /\ Then(c, <<>>))
      BY <1>6 DEF seek
    <2> QED BY <1>g, <1>t, <2>1, FewCalls
  <1>7. CASE remove(c)
    <2> DEFINE r == <<"remove", a>>
    <2>1. At(c, "remove") /\ Then(c, <<<<"fsipc", r>>, <<"check">>>>)
      BY <1>7, <1>a DEF remove, Request
    <2>2. r \in Requests
      BY <1>x, <2>1, RequestOf DEF CallShape
    <2> HIDE DEF r
    <2>3. <<<<"fsipc", r>>, <<"check">>>> \in Seq(AllCalls)
      BY <2>2, CallOf, FewCalls
    <2> QED BY <1>t, <2>1, <2>3
  <1>8. CASE sync(c)
    <2> DEFINE r == <<"sync">>
    <2>1. At(c, "sync") /\ Then(c, <<<<"fsipc", r>>>>)
      BY <1>8 DEF sync, Request
    <2>2. r \in Requests
      BY RequestOf
    <2> HIDE DEF r
    <2>3. <<<<"fsipc", r>>>> \in Seq(AllCalls)
      BY <2>2, CallOf, FewCalls
    <2> QED BY <1>t, <2>1, <2>3
  <1>9. CASE open(c)
    <2>1. CASE fd_alloc(c) = {}
      BY <1>9, <1>g, <2>1 DEF open
    <2>2. CASE fd_alloc(c) # {}
      <3> DEFINE i == CHOOSE j \in fd_alloc(c) : TRUE
                 r == <<"open", x[2], x[3], x[4], x[5], i>>
      <3>1. At(c, "open") /\ Then(c, <<<<"fsipc", r>>, <<"open_map", i, 0>>>>)
        BY <1>9, <1>a, <2>2 DEF open, Request
      <3>2. i \in Fdnum
        BY <2>2 DEF fd_alloc
      <3> HIDE DEF i
      <3>3. r \in Requests
        BY <1>x, <3>1, <3>2, RequestOf DEF CallShape
      <3>4. <<"open_map", i, 0>> \in AllCalls
        BY <1>o, <3>2, CallOf
      <3> HIDE DEF r
      <3>5. <<<<"fsipc", r>>, <<"open_map", i, 0>>>> \in Seq(AllCalls)
        BY <3>3, <3>4, CallOf, FewCalls
      <3> QED BY <1>t, <3>1, <3>5
    <2> QED BY <2>1, <2>2
  <1>10. CASE open_map(c)
    <2> DEFINE i == x[2]
               b == x[3]
               r == <<"map", fd[c][i], b, i>>
               q == <<<<"fsipc", r>>, <<"open_map", i, b + 1>>>>
    <2>1. At(c, "open_map") /\ (Fails(c) \/ Then(c, q) \/ Then(c, <<>>))
      <3>1. b + 1 = Arg(c, 3) + 1
        BY <1>a
      <3>2. Fails(c) \/ Then(c, IF b < ff[fd[c][i]].size THEN q ELSE <<>>)
        BY <1>10, <1>a, <3>1 DEF open_map, Request
      <3> QED BY <1>10, <3>2 DEF open_map
    <2>2. i \in Fdnum /\ b \in Nat
      BY <1>x, <2>1 DEF CallShape
    <2>3. r \in Requests
      BY <1>f, <2>2, RequestOf
    <2>4. <<"open_map", i, b + 1>> \in AllCalls
      BY <1>z, <2>2, CallOf
    <2> HIDE DEF i, b, r
    <2>5. q \in Seq(AllCalls)
      BY <2>3, <2>4, CallOf, FewCalls
    <2> HIDE DEF q
    <2> QED BY <1>t, <1>g, <2>1, <2>5, FewCalls
  <1>11. CASE close(c)
    <2> DEFINE i == x[2]
               k == fd[c][i]
               n == ff[k].size
               q == <<<<"closing", i, 0, n>>>>
    <2>1. At(c, "close") /\ ((k # None /\ Then(c, q)) \/ Then(c, <<>>))
      <3>1. At(c, "close") /\ Then(c, IF k = None THEN <<>> ELSE q)
        BY <1>11, <1>a DEF close
      <3> QED BY <3>1
    <2>2. i \in Fdnum
      BY <1>x, <2>1 DEF CallShape
    <2>3. k # None => n \in Nat
      BY <1>f, <1>k, <2>2
    <2> HIDE DEF i, n
    <2>4. k # None => q \in Seq(AllCalls)
      BY <1>o, <2>2, <2>3, CallOf, FewCalls
    <2> HIDE DEF q, k
    <2> QED BY <1>t, <2>1, <2>4, FewCalls
  <1>12. CASE closing(c)
    <2> DEFINE i == x[2]
               b == x[3]
               n == x[4]
               k == fd[c][i]
               r == <<"dirty", k, b>>
               s == <<"close", k>>
               p == <<<<"fd_close", i>>>>
               q == <<<<"fsipc", r>>, <<"closing", i, b + 1, n>>>>
               u == <<<<"fsipc", s>>, <<"unmap", i, 0, n>>, <<"fd_close", i>>>>
    <2>1. At(c, "closing") /\ (Then(c, p) \/ Then(c, q) \/ Then(c, u))
      <3>1. Then(c, IF res[c] < 0 THEN p ELSE IF b < n THEN q ELSE u)
        BY <1>12, <1>a DEF closing, Request
      <3> QED BY <1>12, <3>1 DEF closing
    <2>2. i \in Fdnum /\ b \in Nat /\ n \in Nat
      BY <1>x, <2>1 DEF CallShape
    <2>3. r \in Requests /\ s \in Requests
      BY <1>f, <2>2, RequestOf
    <2>4. /\ <<"closing", i, b + 1, n>> \in AllCalls /\ <<"unmap", i, 0, n>> \in AllCalls
          /\ <<"fd_close", i>> \in AllCalls
      BY <1>z, <1>o, <2>2, CallOf
    <2> HIDE DEF i, b, n, r, s
    <2>5. p \in Seq(AllCalls) /\ q \in Seq(AllCalls) /\ u \in Seq(AllCalls)
      BY <2>3, <2>4, CallOf, FewCalls
    <2> HIDE DEF p, q, u
    <2> QED BY <1>t, <2>1, <2>5
  <1>13. CASE write(c)
    <2> DEFINE i == x[2]
               n == x[3]
               k == fd[c][i]
               m == ff[k].offset
               p == <<<<"ftruncate", i, m + n>>>>
               q == <<<<"store", i, m, n>>>>
               u == (IF m + n > ff[k].size THEN p ELSE <<>>) \o q
    <2>1. At(c, "write") /\ (Fails(c) \/ (k # None /\ ~(m + n > NINDIRECT) /\ Then(c, u)))
      BY <1>13, <1>a DEF write
    <2>2. i \in Fdnum /\ n \in Nat
      BY <1>x, <2>1 DEF CallShape
    <2>3. ASSUME k # None, ~(m + n > NINDIRECT), Then(c, u) PROVE codeOK'
      <3>1. m \in Nat
        BY <1>f, <1>k, <2>2, <2>3
      <3>2. m + n \in Nat /\ m + n <= NINDIRECT
        BY <2>2, <2>3, <3>1, FsSizes
      <3>3. <<"ftruncate", i, m + n>> \in AllCalls /\ <<"store", i, m, n>> \in AllCalls
        BY <2>2, <3>1, <3>2, CallOf
      <3> HIDE DEF i, m, n
      <3>4. p \in Seq(AllCalls) /\ q \in Seq(AllCalls)
        BY <3>3, FewCalls
      <3> DEFINE v == IF m + n > ff[k].size THEN p ELSE <<>>
      <3> HIDE DEF p, q
      <3>5. v \in Seq(AllCalls)
        BY <3>4, FewCalls
      <3> HIDE DEF v
      <3>6. v \o q \in Seq(AllCalls)
        BY <3>4, <3>5, ConcatProperties
      <3>7. Then(c, v \o q)
        BY <2>3 DEF v
      <3> QED BY <1>t, <2>1, <3>6, <3>7
    <2> QED BY <1>g, <2>1, <2>3
  <1>14. CASE ftruncate(c)
    <2> DEFINE i == x[2]
               n == x[3]
               k == fd[c][i]
               m == ff[k].size
               r == <<"set_size", k, n>>
               q == <<<<"fsipc", r>>, <<"grow", i, m, m, n>>>>
    <2>1. At(c, "ftruncate") /\ (Fails(c) \/ (k # None /\ ~(n > NINDIRECT) /\ Then(c, q)))
      BY <1>14, <1>a DEF ftruncate, Request
    <2>2. i \in Fdnum /\ n \in Nat
      BY <1>x, <2>1 DEF CallShape
    <2>3. ASSUME k # None, ~(n > NINDIRECT), Then(c, q) PROVE codeOK'
      <3>1. n \in Sizes /\ m \in Sizes /\ m \in Nat /\ k \in Fileid \union {None}
        BY <1>f, <1>k, <2>2, <2>3, FsSizes DEF Sizes
      <3>2. r \in Requests
        BY <3>1, RequestOf
      <3>3. <<"grow", i, m, m, n>> \in AllCalls
        BY <2>2, <3>1, CallOf
      <3> HIDE DEF i, m, n, r
      <3>4. q \in Seq(AllCalls)
        BY <3>2, <3>3, CallOf, FewCalls
      <3> HIDE DEF q
      <3> QED BY <1>t, <2>1, <2>3, <3>4
    <2> QED BY <1>g, <2>1, <2>3
  <1>15. CASE grow(c)
    <2> DEFINE i == x[2]
               b == x[3]
               m == x[4]
               n == x[5]
               k == fd[c][i]
               r == <<"set_size", k, m>>
               s == <<"map", k, b, i>>
               p == <<<<"fsipc", r>>, <<"fails">>>>
               q == <<<<"fsipc", s>>, <<"grow", i, b + 1, m, n>>>>
               u == <<<<"unmap", i, n, m>>>>
    <2>1. At(c, "grow") /\ (Fails(c) \/ Then(c, p) \/ Then(c, q) \/ Then(c, u))
      BY <1>15, <1>a DEF grow, Request
    <2>2. i \in Fdnum /\ b \in Nat /\ m \in Sizes /\ n \in Sizes
      BY <1>x, <2>1 DEF CallShape
    <2>3. m \in Nat /\ n \in Nat
      BY <2>2, FsSizes DEF Sizes
    <2>4. r \in Requests /\ s \in Requests
      BY <1>f, <2>2, RequestOf
    <2>5. <<"grow", i, b + 1, m, n>> \in AllCalls /\ <<"unmap", i, n, m>> \in AllCalls /\ <<"fails">> \in AllCalls
      BY <1>z, <2>2, <2>3, CallOf
    <2> HIDE DEF i, b, m, n, r, s
    <2>6. p \in Seq(AllCalls) /\ q \in Seq(AllCalls) /\ u \in Seq(AllCalls)
      BY <2>4, <2>5, CallOf, FewCalls
    <2> HIDE DEF p, q, u
    <2> QED BY <1>t, <1>g, <2>1, <2>6
  <1> QED BY <1>1, <1>2, <1>3, <1>4, <1>5, <1>6, <1>7, <1>8, <1>9, <1>10, <1>11, <1>12, <1>13, <1>14, <1>15
          DEF Run

\* A client writes sizes and offsets that are in range into a Filefd.
LEMMA FilefdRuns ==
  ASSUME TInv, NEW c \in Client, Run(c)
  PROVE  pagesOK'
  <1>0. codeOK /\ pagesOK /\ fdOK
    BY DEF TInv, FInv
  <1> DEFINE x == Head(code[c])
             i == x[2]
             k == fd[c][i]
  <1>x. \A op : At(c, op) => CallShape(x) /\ x[1] = op
    BY <1>0, HeadIs
  <1>a. \A n : Arg(c, n) = x[n]
    BY DEF Arg
  <1>f. i \in Fdnum => k \in Fileid \union {None}
    BY <1>0 DEF fdOK
  <1>k. \A j \in Fileid : ff[j].size \in Sizes /\ ff[j].size \in Nat /\ ff[j].offset \in Nat
    BY <1>0, FilefdIs
  <1>s. ASSUME NEW j, NEW v \in Sizes, ff' = [ff EXCEPT ![j].size = v] PROVE pagesOK'
    BY <1>0, <1>s DEF pagesOK, FilefdType
  <1>o. ASSUME NEW j, NEW v \in Nat, ff' = [ff EXCEPT ![j].offset = v] PROVE pagesOK'
    BY <1>0, <1>o DEF pagesOK, FilefdType
  <1>u. ff' = ff => pagesOK'
    BY <1>0 DEF pagesOK
  <1> HIDE DEF x
  <1>1. CASE read(c)
    <2> DEFINE n == ReadSize(k, x[3])
    <2>1. At(c, "read") /\ (ff' = ff \/ (k # None /\ ff' = [ff EXCEPT ![k].offset = ff[k].offset + n]))
      BY <1>1, <1>a DEF read
    <2>2. i \in Fdnum /\ x[3] \in Nat
      BY <1>x, <2>1 DEF CallShape
    <2>3. k # None => n \in Nat /\ ff[k].offset \in Nat
      BY <1>f, <1>k, <2>2 DEF ReadSize
    <2> DEFINE v == ff[k].offset + n
    <2>4. k # None => v \in Nat
      BY <2>3
    <2> HIDE DEF n, v
    <2>5. ff' = ff \/ (k # None /\ ff' = [ff EXCEPT ![k].offset = v])
      BY <2>1 DEF v
    <2> QED BY <1>o, <1>u, <2>4, <2>5
  <1>2. CASE store(c)
    <2>1. At(c, "store") /\ ff' = [ff EXCEPT ![k].offset = ff[k].offset + x[4]]
      BY <1>2, <1>a DEF store
    <2>2. i \in Fdnum /\ x[4] \in Nat
      BY <1>x, <2>1 DEF CallShape
    <2>3. CASE k \in Fileid
      <3> DEFINE v == ff[k].offset + x[4]
      <3>1. v \in Nat
        BY <1>k, <2>2, <2>3
      <3> HIDE DEF v
      <3> QED BY <1>o, <2>1, <3>1 DEF v
    <2>4. CASE k \notin Fileid
      <3> DEFINE v == ff[k].offset + x[4]
                 j == k
      <3> HIDE DEF v, j
      <3>1. ff' = [ff EXCEPT ![j].offset = v] /\ j \notin Fileid
        BY <2>1, <2>4 DEF v, j
      <3>2. ff' = ff
        BY <1>0, <3>1 DEF pagesOK
      <3> QED BY <1>u, <3>2
    <2> QED BY <2>3, <2>4
  <1>3. CASE seek(c)
    <2>1. At(c, "seek") /\ (ff' = ff \/ ff' = [ff EXCEPT ![k].offset = x[3]])
      BY <1>3, <1>a DEF seek
    <2>2. x[3] \in Nat
      BY <1>x, <2>1 DEF CallShape
    <2> QED BY <1>o, <1>u, <2>1, <2>2
  <1>4. CASE ftruncate(c)
    <2>1. At(c, "ftruncate") /\ (ff' = ff \/ (~(x[3] > NINDIRECT) /\ ff' = [ff EXCEPT ![k].size = x[3]]))
      BY <1>4, <1>a DEF ftruncate
    <2>2. x[3] \in Nat
      BY <1>x, <2>1 DEF CallShape
    <2>3. ~(x[3] > NINDIRECT) => x[3] \in Sizes
      BY <2>2, FsSizes DEF Sizes
    <2> QED BY <1>s, <1>u, <2>1, <2>3
  <1>5. CASE ~(read(c) \/ store(c) \/ seek(c) \/ ftruncate(c))
    <2>1. ff' = ff
      BY <1>5 DEF Run, fsipc, ipc_recv, open, open_map, close, closing, unmap, fd_close, write, grow,
                  fails, remove, sync, check, fork, wait, exit, destroy
    <2> QED BY <1>u, <2>1
  <1> QED BY <1>1, <1>2, <1>3, <1>4, <1>5

\* The pages a client has mapped are blocks of the cache or its own.
LEMMA DataRuns ==
  ASSUME TInv, NEW c \in Client, Run(c)
  PROVE  dataOK'
  <1>0. dataOK
    BY DEF TInv
  <1>p. Private \in Page /\ 0 \in Page
    BY RootPlace DEF Page
  <1>e. \A d \in Client : \A n \in Fdnum : data[d][n] \in [Bno -> Page]
    BY <1>0 DEF dataOK
  <1>1. ASSUME NEW i, NEW from, NEW to, data' = Touched(c, i, from, to) PROVE dataOK'
    <2> DEFINE t == [b \in Bno |-> IF b \in from..to - 1 /\ data[c][i][b] = 0 THEN Private ELSE data[c][i][b]]
    <2>1. data' = [data EXCEPT ![c][i] = t]
      BY <1>1 DEF Touched
    <2>2. i \in Fdnum => t \in [Bno -> Page]
      BY <1>p, <1>e
    <2> HIDE DEF t
    <2> QED BY <1>0, <2>1, <2>2 DEF dataOK
  <1>2. CASE unmap(c)
    <2> DEFINE i == Arg(c, 2)
               t == [b \in Bno |-> IF res[c] = 0 /\ b \in Arg(c, 3)..Arg(c, 4) - 1 THEN 0 ELSE data[c][i][b]]
    <2>1. data' = [data EXCEPT ![c][i] = t]
      BY <1>2 DEF unmap
    <2>2. i \in Fdnum => t \in [Bno -> Page]
      BY <1>p, <1>e
    <2> HIDE DEF i, t
    <2> QED BY <1>0, <2>1, <2>2 DEF dataOK
  <1>3. CASE fork(c)
    <2>1. data' = [data EXCEPT ![Arg(c, 2)] = data[c]]
      BY <1>3 DEF fork
    <2> QED BY <1>0, <2>1 DEF dataOK
  <1>4. CASE destroy(c)
    <2> DEFINE t == [i \in Fdnum |-> [b \in Bno |-> 0]]
    <2>1. data' = [data EXCEPT ![c] = t]
      BY <1>4 DEF destroy
    <2>2. t \in [Fdnum -> [Bno -> Page]]
      BY <1>p
    <2> HIDE DEF t
    <2> QED BY <1>0, <2>1, <2>2 DEF dataOK
  <1>5. CASE read(c)
    <2>1. data' = data \/ \E i, from, to : data' = Touched(c, i, from, to)
      BY <1>5 DEF read
    <2>2. data' = data => dataOK'
      BY <1>0 DEF dataOK
    <2> QED BY <1>1, <2>1, <2>2
  <1>6. CASE store(c)
    <2>1. \E i, from, to : data' = Touched(c, i, from, to)
      BY <1>6 DEF store
    <2> QED BY <1>1, <2>1
  <1>7. CASE ~(unmap(c) \/ fork(c) \/ destroy(c) \/ read(c) \/ store(c))
    <2>1. data' = data
      BY <1>7 DEF Run, fsipc, ipc_recv, open, open_map, close, closing, fd_close, write, seek, ftruncate,
                  grow, fails, remove, sync, check, wait, exit
    <2> QED BY <1>0, <2>1 DEF dataOK
  <1> QED BY <1>2, <1>3, <1>4, <1>5, <1>6, <1>7

LEMMA FilePagesIs ==
  ASSUME NEW c, NEW i, NEW m, NEW n, \A b \in m..n - 1 : data[c][i][b] \in Block \union {Private}
  PROVE  FilePages(c, i, m, n) \in SUBSET Block
  <1> DEFINE D == m..n - 1
             v == data[c][i]
  <1>1. \A b \in D : v[b] \in Block \union {Private}
    OBVIOUS
  <1>2. FilePages(c, i, m, n) = {v[b] : b \in D} \ {0, Private}
    BY DEF FilePages
  <1> HIDE DEF D, v
  <1> QED BY <1>1, <1>2

\* Clients write only into blocks, and send requests of the right form.
LEMMA FsRuns ==
  ASSUME TInv, NEW c \in Client, Run(c)
  PROVE  fsOK' /\ openOK' /\ requestOK'
  <1>0. fsOK /\ openOK /\ requestOK /\ dataOK /\ codeOK /\ ServerRecord
    BY DEF TInv, FInv
  <1> DEFINE x == Head(code[c])
  <1>x. \A op : At(c, op) => CallShape(x) /\ x[1] = op
    BY <1>0, HeadIs
  <1>a. \A n : Arg(c, n) = x[n]
    BY DEF Arg
  <1> HIDE DEF x
  <1>1. CASE store(c)
    <2> DEFINE i == x[2]
               S == FilePages(c, i, x[3], x[3] + x[4])
               t == Stored(fs, S)
    <2>0. At(c, "store") /\ UNCHANGED <<opentab, srv>>
      BY <1>1 DEF store
    <2>1. fs' = t
      BY <1>1, <1>a DEF store
    <2>2. i \in Fdnum /\ x[3] \in Nat /\ x[4] \in Nat /\ x[3] + x[4] <= NINDIRECT
      BY <1>x, <2>0 DEF CallShape
    <2>3. \A b \in x[3]..(x[3] + x[4]) - 1 : b \in Bno
      BY <2>2, FsSizes DEF Bno
    <2>4. \A b \in Bno : data[c][i][b] \in Block \union {Private}
      BY <1>0, <2>2 DEF dataOK, Page
    <2>5. S \in SUBSET Block
      BY <2>3, <2>4, FilePagesIs
    <2> HIDE DEF S
    <2>6. t \in Saved /\ (Bounded(fs) => Bounded(t))
      BY <1>0, <2>5, StoredTyped DEF fsOK
    <2> HIDE DEF t
    <2> QED BY <1>0, <2>0, <2>1, <2>6 DEF fsOK, openOK, requestOK
  <1>2. CASE fsipc(c)
    <2>1. /\ At(c, "fsipc") /\ UNCHANGED <<fs, opentab>>
          /\ srv' = [srv EXCEPT !.ph = "serve", !.from = c, !.req = x[2]]
      BY <1>2, <1>a DEF fsipc
    <2>2. x[2] \in Requests
      BY <1>x, <2>1 DEF CallShape
    <2>3. srv'.ph = "serve" /\ srv'.req = x[2]
      BY <1>0, <2>1 DEF ServerRecord
    <2> QED BY <1>0, <2>1, <2>2, <2>3 DEF fsOK, openOK, requestOK
  <1>3. CASE ~(store(c) \/ fsipc(c))
    <2>1. UNCHANGED <<fs, opentab, srv>>
      BY <1>3 DEF Run, ipc_recv, open, open_map, close, closing, unmap, fd_close, read, write, seek, ftruncate,
                  grow, fails, remove, sync, check, fork, wait, exit, destroy, Local, server_vars
    <2> QED BY <1>0, <2>1 DEF fsOK, openOK, requestOK
  <1> QED BY <1>1, <1>2, <1>3

LEMMA TInvStep == TInv /\ [Next]_vars => TInv'
  <1> SUFFICES ASSUME TInv, [Next]_vars PROVE TInv'
    OBVIOUS
  <1>0. FInv'
    BY FInvStep DEF TInv
  <1>1. CASE Serve
    <2>1. dataOK'
      BY <1>1, DataServes
    <2>2. fsOK' /\ openOK' /\ pagesOK' /\ codeOK' /\ requestOK'
      BY <1>1, FsServes, FsOpens
    <2> QED BY <1>0, <2>1, <2>2 DEF TInv
  <1>2. ASSUME NEW c \in Client, Run(c) PROVE TInv'
    BY <1>0, <1>2, CodeRuns, FilefdRuns, DataRuns, FsRuns DEF TInv
  <1>3. CASE UNCHANGED vars
    <2>1. UNCHANGED <<fs, opentab, ff, data, code, srv>>
      BY <1>3 DEF vars, server_vars, client_vars
    <2> QED BY <1>0, <2>1 DEF TInv, fsOK, openOK, pagesOK, dataOK, codeOK, requestOK
  <1> QED BY <1>1, <1>2, <1>3 DEF Next, Finished

\* TypeOK, for any programs that make calls of the library, and also after a
\* panic: whatever serve and the clients do, the entries name Files of the
\* disk, sizes stay within what file_block_walk can reach, and every page a
\* client has mapped is a block of the cache or its own (serve_open, serve_map,
\* file_write, ftruncate).
THEOREM ServerTypeCorrect == Spec => []TypeOK
  <1>1. TInv => TypeOK
    <2> SUFFICES ASSUME TInv PROVE TypeOK
      OBVIOUS
    <2>1. fs \in State /\ Bounded(fs)
      BY DEF TInv, fsOK, Saved
    <2>2. srv.ph \in {"recv", "serve", "reply"} /\ srv.from \in Client
      BY DEF TInv, FInv, ServerRecord
    <2> QED BY <2>1, <2>2 DEF TInv, FInv, TypeOK, openOK, pagesOK, FilefdType, Sizes, dataOK, Page,
                              fdOK, ipcOK
  <1> QED BY <1>1, TInvInit, TInvStep, PTL DEF Spec

=============================================================================
