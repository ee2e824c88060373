------------------------------ MODULE Fsformat ------------------------------
(***************************************************************************)
(* tools/fsformat.c: the image the file server starts from.  The disk is   *)
(* filled from block 3 upwards with the files and directories of the       *)
(* command line, an entry [in, name, type, size] each; "in" names the      *)
(* directory it is in ("" for the root).  Directories of more than NDIRECT *)
(* blocks are left out.                                                    *)
(***************************************************************************)
EXTENDS FileSystem

\* init_disk: the super block, with an empty root.
init_disk ==
  [next |-> 3,
   blk |-> [b \in Block |->
              IF b = SUPER THEN [Zero EXCEPT !.files[0] = [NoFile EXCEPT !.name = "/", !.type = "dir"]]
              ELSE Zero]]

save_block_link(d, f, nblk, bno) ==
  LET ind == d.blk[f[1]].files[f[2]].indirect
      i == IF ind = 0 THEN d.next ELSE ind
  IN  IF nblk < NDIRECT
      THEN [d EXCEPT !.blk[f[1]].files[f[2]].direct[nblk] = bno]
      ELSE [d EXCEPT !.blk[f[1]].files[f[2]].indirect = i,
                     !.blk[i].ptr[nblk] = bno,
                     !.next = IF ind = 0 THEN @ + 1 ELSE @]

make_link_block(d, dirf) ==
  LET n == d.blk[dirf[1]].files[dirf[2]].size
      e == save_block_link([d EXCEPT !.next = @ + 1], dirf, n, d.next)
  IN  [e EXCEPT !.blk[dirf[1]].files[dirf[2]].size = n + 1]

\* The Files of a directory on the image.
Entries(d, dirf) ==
  LET x == d.blk[dirf[1]].files[dirf[2]]
  IN  {<<x.direct[i], j>> : i \in 0..x.size - 1, j \in Slot}

First(S) == CHOOSE f \in S : \A g \in S : f[1] < g[1] \/ (f[1] = g[1] /\ f[2] <= g[2])

\* [d, f]: an unused File of the directory, in a new block if there is none.
create_file(d, dirf) ==
  LET unused == {f \in Entries(d, dirf) : d.blk[f[1]].files[f[2]].name = NoName}
  IN  IF unused # {} THEN [d |-> d, f |-> First(unused)]
      ELSE [d |-> make_link_block(d, dirf), f |-> <<d.next, 0>>]

Named(d, name) ==
  IF name = NoName THEN Root
  ELSE CHOOSE f \in Entries(d, Root) : d.blk[f[1]].files[f[2]].name = name

\* write_file: the File, then its blocks one after the other.
WriteBlock(d, f, i) ==
  save_block_link([d EXCEPT !.blk[d.next].bytes = TRUE, !.next = @ + 1], f, i, d.next)
write_file(d, x) ==
  LET c == create_file(d, Named(d, x.in))
      e == [c.d EXCEPT !.blk[c.f[1]].files[c.f[2]] =
              [@ EXCEPT !.name = x.name, !.type = "reg", !.size = x.size]]
  IN  FoldLeft(LAMBDA t, i : WriteBlock(t, c.f, i), e, Range0(x.size))

write_directory(d, x) ==
  LET c == create_file(d, Named(d, x.in))
  IN  [c.d EXCEPT !.blk[c.f[1]].files[c.f[2]] = [@ EXCEPT !.name = x.name, !.type = "dir"]]

fsformat(image) ==
  FoldLeft(LAMBDA d, x : IF x.type = "dir" THEN write_directory(d, x) ELSE write_file(d, x),
           init_disk, image)

\* flush_bitmap marks what was used; fs_init reads the super block and the
\* bitmap, and check_write_block leaves block 0 in the cache.
fs_init(image) ==
  LET d == fsformat(image)
  IN  [free |-> d.next..NBLOCK - 1, disk_free |-> d.next..NBLOCK - 1,
       mapped |-> {0, SUPER, BITMAP}, dirty |-> {}, unsaved |-> {},
       blk |-> d.blk, status |-> "ok"]

=============================================================================
