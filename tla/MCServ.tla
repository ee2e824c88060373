------------------------------- MODULE MCServ -------------------------------
EXTENDS FileServer
A == <<"a">>
B == <<"b">>
C == <<"c">>
Image == <<[in |-> "", name |-> "a", type |-> "reg", size |-> 1]>>
Open(path, mode) == <<"open", path, FALSE, FALSE, mode>>
Create(path) == <<"open", path, TRUE, FALSE, "rw">>
Truncate(path) == <<"open", path, TRUE, TRUE, "w">>
Two(p, q) == [p |-> p \o <<<<"exit">>>>, q |-> q \o <<<<"exit">>>>]
Start == {"p", "q"}

\* A writer of a new file beside a reader of another.
copy == [image |-> Image, start |-> Start,
  code |-> Two(<<Create(B), <<"write", 0, 1>>, <<"write", 0, 1>>, <<"close", 0>>, <<"sync">>>>,
               <<Open(A, "r"), <<"read", 0, 4>>, <<"close", 0>>, Open(C, "r")>>)]
\* testfdsharing.c: parent and child share a descriptor and its offset.  Then the
\* child asks for more blocks than a file can have.
sharing == [image |-> Image, start |-> {"p"},
  code |-> Two(<<Open(A, "r"), <<"fork", "q">>, <<"read", 0, 1>>, <<"wait", "q">>, <<"close", 0>>>>,
               <<<<"seek", 0, 0>>, <<"read", 0, 1>>, <<"close", 0>>, Open(A, "rw"), <<"ftruncate", 0, 5>>>>)]
\* Two writers for whom the disk is too small, and an open table that is.
full == [image |-> Image, start |-> Start,
  code |-> Two(<<Create(B), <<"write", 0, 2>>, <<"close", 0>>>>,
               <<Create(C), <<"write", 0, 2>>, Open(A, "r"), <<"read", 0, 1>>>>)]
\* A file is cut, written again and removed while another one is made.
cut == [image |-> Image, start |-> Start,
  code |-> Two(<<Open(A, "rw"), <<"ftruncate", 0, 0>>, <<"write", 0, 2>>, <<"close", 0>>,
                 <<"remove", A>>, <<"remove", A>>>>,
               <<Truncate(B), <<"write", 0, 1>>, Open(B, "w"), <<"read", 1, 1>>>>)]
MCScripts == {copy, sharing, full, cut}
=============================================================================
