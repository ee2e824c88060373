------------------------------ MODULE MCSpawn ------------------------------
EXTENDS Spawn
\* With PAGE_SIZE = 32: text at the start of page 1 or inside it, data and bss
\* from page 4, with sizes on both sides of every page boundary.
Text == {<<32, n>> : n \in {1, 31, 32, 33, 64}} \union {<<37, n>> : n \in {1, 26, 27, 28, 59, 60}}
Data == {<<0, 1>>, <<0, 33>>, <<1, 1>>, <<1, 33>>, <<31, 65>>, <<32, 33>>, <<33, 64>>, <<33, 65>>}
MCSegments ==
  {<<[va |-> t[1], src |-> 1, filesz |-> t[2], memsz |-> t[2]],
     [va |-> 128, src |-> 101, filesz |-> d[1], memsz |-> d[2]]>> : t \in Text, d \in Data}
  \union {<<[va |-> 40, src |-> 1, filesz |-> 24, memsz |-> 57]>>}
MCArgs == {<<>>, <<3>>, <<0, 2>>, <<3, 3>>, <<12>>, <<15>>, <<16>>, <<7, 4>>}
=============================================================================
