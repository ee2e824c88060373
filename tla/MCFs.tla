-------------------------------- MODULE MCFs --------------------------------
EXTENDS FsRequests
MCImages ==
  {<<[in |-> "", name |-> "a", type |-> "reg", size |-> 1]>>,
   <<[in |-> "", name |-> "d", type |-> "dir", size |-> 0],
     [in |-> "d", name |-> "a", type |-> "reg", size |-> 1]>>}
MCPaths == {<<"a">>, <<"b">>, <<"d", "b">>}
=============================================================================
