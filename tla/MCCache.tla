------------------------------ MODULE MCCache -------------------------------
(***************************************************************************)
(* Instances of DirectoryCache for TLC.  Thread x runs on node 0, y and z  *)
(* on node 1.                                                              *)
(***************************************************************************)
EXTENDS DirectoryCache

ThreadsXY == {"x", "y"}
ThreadsYZ == {"y", "z"}
Nodes  == [t \in Thread |-> IF t = "x" THEN 0 ELSE 1]
Blocks == {"k", "l"}
Blocks3 == {"k", "l", "m"}
AtZero == [b \in Block |-> 0]
Mixed  == [b \in Block |-> IF b = "l" THEN 1 ELSE 0]

\* x writes one word of k, y the two others with one chunk.
OneAndChunk == [t \in Thread |-> IF t = "x" THEN {<<"k", {0}>>} ELSE {<<"k", {1, 2}>>}]
\* y writes k, z writes l.
OneEach == [t \in Thread |-> IF t = "y" THEN {<<"k", {0}>>} ELSE {<<"l", {0}>>}]
Chunk   == [t \in Thread |-> IF t = "x" THEN {<<"k", {0, 1}>>} ELSE {}]
All     == [t \in Thread |-> Block]
=============================================================================
