----------------------------- MODULE MCStorage ------------------------------
(***************************************************************************)
(* Instances of Storage for TLC: an object of 10 words, in blocks of 3 or  *)
(* one by one, on two servers.  Client a puts a chunk that begins and ends *)
(* inside a block and a word in the middle of one, d the last word.        *)
(***************************************************************************)
EXTENDS Storage

Spread == [k \in Key |-> k % 2]

Disjoint == [c \in Client |-> IF c = "a" THEN {<<2, 5>>, <<1, 1>>} ELSE {<<9, 1>>}]
\* d puts a word of a's last block.
Shared   == [c \in Client |-> IF c = "a" THEN {<<2, 5>>} ELSE {<<7, 1>>}]
Ranges   == [c \in Client |-> IF c = "a" THEN {<<1, 6>>} ELSE {<<2, 2>>, <<6, 4>>}]
=============================================================================
