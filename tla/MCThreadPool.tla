---------------------------- MODULE MCThreadPool ----------------------------
(***************************************************************************)
(* Instances of ThreadPool for TLC: two slaves with two workers and one.   *)
(***************************************************************************)
EXTENDS ThreadPool

TwoAndOne == [n \in Slave |-> IF n = 1 THEN 2 ELSE 1]
\* p submits two jobs before it waits, others wait for each job.
Batches == [c \in Client |-> IF c = "p" THEN 2 ELSE 1]
Twos  == [c \in Client |-> 2]
Fours == [c \in Client |-> 4]
Jobs == [c \in Client |-> IF c = "p" THEN 2 ELSE 3]
SecondOfQ == {j \in Job : j = <<"q", 2>>}
=============================================================================
