---------------------------- MODULE MCAssignment ----------------------------
(* Values for model checking Assignment.                                   *)
EXTENDS Assignment, TLC

\* Threads, users and conversations are interchangeable.
Interchangeable == Permutations(Threads) \cup Permutations(Users)
                     \cup Permutations(Conversations)
=============================================================================
