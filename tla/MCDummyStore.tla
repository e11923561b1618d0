---------------------------- MODULE MCDummyStore ----------------------------
(* An instance of DummyStore for TLC: calls are interchangeable.            *)
EXTENDS DummyStore, TLC

CallSymmetry == Permutations(Calls)
=============================================================================
