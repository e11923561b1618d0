---------------------------- MODULE MCExpertDesk ----------------------------
(* An instance of ExpertDesk for TLC: users and requests are                *)
(* interchangeable.                                                         *)
EXTENDS ExpertDesk, TLC

UserAndRequestSymmetry == Permutations(Users) \cup Permutations(Requests)
=============================================================================
