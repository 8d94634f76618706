---------------------------- MODULE MCWritePath ----------------------------
(* Small instances of the write path for TLC. *)
EXTENDS WritePathRefinement, TLC

(* The users are interchangeable. *)
UserSymmetry == Permutations(Users)
=============================================================================
