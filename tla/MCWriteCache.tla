---------------------------- MODULE MCWriteCache ----------------------------
(* Small instances of WriteCache for TLC. *)
EXTENDS WriteCache, TLC

(* Sector contents are only stored and compared. *)
ValSymmetry == Permutations(Val)
=============================================================================
