------------------------------ MODULE MCSession ------------------------------
(* Instances of Session for TLC. *)
EXTENDS Session, TLC

(* Documents and callers are interchangeable.                              *)
Symmetry == Permutations(Doc) \cup Permutations(Caller)
=============================================================================
