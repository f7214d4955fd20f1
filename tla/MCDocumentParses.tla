-------------------------- MODULE MCDocumentParses --------------------------
(* Instances of DocumentParses for TLC. *)
EXTENDS DocumentParses, TLC

(* Lints are interchangeable.                                              *)
Symmetry == Permutations(Lint)
=============================================================================
