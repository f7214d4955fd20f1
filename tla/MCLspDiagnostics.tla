-------------------------- MODULE MCLspDiagnostics --------------------------
(* Instances of LspDiagnostics for TLC. *)
EXTENDS LspDiagnostics, TLC

(* Documents, goroutine slots and settings goroutines are interchangeable; *)
(* only safety runs use this.                                              *)
Symmetry == Permutations(Uri) \cup Permutations(Task) \cup Permutations(Fetcher)
=============================================================================
