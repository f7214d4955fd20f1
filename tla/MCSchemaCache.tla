---------------------------- MODULE MCSchemaCache ----------------------------
(* Two schemas and a fragment for TLC.  Schema main includes frag; in its  *)
(* second version it includes schema base as well.  Schema base includes   *)
(* frag; in its second version it includes main, a cycle.  The first       *)
(* version of frag is broken.                                              *)
EXTENDS SchemaCache, TLC

CONSTANTS main, base, frag

MCPath == {main, base, frag}

Says(incl) == [incl |-> incl, ok |-> TRUE]

Broken == [incl |-> {}, ok |-> FALSE]

MCContent ==
  main :> [v \in Ver |-> Says(IF v = 0 THEN {frag} ELSE {frag, base})] @@
  base :> [v \in Ver |-> Says(IF v = 0 THEN {frag} ELSE {main})] @@
  frag :> [v \in Ver |-> IF v = 0 THEN Broken ELSE Says({})]

(* A cycle from the start, for the liveness run.                           *)
MCCycle == [p \in Path |-> [v \in Ver |-> Says(Path \ {p})]]

(* Schema main and its fragment alone, for two checks at once.             *)
MCPair ==
  main :> [v \in Ver |-> Says({frag})] @@
  frag :> [v \in Ver |-> IF v = 0 THEN Says({}) ELSE Broken]

(* Bounds of the runs: one edit, two edits, no check during an Invalidate. *)
Edited == {p \in Path : disk[p] = 1}
OneEdit == Cardinality(Edited) <= 1
TwoEdits == Cardinality(Edited) <= 2
Apart == ~overlap

(* Entries have no identity but what refers to them, and one nothing       *)
(* refers to is garbage.                                                   *)
Role(x) ==
  <<{p \in Path : parsed[p] = x}, {r \in Reader : reader[r].ref = x}, entry[x]>>

Live ==
  <<disk, floor, raw, includes, dependents, inv,
    [r \in Reader |-> [reader[r] EXCEPT !.ref = Nil]],
    {Role(x) : x \in Entry \ Unused}>>

LiveApart == <<Live, overlap>>

Symmetry == Permutations(Reader)
=============================================================================
