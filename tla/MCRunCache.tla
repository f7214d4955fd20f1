----------------------------- MODULE MCRunCache -----------------------------
(* Instances of RunCache for TLC. *)
EXTENDS RunCache, TLC

(* Paths and goroutines are interchangeable; only safety runs use this.    *)
Symmetry == Permutations(Path) \cup Permutations(Reader)

(* Entries have no identity but what refers to them, and one nothing       *)
(* refers to is garbage.                                                   *)
Role(x) ==
  <<{p \in Path : leaf[p] = x}, agg = x,
    {r \in Reader : reader[r].ref = x}, {r \in Reader : reader[r].aggRef = x},
    entry[x]>>

Used == {leaf[p] : p \in Path} \cup {agg}
          \cup UNION {{reader[r].ref, reader[r].aggRef} : r \in Reader}

Live ==
  <<disk, floor, editor,
    [r \in Reader |-> [reader[r] EXCEPT !.ref = None, !.aggRef = None]],
    {Role(x) : x \in Used \ {None}}>>

(* Bound: one of the files changes, whichever.                             *)
OneChanges == Cardinality({p \in Path : disk[p] # 0}) <= 1
=============================================================================
