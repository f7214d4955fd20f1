----------------------------- MODULE MCBuildPass -----------------------------
(* A source, a target that makes a part of it, and one that makes two      *)
(* outputs of the part, for TLC.                                           *)
EXTENDS BuildPass, TLC

CONSTANTS source, part, one, two, \* files
          first, second           \* targets

MCFile == {source, part, one, two}
MCTarget == {first, second}
MCInput == first :> {source} @@ second :> {part}
MCOutput == first :> {part} @@ second :> {one, two}
MCLine == first :> 1 @@ second :> 2
MCBack == first :> 2 @@ second :> 1

(* A source is 0 or 1, its part is 10 more, and what is made of that again *)
(* 10 more.  A file half written, or one of another author, is 3, and no   *)
(* recipe makes anything else of it.                                       *)
MCMake(t, ins) ==
  LET text == ins[CHOOSE f \in DOMAIN ins : TRUE]
  IN IF text \div 10 = Line[t] - 1 /\ text # 3 THEN text + 10 ELSE 3
MCContent == {0, 1, 3, 10, 11, 20, 21}

MCWritten ==
  source :> {0, 1} @@ part :> {None} @@ one :> {3} @@ two :> {None}

MCTogether == {<<2, "none">>}
MCFlags == {<<1, "none">>, <<2, "force">>, <<1, "verify">>, <<1, "no-cache">>}
=============================================================================
