---------------------------- MODULE MCEngineRun ----------------------------
(* Small instances of EngineRun.                                           *)
EXTENDS EngineRun

CONSTANTS f1, f2, f3, f4, absent, big, front, ignored,
          plain, node, repo, misset, kind

(* f2 is of a kind that turns the rule about the repository off; an        *)
(* override of f2 and f3 turns the rule with refused settings on.          *)
MCKindOf == [f \in File |-> IF f = f2 THEN kind ELSE None]

MCOn == [k \in Key |-> {plain, node}
                       \cup (IF k[1] = None THEN {repo} ELSE {})
                       \cup (IF k[2] THEN {misset} ELSE {})]

MCOnFiles == [k \in Key |-> MCOn[k] \ {repo}]

MCFinds == [r \in Rule |-> File]

MCPanicsOn == [r \in Rule |-> IF r = node THEN {f4} ELSE {}]

Call(paths, concurrency, intra, bad) ==
  [paths |-> paths, concurrency |-> concurrency, intra |-> intra, bad |-> bad]

MCRun ==
  {Call(<<f1, f2, f3>>, 2, intra, bad) : intra \in {0, 2}, bad \in BOOLEAN}
  \cup {Call(<<f4, absent, f1>>, 2, intra, FALSE) : intra \in {0, 2}}
  \cup {Call(<<f1, ignored, big, front, f3>>, 0, 1, FALSE)}
  \cup {Call(<<f1, f4, f2>>, 1, 0, bad) : bad \in BOOLEAN}

MCPair == {Call(<<f1, f3>>, n, 0, FALSE) : n \in 1..2}

MCBad == {Call(<<f1, f2>>, 1, intra, TRUE) : intra \in 1..2}
=============================================================================
