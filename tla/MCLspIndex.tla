----------------------------- MODULE MCLspIndex -----------------------------
(* Small instances of LspIndex: a.md in the workspace folder and b.md in a  *)
(* directory below it, which has a configuration file of its own.          *)
EXTENDS LspIndex

CONSTANTS a, b, folder, below, home, own, nameA, nameB, upA, ver, plain, kind

MCRootOf == [p \in Place \cup {None} |-> IF p = own THEN below ELSE folder]

(* From the directory below, b.md has the name that a.md has from above.    *)
MCRel == [r \in Root |-> IF r = folder
                           THEN [p \in Path |-> IF p = a THEN nameA ELSE nameB]
                           ELSE [p \in Path |-> IF p = a THEN upA ELSE nameA]]

MCUnder == [r \in Root |-> IF r = folder THEN Path ELSE {b}]

MCIgnores == [v \in Version \cup {None} |-> IF v = None THEN {} ELSE {b}]

MCKindsOf == [v \in Version \cup {None} |->
                [p \in Path |-> IF v = None THEN plain ELSE kind]]
=============================================================================
