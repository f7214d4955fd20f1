---------------------------- MODULE MCLspSession ----------------------------
(* A workspace with no configuration at its top and one in a folder, which *)
(* the client may name, for TLC.  The document below the folder has, seen  *)
(* from there, the name that the one at the top has seen from the top.     *)
EXTENDS LspSession, FiniteSets, TLC

CONSTANTS upper, lower, \* documents
          home, other,  \* configuration files
          top, folder,  \* roots
          plain, long, absolute \* names

MCDoc == {upper, lower}
MCPlace == {home, other}
MCRoot == {top, folder}
MCName == {plain, long, absolute}
MCRootOf == home :> top @@ Nil :> top @@ other :> folder
MCInside == top :> {upper, lower} @@ folder :> {lower}
MCKey == top :> (upper :> plain @@ lower :> long)
           @@ folder :> (lower :> plain @@ upper :> absolute)
MCWritten == home :> {0} @@ other :> {0, 1}
MCAnswers == {other, Nil}

(* What the last rebuild left behind is forgotten when the next one ends,  *)
(* and so is what a rebuild met that is not alone.                         *)
JobSeen(t) == [job[t] EXCEPT !.met = IF job[t].alone THEN @ ELSE {}]

Live ==
  <<doc, found, override, config, session, [t \in Thread |-> JobSeen(t)],
    NoRebuild /\ crossed, IF NoRebuild /\ ~crossed THEN torn ELSE {}>>

(* For the properties that look at the files or at what was reported.      *)
LiveFiles == <<Live, disk, reported>>

(* Bound: at most two goroutines are at work at once.                      *)
TwoAtWork == Cardinality({t \in Thread : ~At(t, "idle")}) <= 2

Symmetry == Permutations(Text)
=============================================================================
