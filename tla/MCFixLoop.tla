------------------------------ MODULE MCFixLoop ------------------------------
(* Three files that include, extract, list and build from each other, for  *)
(* TLC.                                                                    *)
EXTENDS FixLoop, TLC

CONSTANTS a, b, c,   \* files
          i1, i2,    \* i2 is left behind by the fix of i1
          i3,        \* stands in a foreign region
          i4, i5, i6, i7, \* each leaves the next behind, and the last the first
          m,         \* in front matter, keeps a file out of catalogs until it is fixed
          t1, t2, t3 \* contents of sections

MCFile == {a, b, c}
MCPaths == <<a, b, c>>
MCIssue == {i1, i2, i3, i4, i5, i6, i7, m}
MCRules == <<i2, i3, i7, i6, i5, i4, i1, m>>
MCSpawn == i1 :> {i2} @@ i4 :> {i5} @@ i5 :> {i6} @@ i6 :> {i7} @@ i7 :> {i4}
           @@ [i \in MCIssue |-> {}]
MCMatter == {m}

Inc(g) == [kind |-> "include", target |-> g]
Ext(g) == [kind |-> "extract", target |-> g]
Cat(files) == [kind |-> "catalog", target |-> files]

None == [f \in MCFile |-> {}]
Net(s) == [sections |-> s @@ None, builds |-> None]

(* A leaf is what the target's sections hold, or else its own text.        *)
MCLeaf(s, text) ==
  IF DOMAIN text.made = {} THEN text.own \ MCMatter
  ELSE text.made[CHOOSE t \in DOMAIN text.made : TRUE]
MCProjects(s, text) == MCLeaf(s, text) # Blank

MCFan == Net(a :> {Inc(b), Inc(c), Inc(Nowhere)} @@ b :> {Inc(c), Ext(c)})
MCDraw == [Net(a :> {Inc(a), Ext(b), Cat({a})} @@ b :> {Inc(c)} @@ c :> {Cat({c})})
             EXCEPT !.builds[c] = {a}]
MCNets == {MCFan, MCDraw}
MCRing == {Net(a :> {Ext(b)} @@ b :> {Ext(c)} @@ c :> {Ext(a)})}

MCOwn == a :> {{i1, i3}} @@ b :> {{i1}} @@ c :> {{i5}, {m}}
MCBlank == {Blank}
MCTyped == {Blank, t1, t2, t3}

(* A save and a failed read or write meet in the first run only.           *)
MeetOnce == runs = MaxRuns /\ run.saved => ~run.unread /\ ~run.unwritten
=============================================================================
