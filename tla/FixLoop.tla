------------------------------- MODULE FixLoop -------------------------------
(***************************************************************************)
(* mdsmith fix: passes over the files, each of them read, fixed by the     *)
(* rules and written back, until a pass writes nothing.  A file has text   *)
(* of its own and sections generated from other files, read from disk as   *)
(* they are then: included files, expanded through their own includes,     *)
(* single leaves extracted from files, and catalogs of files.  People save *)
(* files meanwhile, reads and writes fail, and the process may be killed.  *)
(*                                                                         *)
(* The own text of a file is the set of what it holds: issues that rules   *)
(* find and fix, and facts.  Reads of other files while one file's rules   *)
(* run are taken at one moment.  Errors are only told by what they leave   *)
(* undone.                                                                 *)
(***************************************************************************)
EXTENDS Naturals, FiniteSets, Sequences, SequencesExt

CONSTANTS
  File,            \* the files
  Nowhere,         \* a target that does not exist
  Paths,           \* the files to fix, in the order they were given
  Nets,            \* the directives of the files, and what they build from
  Issue,           \* what an own text may hold
  Rules,           \* the issues that rules find and fix, in the order of their IDs
  Spawn,           \* the issues that fixing one leaves behind
  Foreign,         \* issues inside regions another generator owns
  Matter,          \* what of an own text is front matter
  Hidden,          \* the front matter that keeps a file out of catalogs
  Own,             \* the own texts that people give each file
  Blank,           \* what a section holds that was never generated
  Typed,           \* what the sections may hold as the first run begins
  Projects(_, _),  \* whether an extract directive finds its leaf in a text
  Leaf(_, _),      \* and the leaf it finds there
  MaxIncludeDepth, \* maxIncludeDepth
  RulePasses,      \* maxPasses
  WorkspacePasses, \* maxWorkspacePasses
  MaxRuns,         \* bound on the runs
  MaxSaves,        \* bound on the saves
  MaxTroubles      \* bound on the failed reads, failed writes and crashes

(* A file has directives, each with a section: includes of a target,       *)
(* includes with extract: of one, and catalogs of the files they match.    *)
(* They may have more parameters, which tell them apart.                   *)
Netlike(net) ==
  /\ net.sections = [f \in File |-> net.sections[f]]
  /\ \A f \in File : \A s \in net.sections[f] :
       \/ s.kind \in {"include", "extract"} /\ s.target \in File \cup {Nowhere}
       \/ s.kind = "catalog" /\ s.target \subseteq File
  /\ net.builds \in [File -> SUBSET File]

ASSUME ConstantsAssumption ==
  /\ Nowhere \notin File
  /\ Paths \in Seq(File) /\ Paths # <<>> /\ IsInjective(Paths)
  /\ \A net \in Nets : Netlike(net)
  /\ Rules \in Seq(Issue)
  /\ Spawn \in [Issue -> SUBSET Issue]
  /\ Foreign \subseteq Issue
  /\ Hidden \subseteq Matter
  /\ Own \in [File -> SUBSET SUBSET Issue]
  /\ Blank \in Typed
  /\ {MaxIncludeDepth, MaxRuns, MaxSaves, MaxTroubles} \subseteq Nat
  /\ {RulePasses, WorkspacePasses} \subseteq Nat \ {0}

Given == ToSet(Paths)

VARIABLES
  net,      \* the directives of the files
  disk,     \* their contents
  run,      \* the run of mdsmith fix
  author,   \* history: the own text people last gave each file
  lost,     \* history: the files whose last save was overwritten unread
  runs,     \* the number of runs so far
  saves,    \* the number of saves so far
  troubles  \* the number of failures so far

vars == <<net, disk, run, author, lost, runs, saves, troubles>>

-----------------------------------------------------------------------------
(* Generated sections.                                                     *)

Directive == UNION UNION {{n.sections[f] : f \in File} : n \in Nets}

Includes(n, f) == {s \in n.sections[f] : s.kind # "catalog"}
Catalogs(n, f) == {s \in n.sections[f] : s.kind = "catalog"}

(* The includes that regenerating s goes through, one inside the other.    *)
(* An extract is the end: its target is not expanded.                      *)
Chains(n, s) ==
  {w \in BoundedSeq(Directive, MaxIncludeDepth + 1) :
     /\ w # <<>> /\ w[1] = s
     /\ \A i \in 1..Len(w) - 1 :
          /\ w[i].kind = "include" /\ w[i].target \in File
          /\ w[i + 1] \in Includes(n, w[i].target)}

(* checkCycleOrDepth, or the target cannot be read.                        *)
Unusable(f, w) ==
  \/ Len(w) > MaxIncludeDepth
  \/ Last(w).target \in {f} \cup {w[i].target : i \in 1..Len(w) - 1}
  \/ Last(w).target = Nowhere

(* What an include of f needs: nothing, if one of its chains is unusable,  *)
(* or the files it expands and the extracts in them, or else itself.  A    *)
(* constant, evaluated once.                                               *)
Expansion ==
  [n \in Nets |-> [f \in File |-> [s \in Includes(n, f) |->
     LET all == Chains(n, s)
         files == {Last(w).target : w \in {v \in all : Last(v).kind = "include"}} \cap File
     IN [broken |-> \E w \in all : Unusable(f, w),
         files |-> files,
         leaves |-> {t \in {s} \cup UNION {n.sections[x] : x \in files} : t.kind = "extract"}]]]]

(* What an include puts down for a file that it expands: its own text, its *)
(* catalogs as they are on disk, and its extracts made anew.               *)
Copy(x, d) ==
  [own |-> d[x].own \ Matter,
   catalogs |-> [t \in Catalogs(net, x) |-> d[x].made[t]],
   leaves |-> [t \in {s \in Includes(net, x) : s.kind = "extract"} |-> Leaf(t, d[t.target])]]

(* buildCatalogEntries: those of the files whose front matter is right.    *)
Listed(s, d) == {g \in s.target : d[g].own \cap Hidden = {}}

(* checkCatalogIncludeCycle: the pairs of a file and one that its includes *)
(* lead to, extracts too.                                                  *)
Leads == [n \in Nets |-> {pair \in File \X File :
  \E w \in BoundedSeq(Directive, MaxIncludeDepth + 1) :
    /\ w # <<>> /\ w[1] \in Includes(n, pair[1]) /\ Last(w).target = pair[2]
    /\ \A i \in 1..Len(w) - 1 :
         w[i].target \in File /\ w[i + 1] \in Includes(n, w[i].target)}]

(* The directive fails: it is told, and the section keeps what it holds.   *)
Refused(f, s, old, d) ==
  \/ /\ s.kind # "catalog"
     /\ \/ Expansion[net][f][s].broken
        \/ \E t \in Expansion[net][f][s].leaves : ~Projects(t, d[t.target])
  \/ /\ s.kind = "catalog"
     /\ \/ \E g \in Listed(s, d) : <<g, f>> \in Leads[net]
        \/ Listed(s, d) = {} /\ old # Blank

(* The contents of a section.                                              *)
Generated(f, s, d) ==
  CASE s.kind = "include" -> [x \in Expansion[net][f][s].files |-> Copy(x, d)]
    [] s.kind = "extract" -> Leaf(s, d[s.target])
    [] OTHER -> IF Listed(s, d) = {} THEN Blank
                ELSE [g \in Listed(s, d) |-> d[g].own \cap Matter]

(* Engine.Fix of the include and catalog rules.                            *)
Regenerated(f, text, d) ==
  [text EXCEPT !.made = [s \in net.sections[f] |->
     IF Refused(f, s, text.made[s], d) THEN text.made[s] ELSE Generated(f, s, d)]]

(* The diagnostics of a file with this text: its issues, and the           *)
(* directives that fail or whose section is out of date.                   *)
CheckFile(f, text, d) ==
  LET now == Regenerated(f, text, d)
  IN {<<f, "issue", i>> : i \in text.own \cap ToSet(Rules)}
     \cup {<<f, "failing", s>> : s \in {t \in net.sections[f] : Refused(f, t, text.made[t], d)}}
     \cup {<<f, "stale", s>> : s \in {t \in net.sections[f] : text.made[t] # now.made[t]}}

CheckTree(d) == UNION {CheckFile(f, d[f], d) : f \in Given}

-----------------------------------------------------------------------------
(* Rules.                                                                  *)

(* A rule finds its issue, and its fix leaves others behind.               *)
ApplyRule(i, own) == IF i \in own THEN (own \ {i}) \cup Spawn[i] ELSE own

(* A pass over the rules: each checks what the one before has left, and    *)
(* fixes what it finds.  A constant function, each value computed once.    *)
RulePass == [own \in SUBSET Issue |->
  LET step[n \in 0..Len(Rules)] ==
        IF n = 0 THEN own
        ELSE UNION {ApplyRule(Rules[n], now) : now \in {step[n - 1]}}
  IN  step[Len(Rules)]]

(* applyFixPasses: repeated until nothing changes, or often enough.        *)
Passed == [own \in SUBSET Issue |->
  LET after[n \in 0..RulePasses] == IF n = 0 THEN own ELSE RulePass[after[n - 1]]
  IN  after[RulePasses]]

(* Mutant: what the fixers did inside foreign regions stays.               *)
Restored_Not(old, new) == new

(* foreignregion.Restore                                                   *)
Restored(old, new) == (new \ Foreign) \cup (old \cap Foreign)

FixedOwn == [own \in SUBSET Issue |-> Restored(own, Passed[own])]

Fixed(f, text, d) == [Regenerated(f, text, d) EXCEPT !.own = FixedOwn[text.own]]

-----------------------------------------------------------------------------
(* The order of the files.                                                 *)

(* Files of the set, in the order they were given.                         *)
AsGiven(files) ==
  CHOOSE s \in BoundedSeq(files, Len(Paths)) :
    /\ ToSet(s) = files
    /\ \A i, j \in DOMAIN s : i < j =>
         \E k, l \in DOMAIN Paths : k < l /\ Paths[k] = s[i] /\ Paths[l] = s[j]

(* dependencyEdges: the files of the set that f must come after.           *)
Dependencies(n, f) ==
  (({s.target : s \in Includes(n, f)} \cup n.builds[f]) \cap Given) \ {f}

(* Mutant: a file joins the queue with the first of its dependencies.      *)
Kahn_AnyDependency(n, s) ==
  LET x == Head(s.queue)
      out == Append(s.out, x)
      ready == {p \in Given \ (ToSet(out) \cup ToSet(s.queue)) : x \in Dependencies(n, p)}
  IN [queue |-> Tail(s.queue) \o AsGiven(ready), out |-> out]

(* The head of the queue comes next, and the files whose last dependency   *)
(* it was join the queue in the order they were given.                     *)
Kahn(n, s) ==
  LET x == Head(s.queue)
      out == Append(s.out, x)
      ready == {p \in Given : x \in Dependencies(n, p) /\ Dependencies(n, p) \subseteq ToSet(out)}
  IN [queue |-> Tail(s.queue) \o AsGiven(ready), out |-> out]

(* Leaves first; what is in a cycle or behind one comes last, as given.    *)
DependencyOrder == [n \in Nets |->
  LET free == {p \in Given : Dependencies(n, p) = {}}
      step[k \in 0..Len(Paths)] ==
        IF k = 0 THEN [queue |-> AsGiven(free), out |-> <<>>]
        ELSE IF step[k - 1].queue = <<>> THEN step[k - 1]
        ELSE Kahn(n, step[k - 1])
      out == step[Len(Paths)].out
  IN  out \o AsGiven(Given \ ToSet(out))]

-----------------------------------------------------------------------------
(* A run.                                                                  *)

IsText(n, f, text) ==
  /\ text = [own |-> text.own, made |-> text.made]
  /\ text.own \subseteq Issue
  /\ text.made = [s \in n.sections[f] |-> text.made[s]]

Diagnostics == File \X {"issue", "failing", "stale"} \X (Issue \cup Directive)

NoText == [own |-> {}, made |-> [s \in {} |-> Blank]]

(* A run that has not started: its pass is 0.                              *)
NoRun(d) ==
  [pc |-> "off", dry |-> FALSE, order |-> <<>>, pass |-> 0, at |-> 1,
   text |-> NoText, \* what was read
   new |-> NoText,  \* what the rules made of it
   before |-> {},   \* its diagnostics
   diags |-> {},    \* Diagnostics, of this pass
   failures |-> {}, \* Failures, of the first pass
   wrote |-> {},    \* Modified, in this pass
   input |-> d,     \* history: the tree as the run began
   saved |-> FALSE, \* history: someone has saved since
   unread |-> FALSE, \* history: a file could not be read since
   unwritten |-> FALSE] \* history: a file could not be written since

Init ==
  /\ net \in Nets
  /\ author \in [File -> UNION {Own[f] : f \in File}]
  /\ \A f \in File : author[f] \in Own[f]
  /\ \E made \in [File -> UNION {[net.sections[f] -> Typed] : f \in File}] :
       /\ \A f \in File : DOMAIN made[f] = net.sections[f]
       /\ disk = [f \in File |-> [own |-> author[f], made |-> made[f]]]
  /\ run = NoRun(disk)
  /\ lost = {}
  /\ runs = 0
  /\ saves = 0
  /\ troubles = 0

f0 == run.order[run.at]

(* Fixer.Fix begins; the command orders the files, other callers do not.   *)
Start ==
  /\ run.pc = "off"
  /\ runs < MaxRuns
  /\ runs' = runs + 1
  /\ \E order \in {Paths, DependencyOrder[net]}, dry \in BOOLEAN :
       run' = [NoRun(disk) EXCEPT !.pc = "read", !.dry = dry, !.order = order, !.pass = 1]
  /\ UNCHANGED <<net, disk, author, lost, saves, troubles>>

(* Mutant: the index of the next file is not reset.                        *)
EndPass_KeepsPlace(r) ==
  IF r.dry \/ r.wrote = {} \/ r.pass = WorkspacePasses THEN [r EXCEPT !.pc = "off", !.at = @ + 1]
  ELSE [r EXCEPT !.pc = "read", !.at = 1, !.pass = @ + 1, !.diags = {}, !.wrote = {}]

(* Mutant: a pass is not counted.                                          *)
EndPass_Uncounted(r) ==
  IF r.dry \/ r.wrote = {} THEN [r EXCEPT !.pc = "off"]
  ELSE [r EXCEPT !.pc = "read", !.at = 1, !.diags = {}, !.wrote = {}]

(* Mutant: the diagnostics of all passes are told.                         *)
EndPass_AllDiagnostics(r) ==
  IF r.dry \/ r.wrote = {} \/ r.pass = WorkspacePasses THEN [r EXCEPT !.pc = "off"]
  ELSE [r EXCEPT !.pc = "read", !.at = 1, !.pass = @ + 1, !.wrote = {}]

(* Mutant: a pass is done with when its last file was not written.         *)
EndPass_LastFile(r) ==
  IF r.dry \/ f0 \notin r.wrote \/ r.pass = WorkspacePasses THEN [r EXCEPT !.pc = "off"]
  ELSE [r EXCEPT !.pc = "read", !.at = 1, !.pass = @ + 1, !.diags = {}, !.wrote = {}]

(* The loop of Fix, after a pass.                                          *)
EndPass(r) ==
  IF r.dry \/ r.wrote = {} \/ r.pass = WorkspacePasses THEN [r EXCEPT !.pc = "off"]
  ELSE [r EXCEPT !.pc = "read", !.at = 1, !.pass = @ + 1, !.diags = {}, !.wrote = {}]

(* The loop of fixOnce: one file is done, with its diagnostics before and  *)
(* after.                                                                  *)
NextFile(r, before, after) ==
  LET s == [r EXCEPT !.text = NoText, !.new = NoText, !.before = {},
                     !.diags = @ \cup after,
                     !.failures = IF r.pass = 1 THEN @ \cup before ELSE @]
  IN IF r.at < Len(r.order) THEN [s EXCEPT !.pc = "read", !.at = @ + 1] ELSE EndPass(s)

Read ==
  /\ run.pc = "read"
  /\ run' = [run EXCEPT !.pc = "fix", !.text = disk[f0]]
  /\ UNCHANGED <<net, disk, author, lost, runs, saves, troubles>>

(* The file is not read, or its front matter is refused.                   *)
ReadFails ==
  /\ run.pc = "read"
  /\ troubles < MaxTroubles
  /\ troubles' = troubles + 1
  /\ run' = [NextFile(run, {}, {}) EXCEPT !.unread = TRUE]
  /\ UNCHANGED <<net, disk, author, lost, runs, saves>>

(* The check before, and the rules.                                        *)
Fix ==
  LET new == Fixed(f0, run.text, disk)
  IN /\ run.pc = "fix"
     /\ run' = [run EXCEPT !.pc = IF new # run.text /\ ~run.dry THEN "write" ELSE "check",
                           !.new = new,
                           !.before = CheckFile(f0, run.text, disk)]
     /\ UNCHANGED <<net, disk, author, lost, runs, saves, troubles>>

(* atomicWriteFile: the rename at its end.                                 *)
Write ==
  /\ run.pc = "write"
  /\ disk' = [disk EXCEPT ![f0] = run.new]
  /\ run' = [run EXCEPT !.pc = "check", !.wrote = @ \cup {f0}]
  /\ lost' = IF disk[f0].own # run.text.own THEN lost \cup {f0} ELSE lost
  /\ UNCHANGED <<net, author, runs, saves, troubles>>

WriteFails ==
  /\ run.pc = "write"
  /\ troubles < MaxTroubles
  /\ troubles' = troubles + 1
  /\ run' = [NextFile(run, run.before, run.before) EXCEPT !.unwritten = TRUE]
  /\ UNCHANGED <<net, disk, author, lost, runs, saves>>

(* The check of what the file should now hold.                             *)
Recheck ==
  /\ run.pc = "check"
  /\ run' = NextFile(run, run.before, CheckFile(f0, run.new, disk))
  /\ UNCHANGED <<net, disk, author, lost, runs, saves, troubles>>

-----------------------------------------------------------------------------
(* The world.                                                              *)

(* Someone saves a file whose own text they have written.                  *)
Save(f, own) ==
  /\ saves < MaxSaves
  /\ saves' = saves + 1
  /\ disk' = [disk EXCEPT ![f].own = own]
  /\ author' = [author EXCEPT ![f] = own]
  /\ lost' = lost \ {f}
  /\ run' = [run EXCEPT !.saved = TRUE]
  /\ UNCHANGED <<net, runs, troubles>>

(* The process dies: a file is as it was or as it was to be.               *)
Crash ==
  /\ run.pc # "off"
  /\ troubles < MaxTroubles
  /\ troubles' = troubles + 1
  /\ run' = NoRun(disk)
  /\ UNCHANGED <<net, disk, author, lost, runs, saves>>

Step == Read \/ Fix \/ Write \/ Recheck

Next ==
  \/ Start \/ Step
  \/ ReadFails \/ WriteFails
  \/ \E f \in File : \E own \in Own[f] : Save(f, own)
  \/ Crash

Spec == Init /\ [][Next]_vars /\ WF_vars(Step)

-----------------------------------------------------------------------------
(* Properties.                                                             *)

TypeOK ==
  /\ net \in Nets
  /\ DOMAIN disk = File
  /\ \A f \in File : IsText(net, f, disk[f])
  /\ author \in [File -> SUBSET Issue]
  /\ lost \subseteq File
  /\ runs \in 0..MaxRuns
  /\ saves \in 0..MaxSaves
  /\ troubles \in 0..MaxTroubles
  /\ run \in [pc : {"off", "read", "fix", "write", "check"}, dry : BOOLEAN,
              order : {<<>>, Paths, DependencyOrder[net]},
              pass : 0..WorkspacePasses, at : 1..Len(Paths),
              text : {run.text}, new : {run.new}, input : {run.input},
              before : SUBSET Diagnostics, diags : SUBSET Diagnostics,
              failures : SUBSET Diagnostics, wrote : SUBSET Given,
              saved : BOOLEAN, unread : BOOLEAN, unwritten : BOOLEAN]
  /\ run.pc \in {"fix", "write", "check"} => IsText(net, f0, run.text)
  /\ run.pc \in {"write", "check"} => IsText(net, f0, run.new)
  /\ \A f \in File : IsText(net, f, run.input[f])

(* The run has ended, and nobody saved a file and none was unreadable      *)
(* while it went on.                                                       *)
Ended ==
  /\ run.pc = "off" /\ run.pass > 0 /\ ~run.dry
  /\ ~run.saved /\ ~run.unread

(* The rules make all they can of each own text in one go.                 *)
RulesSettle ==
  \A f \in Given :
    LET own == FixedOwn[run.input[f].own] IN FixedOwn[own] = own

(* The diagnostics a run tells are those of the tree it leaves, even when  *)
(* writes failed: a file is checked against neighbours that are not        *)
(* written any more after its check.                                       *)
ReportIsTheTree ==
  Ended /\ run.wrote = {} => run.diags = CheckTree(disk)

(* The files to fix whose sections those of f copy as they are on disk:    *)
(* catalogs in a file that is expanded, and whatever is extracted from.    *)
Late(n, f) ==
  LET used == {s \in Includes(n, f) : ~Expansion[n][f][s].broken}
      files == UNION {Expansion[n][f][s].files : s \in used}
      leaves == UNION {Expansion[n][f][s].leaves : s \in used}
  IN {x \in Given : \/ x \in files /\ Catalogs(n, x) # {}
                    \/ n.sections[x] # {} /\ \E t \in leaves : t.target = x}

(* Such copies stand at most k behind one another: not in a cycle.  A      *)
(* constant, evaluated once.                                               *)
Depths == [n \in Nets |-> {k \in 0..WorkspacePasses :
  \E rank \in [File -> 0..k] :
    \A f \in Given : \A x \in Late(n, f) : rank[x] < rank[f]}]

(* Once Fix returns, fixing any file again changes nothing: all sections   *)
(* are those of the final tree, if the last pass wrote nothing or sections *)
(* copied as they were do not stand too deep for the passes.               *)
NothingLeftToFix ==
  /\ Ended /\ ~run.unwritten
  /\ \/ run.wrote = {}
     \/ RulesSettle /\ \E k \in Depths[net] : k + 3 <= WorkspacePasses
  => \A f \in Given : Fixed(f, disk[f], disk) = disk[f]

(* That no cycle keeps a run from it: index.go and the comment of Fix say  *)
(* that its passes converge what the order cannot.                         *)
CyclesConverge ==
  Ended /\ ~run.unwritten /\ RulesSettle
    => \A f \in Given : Fixed(f, disk[f], disk) = disk[f]

(* Includes and builds have no cycle.                                      *)
Acyclic ==
  \E rank \in [File -> 1..Cardinality(File)] :
    \A f \in Given : \A g \in Dependencies(net, f) : rank[g] < rank[f]

(* The files are fixed in dependency order, and it sees all that makes     *)
(* them copy from each other: there is no cycle, no file is included       *)
(* through one that is not fixed, and the rules leave front matter alone,  *)
(* which catalogs copy.                                                    *)
InOrder ==
  /\ run.order = DependencyOrder[net]
  /\ Acyclic
  /\ \A f \in File \ Given : Includes(net, f) = {}
  /\ \A f \in Given :
       LET own == run.input[f].own IN FixedOwn[own] \cap Matter = own \cap Matter

(* An undisturbed run takes at most three passes, however deep includes    *)
(* are expanded, and one more for each time that sections copied as they   *)
(* were stand behind one another; and two when the order is good.          *)
SettlesSoon ==
  Ended /\ ~run.unwritten /\ RulesSettle =>
    /\ \A k \in Depths[net] : run.pass <= k + 3
    /\ InOrder => run.pass <= 2

(* What becomes of an own text in r runs, each of which fixes it once in   *)
(* each pass.                                                              *)
Tidied == [own \in UNION {Own[f] : f \in File} |->
  LET times[n \in 0..MaxRuns * WorkspacePasses] ==
        IF n = 0 THEN own ELSE FixedOwn[times[n - 1]]
  IN  [r \in 0..MaxRuns |-> {times[n] : n \in 0..r * WorkspacePasses}]]

(* What people wrote is only ever tidied, at most once by each pass and    *)
(* outside foreign regions, and never lost, but for a save between the     *)
(* read of a file and its write.                                           *)
OnlyRacedSavesAreLost ==
  \A f \in File \ lost :
    /\ disk[f].own \in Tidied[author[f]][runs]
    /\ disk[f].own \cap Foreign = author[f] \cap Foreign

(* Failures counts what was wrong with the tree as the run found it.       *)
FailuresAreOfTheInput ==
  Ended => run.failures = CheckTree(run.input)

(* A run ends, even if the rules undo each other.                          *)
Ends == run.pc # "off" ~> run.pc = "off"
=============================================================================
