------------------------------ MODULE EngineRun ------------------------------
(***************************************************************************)
(* engine.Runner.Run: workers take files off one counter; each reads its    *)
(* file into a buffer of a pool that all share, resolves the file's        *)
(* configuration through a cache all share and one of its own, and runs    *)
(* the enabled rules, one after another or in goroutines, over the bytes   *)
(* in that buffer.  A rule that panics costs its file's or its own         *)
(* diagnostics.  The outcomes are merged when every worker is gone.         *)
(*                                                                         *)
(* Every access to something shared is a step.  A source is the file it    *)
(* was read from; what a rule finds depends on the source alone, and on a  *)
(* target that several files read through the run cache.                   *)
(***************************************************************************)
EXTENDS Naturals, Sequences, FiniteSets

CONSTANTS
  File,       \* files
  Ignored,    \* those the configuration ignores
  Unreadable, \* those that cannot be opened or read
  TooLarge,   \* those read in part and found too large
  BadFront,   \* those with a front matter that does not parse
  Protected,  \* those whose first line lies in a foreign region
  Fronted,    \* those with a front matter
  Kind,       \* sets of kinds, None among them
  KindOf,     \* the kinds of a file
  Overridden, \* the files an override matches
  On,         \* the rules that kinds and overrides enable
  Rule,       \* rules that run on files
  Misset,     \* those whose settings are refused
  Node,       \* those driven by the shared walk of the tree
  Repo,       \* those that report on the repository
  Sharing,    \* those that read the shared target
  Finds,      \* the files each rule finds something in
  PanicsOn,   \* the files each rule panics on
  Run,        \* the calls of Run
  Procs,      \* GOMAXPROCS
  Worker,     \* numbers of workers
  Buffer,     \* source buffers (a bound)
  None        \* no file, no rule, no buffer, no kinds

Key == Kind \X BOOLEAN

ASSUME ConstantsAssumption ==
  /\ Ignored \cup Unreadable \cup TooLarge \cup BadFront \subseteq File
  /\ Protected \cup Fronted \cup Overridden \subseteq File
  /\ None \in Kind
  /\ KindOf \in [File -> Kind]
  /\ On \in [Key -> SUBSET Rule]
  /\ Misset \cup Node \cup Repo \cup Sharing \subseteq Rule
  /\ Finds \in [Rule -> SUBSET File]
  /\ PanicsOn \in [Rule -> SUBSET File]
  /\ Procs \in Nat \ {0}
  /\ Worker \subseteq Nat \ {0}
  /\ None \notin File \cup Rule \cup Buffer

(* The rule configuration of a path "" without a front matter.              *)
Global == <<None, FALSE>>

filterIgnored(paths) == SelectSeq(paths, LAMBDA f : f \notin Ignored)

ResolveWorkers(concurrency, n) ==
  LET w == IF concurrency = 0 THEN Procs ELSE concurrency
  IN  IF w > n THEN n ELSE w

(* Selecting from files gives files, and there is a worker for each that a  *)
(* call starts.                                                            *)
ASSUME RunAssumption ==
  /\ Run \subseteq
       [paths : Seq(File), concurrency : Nat, intra : Nat, bad : BOOLEAN]
  /\ \A call \in Run :
       LET work == filterIgnored(call.paths)
       IN  /\ work \in Seq(File)
           /\ 1..ResolveWorkers(call.concurrency, Len(work)) \subseteq Worker

VARIABLES
  run,      \* the call: its paths, its two settings, whether the target is bad
  next,     \* the counter
  worker,   \* where each worker stands
  free,     \* how often each buffer is in the pool
  content,  \* the file whose bytes each buffer holds
  eff,      \* effCache: the rules enabled under each signature
  conf,     \* confCache of each worker: what it configured for a signature
  target,   \* the run cache's entry for the shared target
  outcome,  \* the outcome of each file
  result    \* the merged diagnostics, each with the index of its file

vars == <<run, next, worker, free, content, eff, conf, target, outcome, result>>

(* A diagnostic: where it is reported (None: the repository), its rule     *)
(* (None: a panic) and the buffer its SourceLines are views of (None: it    *)
(* has none).  A finding is on line 2 of its file, a panic and a finding    *)
(* about the repository on line 1, before lines are adjusted.              *)
Diagnostic ==
  [file : File \cup {None}, line : 1..3, rule : Rule \cup {None},
   lines : Buffer \cup {None}]

Outcome == [diags : SUBSET Diagnostic, errs : SUBSET (Rule \cup {None})]

ASSUME OutcomeAssumption == None \notin Outcome

Configured == [rules : SUBSET Rule, errs : SUBSET Rule]

WorkerRec ==
  [pc : {"take", "draw", "read", "failed", "load", "store", "configure",
         "check", "return", "panic", "gone"},
   at : Nat,                      \* the index of its file in work
   buf : Buffer \cup {None},
   on : SUBSET Rule,              \* the effective configuration
   errs : SUBSET Rule,            \* configuration errors
   todo : SUBSET Rule,            \* rules to start
   busy : SUBSET Rule,            \* rules that run
   node : SUBSET Rule,            \* rules for the walk
   diags : SUBSET Diagnostic]

Resting == [pc |-> "take", at |-> 0, buf |-> None, on |-> {}, errs |-> {},
            todo |-> {}, busy |-> {}, node |-> {}, diags |-> {}]

Work == filterIgnored(run.paths)

resolveIntraFileWorkersFor(setting, procs, workers) ==
  LET share == procs \div (IF workers = 0 THEN 1 ELSE workers)
  IN  IF setting > 0 THEN setting ELSE IF share < 1 THEN 1 ELSE share

Workers == ResolveWorkers(run.concurrency, Len(Work))

IntraFileCap == resolveIntraFileWorkersFor(run.intra, Procs, Workers)

Init ==
  /\ run \in Run
  /\ next = 0
  /\ worker = [w \in Worker |->
                 IF w <= Workers THEN Resting ELSE [Resting EXCEPT !.pc = "gone"]]
  /\ free = [b \in Buffer |-> 0]
  /\ content = [b \in Buffer |-> None]
  /\ eff = [k \in Key |-> None]
  /\ conf = [w \in Worker |-> [k \in Key |-> None]]
  /\ target = "empty"
  /\ outcome = [i \in 1..Len(Work) |-> None]
  /\ result = None

-----------------------------------------------------------------------------
(* One file.                                                               *)

FileOf(w) == Work[worker[w].at]

EffectiveAllForKinds(f) == On[<<KindOf[f], f \in Overridden>>]

(* Mutant: a key of the kinds alone.                                       *)
EffectiveSignature_KindsOnly(f) == <<KindOf[f], FALSE>>

EffectiveSignature(f) == <<KindOf[f], f \in Overridden>>

Take(w) ==
  /\ worker[w].pc = "take"
  /\ next' = next + 1
  /\ worker' = [worker EXCEPT ![w] =
                  IF next < Len(Work)
                    THEN [Resting EXCEPT !.pc = "draw", !.at = next + 1]
                    ELSE [Resting EXCEPT !.pc = "gone"]]
  /\ UNCHANGED <<run, free, content, eff, conf, target, outcome, result>>

(* sync.Pool.Get returns any buffer of the pool, or a new one.  A buffer    *)
(* that is too small is replaced by a new one when the file is read into it: *)
(* that is taken for Get having returned the new one.                      *)
Fresh == {b \in Buffer : content[b] = None /\ free[b] = 0
                         /\ \A v \in Worker : worker[v].buf # b}

Draw(w, b) ==
  /\ worker[w].pc = "draw"
  /\ b \in Fresh \/ free[b] > 0
  /\ free' = [free EXCEPT ![b] = IF @ > 0 THEN @ - 1 ELSE 0]
  /\ worker' = [worker EXCEPT ![w].buf = b, ![w].pc = "read"]
  /\ UNCHANGED <<run, next, content, eff, conf, target, outcome, result>>

Read(w) ==
  /\ worker[w].pc = "read"
  /\ content' = [content EXCEPT ![worker[w].buf] =
                   IF FileOf(w) \in Unreadable THEN @ ELSE FileOf(w)]
  /\ worker' = [worker EXCEPT ![w].pc =
                  IF FileOf(w) \in Unreadable \cup TooLarge \cup BadFront
                    THEN "failed" ELSE "load"]
  /\ UNCHANGED <<run, next, free, eff, conf, target, outcome, result>>

(* Put and return: the worker's buffer is in the pool, its file has o.      *)
PutBack(w, o) ==
  /\ free' = [free EXCEPT ![worker[w].buf] = @ + 1]
  /\ outcome' = [outcome EXCEPT ![worker[w].at] = o]
  /\ worker' = [worker EXCEPT ![w] = Resting]

(* Mutant: an early return that the deferred release follows.              *)
Fail_Released(w) ==
  /\ worker[w].pc = "failed"
  /\ free' = [free EXCEPT ![worker[w].buf] = @ + 2]
  /\ outcome' = [outcome EXCEPT ![worker[w].at] = [diags |-> {}, errs |-> {None}]]
  /\ worker' = [worker EXCEPT ![w] = Resting]
  /\ UNCHANGED <<run, next, content, eff, conf, target, result>>

Fail(w) ==
  /\ worker[w].pc = "failed"
  /\ PutBack(w, [diags |-> {}, errs |-> {None}])
  /\ UNCHANGED <<run, next, content, eff, conf, target, result>>

LoadEffective(w) ==
  /\ worker[w].pc = "load"
  /\ LET hit == eff[EffectiveSignature(FileOf(w))]
     IN  worker' = [worker EXCEPT
           ![w].on = IF hit = None THEN EffectiveAllForKinds(FileOf(w)) ELSE hit,
           ![w].pc = IF hit = None THEN "store" ELSE "configure"]
  /\ UNCHANGED <<run, next, free, content, eff, conf, target, outcome, result>>

(* LoadOrStore: the first of two misses on one signature wins.             *)
StoreEffective(w) ==
  /\ worker[w].pc = "store"
  /\ LET k == EffectiveSignature(FileOf(w))
     IN  /\ eff' = [eff EXCEPT ![k] = IF @ = None THEN worker[w].on ELSE @]
         /\ worker' = [worker EXCEPT ![w].on = eff'[k], ![w].pc = "configure"]
  /\ UNCHANGED <<run, next, free, content, conf, target, outcome, result>>

ConfigureEnabledRules(on) == [rules |-> on \ Misset, errs |-> on \cap Misset]

Configure(w) ==
  /\ worker[w].pc = "configure"
  /\ LET k == EffectiveSignature(FileOf(w))
         c == IF conf[w][k] = None THEN ConfigureEnabledRules(worker[w].on)
                                   ELSE conf[w][k]
     IN  /\ conf' = [conf EXCEPT ![w][k] = c]
         /\ worker' = [worker EXCEPT ![w].pc = "check",
                                     ![w].errs = c.errs,
                                     ![w].todo = c.rules \ Node,
                                     ![w].node = c.rules \cap Node]
  /\ UNCHANGED <<run, next, free, content, eff, target, outcome, result>>

(* What a rule says of the bytes that are in buffer b now.                 *)
RuleDiags(r, w) ==
  LET f == FileOf(w)
  IN  IF content[worker[w].buf] \notin Finds[r] THEN {}
      ELSE {[file |-> IF r \in Repo THEN None ELSE f,
             line |-> IF r \in Repo THEN 1 ELSE 2, rule |-> r, lines |-> None]}

PanicDiagnostic(f) == [file |-> f, line |-> 1, rule |-> None, lines |-> None]

(* A rule that reads the target builds it when nobody has.  A build that    *)
(* panics leaves the entry done and empty: whoever reads it panics too.    *)
Panics(r, w) ==
  \/ content[worker[w].buf] \in PanicsOn[r]
  \/ r \in Sharing /\ (target = "poisoned" \/ (target = "empty" /\ run.bad))

(* With a cap of 1 the rules run on the worker itself.                     *)
Start(w, r) ==
  /\ worker[w].pc = "check"
  /\ r \in worker[w].todo
  /\ Cardinality(worker[w].busy) < IntraFileCap
  /\ worker' = [worker EXCEPT ![w].todo = @ \ {r}, ![w].busy = @ \cup {r}]
  /\ UNCHANGED <<run, next, free, content, eff, conf, target, outcome, result>>

(* Mutant: a panic keeps its place in the semaphore.                       *)
Finish_KeepsSlot(w, r) ==
  /\ r \in worker[w].busy
  /\ target' = IF r \in Sharing /\ target = "empty"
                 THEN IF run.bad THEN "poisoned" ELSE "built"
                 ELSE target
  /\ worker' = [worker EXCEPT
       ![w].busy = IF Panics(r, w) THEN @ ELSE @ \ {r},
       ![w].diags = @ \cup (IF Panics(r, w) THEN {PanicDiagnostic(FileOf(w))}
                            ELSE RuleDiags(r, w))]
  /\ UNCHANGED <<run, next, free, content, eff, conf, outcome, result>>

Finish(w, r) ==
  /\ r \in worker[w].busy
  /\ target' = IF r \in Sharing /\ target = "empty"
                 THEN IF run.bad THEN "poisoned" ELSE "built"
                 ELSE target
  /\ worker' = [worker EXCEPT
       ![w].busy = @ \ {r},
       ![w].pc = IF Panics(r, w) /\ IntraFileCap = 1 THEN "panic" ELSE @,
       ![w].diags = @ \cup (IF Panics(r, w) THEN {PanicDiagnostic(FileOf(w))}
                            ELSE RuleDiags(r, w))]
  /\ UNCHANGED <<run, next, free, content, eff, conf, outcome, result>>

Walk(w) ==
  /\ worker[w].pc = "check"
  /\ worker[w].todo = {} /\ worker[w].busy = {}
  /\ worker' = [worker EXCEPT
       ![w].pc = IF \E r \in worker[w].node : Panics(r, w) THEN "panic" ELSE "return",
       ![w].diags = @ \cup UNION {RuleDiags(r, w) : r \in worker[w].node}]
  /\ UNCHANGED <<run, next, free, content, eff, conf, target, outcome, result>>

FilterGeneratedDiags(diags, f) ==
  IF f \in Protected THEN {d \in diags : d.line # 1} ELSE diags

(* Mutant: adjusted by the rule and again by the checker.                  *)
AdjustDiagnostics_Twice(diags, f) ==
  {[d EXCEPT !.line = IF f \in Fronted THEN @ + 2 ELSE @] : d \in diags}

AdjustDiagnostics(diags, f) ==
  {[d EXCEPT !.line = IF f \in Fronted THEN @ + 1 ELSE @] : d \in diags}

PopulateSourceContext(diags, b) == {[d EXCEPT !.lines = b] : d \in diags}

Return(w) ==
  /\ worker[w].pc = "return"
  /\ LET f == FileOf(w)
         kept == FilterGeneratedDiags(worker[w].diags, f)
         shown == PopulateSourceContext(AdjustDiagnostics(kept, f), worker[w].buf)
     IN  PutBack(w, [diags |-> shown, errs |-> worker[w].errs])
  /\ UNCHANGED <<run, next, content, eff, conf, target, result>>

(* A panic that reaches lintFile costs the file all it had.                *)
Recover(w) ==
  /\ worker[w].pc = "panic"
  /\ PutBack(w, [diags |-> {PanicDiagnostic(FileOf(w))}, errs |-> {}])
  /\ UNCHANGED <<run, next, content, eff, conf, target, result>>

-----------------------------------------------------------------------------
(* The run.                                                                *)

anyRepoScopedEnabled == On[Global] \cap Repo # {}

Tuple(d) == <<d.file, d.line, d.rule>>

DedupeDiagnostics(found) ==
  {x \in found : \A y \in found : Tuple(y[2]) = Tuple(x[2]) => x[1] <= y[1]}

Merge ==
  /\ \A w \in Worker : worker[w].pc = "gone"
  /\ result = None
  /\ LET found == UNION {{<<i, d>> : d \in outcome[i].diags} : i \in DOMAIN outcome}
     IN  result' = IF anyRepoScopedEnabled THEN DedupeDiagnostics(found) ELSE found
  /\ UNCHANGED <<run, next, worker, free, content, eff, conf, target, outcome>>

Step(w) ==
  \/ Take(w)
  \/ \E b \in Buffer : Draw(w, b)
  \/ Read(w)
  \/ Fail(w)
  \/ LoadEffective(w)
  \/ StoreEffective(w)
  \/ Configure(w)
  \/ \E r \in Rule : Start(w, r) \/ Finish(w, r)
  \/ Walk(w)
  \/ Return(w)
  \/ Recover(w)

Next == Merge \/ \E w \in Worker : Step(w)

Spec == Init /\ [][Next]_vars

(* A goroutine that can go on does.                                        *)
FairSpec == Spec /\ WF_vars(Merge) /\ \A w \in Worker : WF_vars(Step(w))

-----------------------------------------------------------------------------
(* Properties.                                                             *)

TypeOK ==
  /\ run \in Run
  /\ next \in Nat
  /\ worker \in [Worker -> WorkerRec]
  /\ free \in [Buffer -> Nat]
  /\ content \in [Buffer -> File \cup {None}]
  /\ eff \in [Key -> (SUBSET Rule) \cup {None}]
  /\ conf \in [Worker -> [Key -> Configured \cup {None}]]
  /\ target \in {"empty", "built", "poisoned"}
  /\ outcome \in [1..Len(Work) -> Outcome \cup {None}]
  /\ result = None \/ result \subseteq (DOMAIN outcome) \X Diagnostic

(* A buffer that a worker reads from is in no pool and is no other          *)
(* worker's, and no buffer is in the pool twice, whichever way lintFile is  *)
(* left: an error, a panic of a rule, a return.                            *)
BufferOwned ==
  \A b \in Buffer :
    /\ free[b] <= 1
    /\ \A w \in Worker : worker[w].buf = b =>
         /\ free[b] = 0
         /\ \A v \in Worker \ {w} : worker[v].buf # b

(* What file f gives when it is linted alone, by rules that run cap at once *)
(* and a target that is or is not bad.                                     *)
LintedAlone(f, cap, bad) ==
  LET on == EffectiveAllForKinds(f)
      rules == on \ Misset
      down == {r \in rules : f \in PanicsOn[r] \/ (r \in Sharing /\ bad)}
      said == {r \in rules \ down : f \in Finds[r]}
  IN  IF f \in Unreadable \cup TooLarge \cup BadFront
        THEN [rules |-> {}, errs |-> {None}]
      ELSE IF down # {} /\ (cap = 1 \/ down \cap Node # {})
        THEN [rules |-> {None}, errs |-> {}]
      ELSE [rules |-> IF f \in Protected THEN said \ Repo
                      ELSE IF down # {} THEN said \cup {None} ELSE said,
            errs |-> on \cap Misset]

RulesOf(o) == [rules |-> {d.rule : d \in o.diags}, errs |-> o.errs]

(* Every file has one outcome when the run ends, and it is the one it would *)
(* have had alone: whichever worker took it, whatever that worker linted    *)
(* before, whatever others read meanwhile, whoever built the shared target  *)
(* first or stored the configuration both miss, and whether other files     *)
(* failed or panicked.                                                     *)
OutcomeIsItsOwn ==
  result # None =>
    \A i \in DOMAIN outcome :
      /\ outcome[i] # None
      /\ RulesOf(outcome[i]) = LintedAlone(Work[i], IntraFileCap, run.bad)
      /\ \A d \in outcome[i].diags : d.file \in {Work[i], None}

(* Run returns: no failure, panic or full semaphore keeps a worker from     *)
(* wg.Done.                                                                *)
RunEnds == <>(result # None)

(* "Diagnostics only carry copied strings and ints": the lines shown with a *)
(* diagnostic are lines of its file.                                       *)
SnippetsAreTrue ==
  result # None =>
    \A x \in result : x[2].lines # None => content[x[2].lines] = x[2].file

(* "DedupeDiagnostics collapses these duplicates": what is said about the   *)
(* repository is reported once.                                            *)
OncePerRepository ==
  result # None =>
    \A x, y \in result : x[2].rule \in Repo /\ y[2].rule = x[2].rule => x = y

(* "The value never changes observable results": each file has the outcome  *)
(* it has with one rule at a time.                                         *)
SettingsMakeNoDifference ==
  result # None =>
    \A i \in DOMAIN outcome : RulesOf(outcome[i]) = LintedAlone(Work[i], 1, run.bad)

=============================================================================
