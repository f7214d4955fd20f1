------------------------------ MODULE BuildPass ------------------------------
(***************************************************************************)
(* The build pass of mdsmith fix: each <?build?> target is judged against  *)
(* the build cache, a stale one runs its recipe in a staging directory and *)
(* commits the outputs file by file, and the cache is saved at the end.    *)
(* One target at a time, or several at once (--build-jobs), while people   *)
(* edit the files; the process may be killed at any moment.                *)
(*                                                                         *)
(* A recipe is a function of the contents it reads, and a hash is the      *)
(* content it is the hash of.  The configuration, with the command of each *)
(* recipe, is constant.                                                    *)
(***************************************************************************)
EXTENDS Naturals, FiniteSets

CONSTANTS
  Target,    \* the build directives
  File,      \* the files they read and write
  Input,     \* the declared inputs of each target, resolved
  Output,    \* its declared outputs
  Line,      \* the place of each target in the source order
  Content,   \* contents of a file
  Make(_,_), \* what a target's recipe makes of the contents of its inputs
  Torn,      \* the content of a file half written
  Written,   \* what people write to each file; None removes it
  Flags,     \* the flags in use: the value of --build-jobs, with one or none of
             \* --build-force, --build-no-cache and --build-verify
  MaxEdits,  \* bound on the edits
  None       \* no content, no entry

ASSUME ConstantsAssumption ==
  /\ Input \in [Target -> SUBSET File]
  /\ Output \in [Target -> SUBSET File]
  /\ Line \in [Target -> Nat]
  /\ Written \in [File -> SUBSET (Content \cup {None})]
  /\ Flags \subseteq (Nat \ {0}) \X {"none", "force", "no-cache", "verify"}
  /\ MaxEdits \in Nat
  /\ Torn \in Content
  /\ None \notin Content

(* DetectOutputOverlap has refused anything else.                          *)
ASSUME DisjointAssumption ==
  \A t, u \in Target : t # u => Output[t] \cap Output[u] = {}

ASSUME MakeAssumption ==
  \A t \in Target : \A ins \in [Input[t] -> Content] : Make(t, ins) \in Content

VARIABLES
  disk,    \* the files
  saved,   \* the build cache on disk
  pass,    \* the pass under way
  job,     \* where each target stands in it
  edits,   \* the number of edits so far
  calm     \* history: since the last pass began it has ended, nothing was edited,
           \* nothing failed, and it ran one job at a time

vars == <<disk, saved, pass, job, edits, calm>>

Ins(t) == [f \in Input[t] |-> disk[f]]
Outs(t) == [f \in Output[t] |-> disk[f]]

Contents(F) == [F -> Content \cup {None}]

EntryOf(t) ==
  [id : Contents(Input[t]),     \* ActionID
   out : Contents(Output[t]),
   unstable : BOOLEAN,  \* the two runs of --build-verify differ
   edited : BOOLEAN,    \* history: people changed an input or output meanwhile
   crossed : BOOLEAN]   \* history: another target changed an input meanwhile

ASSUME EntryAssumption == \A t \in Target : None \notin EntryOf(t)

JobRec(t) ==
  [pc : {"new", "judged", "run", "commit", "copy", "record", "done"},
   verdict : {"error", "fresh", "stale"},
   got : Contents(Input[t]),    \* what the recipe read
   todo : SUBSET Output[t],     \* outputs left to commit
   at : Output[t] \cup {None},  \* the output being copied
   again : BOOLEAN,             \* the second run of --build-verify
   first : Contents(Output[t]), \* the outputs of the first
   unstable : BOOLEAN,
   rebuilt : BOOLEAN,
   edited : BOOLEAN,            \* history: as in an entry, since the run began
   crossed : BOOLEAN]

NewJob(t) ==
  [pc |-> "new", verdict |-> "error",
   got |-> [f \in Input[t] |-> None], todo |-> {}, at |-> None, again |-> FALSE,
   first |-> [f \in Output[t] |-> None], unstable |-> FALSE,
   rebuilt |-> FALSE, edited |-> FALSE, crossed |-> FALSE]

NoJobs == [t \in Target |-> NewJob(t)]

NoCache == [t \in Target |-> None]

NoPass == [on |-> FALSE, jobs |-> 1, option |-> "none", cache |-> NoCache]

Init ==
  /\ disk \in [File -> UNION {Written[f] : f \in File}]
  /\ \A f \in File : disk[f] \in Written[f]
  /\ saved = NoCache
  /\ pass = NoPass
  /\ job = NoJobs
  /\ edits = 0
  /\ calm = FALSE

-----------------------------------------------------------------------------
(* Staleness.                                                              *)

Missing(F) == \E f \in F : disk[f] = None

(* Mutant: the content of the outputs is not compared.                     *)
FreshBy_OutputsExist(cache, t) ==
  /\ ~Missing(Output[t])
  /\ cache[t] # None
  /\ cache[t].id = Ins(t)

(* CheckStaleness, once the inputs have resolved.                          *)
FreshBy(cache, t) ==
  /\ ~Missing(Output[t])
  /\ cache[t] # None
  /\ cache[t].id = Ins(t)
  /\ cache[t].out = Outs(t)

Verdict(t) ==
  IF Missing(Input[t]) THEN "error"
  ELSE IF pass.option \notin {"force", "no-cache"} /\ FreshBy(pass.cache, t)
  THEN "fresh" ELSE "stale"

-----------------------------------------------------------------------------
(* The pass.                                                               *)

StartPass(n, option) ==
  /\ ~pass.on
  /\ pass' = [on |-> TRUE, jobs |-> n, option |-> option,
              cache |-> IF option = "no-cache" THEN NoCache ELSE saved]
  /\ job' = NoJobs
  /\ calm' = (n = 1 /\ option # "no-cache")
  /\ UNCHANGED <<disk, saved, edits>>

Before(t) == {u \in Target : Line[u] < Line[t]}

Running == {t \in Target : job[t].pc \notin {"new", "judged", "done"}}

(* One job at a time, a target is judged when the one before it is done;   *)
(* otherwise all are judged before any runs.                               *)
Judge(t) ==
  /\ pass.on
  /\ job[t].pc = "new"
  /\ \A u \in Before(t) :
       job[u].pc \in IF pass.jobs = 1 THEN {"done"} ELSE {"judged"}
  /\ job' = [job EXCEPT ![t] = [job[t] EXCEPT !.pc = "judged", !.verdict = Verdict(t)]]
  /\ UNCHANGED <<disk, saved, pass, edits, calm>>

Done(t, rebuilt) ==
  [job EXCEPT ![t] = [NewJob(t) EXCEPT !.pc = "done", !.rebuilt = rebuilt]]

Fails(t) == job' = Done(t, FALSE) /\ calm' = FALSE

(* The inputs do not resolve, now or when the target was judged.           *)
Unresolved(t) ==
  \/ job[t].verdict = "error"
  \/ job[t].verdict = "stale" /\ pass.option # "no-cache" /\ Missing(Input[t])

(* decideAndRun, in a worker.  The workers start in order.                 *)
Begin(t) ==
  /\ job[t].pc = "judged"
  /\ pass.jobs > 1 => /\ \A u \in Target : job[u].pc # "new"
                      /\ \A u \in Before(t) : job[u].pc # "judged"
                      /\ Cardinality(Running) < pass.jobs
  /\ IF Unresolved(t) THEN Fails(t)
     ELSE /\ job' = IF job[t].verdict = "fresh" THEN Done(t, FALSE)
                    ELSE [job EXCEPT ![t] = [job[t] EXCEPT !.pc = "run"]]
          /\ UNCHANGED calm
  /\ UNCHANGED <<disk, saved, pass, edits>>

(* A run of the recipe that fails: a second run only marks the target.     *)
RunFails(t) ==
  IF job[t].again
  THEN /\ job' = [job EXCEPT ![t] = [job[t] EXCEPT !.pc = "record", !.unstable = TRUE]]
       /\ calm' = FALSE
  ELSE Fails(t)

(* The recipe reads its inputs and writes the staging directory; or it     *)
(* exits with an error, hangs until the timeout, or leaves out an output.  *)
RunRecipe(t) ==
  /\ job[t].pc = "run"
  /\ \/ /\ ~Missing(Input[t])
        /\ job' = [job EXCEPT ![t] = [job[t] EXCEPT !.pc = "commit",
                                    !.got = Ins(t), !.todo = Output[t]]]
        /\ UNCHANGED calm
     \/ RunFails(t)
  /\ UNCHANGED <<disk, saved, pass, edits>>

Staged(t) == Make(t, job[t].got)

(* A changed file is noted in every target whose run is under way.         *)
Crossed(o, jobs) ==
  [u \in Target |->
    [jobs[u] EXCEPT !.crossed = @ \/ (u \in Running /\ o \in Input[u])]]

(* Mutant: an output counts as committed before it is copied.              *)
Commit_TooEarly(t) ==
  /\ job[t].pc = "commit"
  /\ \E o \in job[t].todo :
       \/ /\ disk' = [disk EXCEPT ![o] = Staged(t)]
          /\ job' = Crossed(o, [job EXCEPT ![t] = [job[t] EXCEPT !.todo = @ \ {o}]])
          /\ UNCHANGED calm
       \/ /\ disk' = [disk EXCEPT ![o] = Torn]
          /\ job' = Crossed(o, [job EXCEPT ![t] = [job[t] EXCEPT !.pc = "copy",
                                                    !.at = o, !.todo = @ \ {o}]])
          /\ UNCHANGED calm
       \/ /\ RunFails(t)
          /\ UNCHANGED disk
  /\ UNCHANGED <<saved, pass, edits>>

(* One output is renamed into place.  When the rename fails, its bytes are *)
(* copied over what was there.                                             *)
Commit(t) ==
  /\ job[t].pc = "commit"
  /\ \E o \in job[t].todo :
       \/ /\ disk' = [disk EXCEPT ![o] = Staged(t)]
          /\ job' = Crossed(o, [job EXCEPT ![t] = [job[t] EXCEPT !.todo = @ \ {o}]])
          /\ UNCHANGED calm
       \/ /\ disk' = [disk EXCEPT ![o] = Torn]
          /\ job' = Crossed(o, [job EXCEPT ![t] = [job[t] EXCEPT !.pc = "copy",
                                                    !.at = o]])
          /\ UNCHANGED calm
       \/ /\ RunFails(t)
          /\ UNCHANGED disk
  /\ UNCHANGED <<saved, pass, edits>>

Copy(t) ==
  LET o == job[t].at IN
  /\ job[t].pc = "copy"
  /\ \/ /\ disk' = [disk EXCEPT ![o] = Staged(t)]
        /\ job' = Crossed(o, [job EXCEPT ![t] = [job[t] EXCEPT !.pc = "commit",
                                                    !.todo = @ \ {o}]])
        /\ UNCHANGED calm
     \/ /\ RunFails(t)
        /\ UNCHANGED disk
  /\ UNCHANGED <<saved, pass, edits>>

(* All outputs are in place: the second run of --build-verify, or its      *)
(* comparison with the first.                                              *)
Committed(t) ==
  /\ job[t].pc = "commit"
  /\ job[t].todo = {}
  /\ job' = [job EXCEPT ![t] =
       IF pass.option = "verify" /\ ~job[t].again
       THEN [job[t] EXCEPT !.pc = "run", !.again = TRUE, !.first = Outs(t)]
       ELSE [job[t] EXCEPT !.pc = "record",
                           !.unstable = job[t].again /\ Outs(t) # job[t].first]]
  /\ UNCHANGED <<disk, saved, pass, edits, calm>>

(* Mutant: an entry is added behind the one it should replace.             *)
Record_AddsBehind(t) ==
  LET entry == [id |-> Ins(t), out |-> Outs(t),
                unstable |-> job[t].unstable, edited |-> job[t].edited,
                crossed |-> job[t].crossed]
      failed == Missing(Input[t]) \/ Missing(Output[t]) IN
  /\ job[t].pc = "record"
  /\ IF pass.option # "no-cache" /\ failed
     THEN Fails(t) /\ UNCHANGED pass
     ELSE /\ pass' = IF pass.option = "no-cache" \/ pass.cache[t] # None THEN pass
                     ELSE [pass EXCEPT !.cache = [pass.cache EXCEPT ![t] = entry]]
          /\ job' = Done(t, TRUE)
          /\ UNCHANGED calm
  /\ UNCHANGED <<disk, saved, edits>>

(* RecordBuild hashes the inputs and outputs again, and the entry goes into *)
(* the cache in memory.  (The workers hand theirs over when all are done,  *)
(* but nothing reads the cache in between.)                                *)
Record(t) ==
  LET entry == [id |-> Ins(t), out |-> Outs(t),
                unstable |-> job[t].unstable, edited |-> job[t].edited,
                crossed |-> job[t].crossed]
      failed == Missing(Input[t]) \/ Missing(Output[t]) IN
  /\ job[t].pc = "record"
  /\ IF pass.option # "no-cache" /\ failed
     THEN Fails(t) /\ UNCHANGED pass
     ELSE /\ pass' = IF pass.option = "no-cache" THEN pass
                     ELSE [pass EXCEPT !.cache = [pass.cache EXCEPT ![t] = entry]]
          /\ job' = Done(t, TRUE)
          /\ UNCHANGED calm
  /\ UNCHANGED <<disk, saved, edits>>

(* Cache.Save writes a temporary file and renames it into place, or fails. *)
Save ==
  \/ saved' = pass.cache /\ UNCHANGED calm
  \/ calm' = FALSE /\ UNCHANGED saved

(* The cache is saved when some target was rebuilt.                        *)
EndPass ==
  /\ pass.on
  /\ \A t \in Target : job[t].pc = "done"
  /\ IF pass.option # "no-cache" /\ \E t \in Target : job[t].rebuilt
     THEN Save ELSE UNCHANGED <<saved, calm>>
  /\ pass' = NoPass
  /\ job' = NoJobs
  /\ UNCHANGED <<disk, edits>>

-----------------------------------------------------------------------------
(* The process is killed.  Its staging directories are never looked at.    *)
Crash ==
  /\ pass.on
  /\ pass' = NoPass
  /\ job' = NoJobs
  /\ calm' = FALSE
  /\ UNCHANGED <<disk, saved, edits>>

(* People edit, restore or remove a file, an output included.              *)
Edit(f) ==
  /\ edits < MaxEdits
  /\ \E c \in Written[f] \ {disk[f]} : disk' = [disk EXCEPT ![f] = c]
  /\ job' = [u \in Target |-> [job[u] EXCEPT
       !.edited = @ \/ (u \in Running /\ f \in Input[u] \cup Output[u])]]
  /\ edits' = edits + 1
  /\ calm' = FALSE
  /\ UNCHANGED <<saved, pass>>

Step(t) ==
  \/ Judge(t) \/ Begin(t) \/ RunRecipe(t) \/ Commit(t) \/ Copy(t)
  \/ Committed(t) \/ Record(t)

Next ==
  \/ \E flags \in Flags : StartPass(flags[1], flags[2])
  \/ \E t \in Target : Step(t)
  \/ EndPass \/ Crash
  \/ \E f \in File : Edit(f)

Spec == Init /\ [][Next]_vars

-----------------------------------------------------------------------------
(* The variables hold what their declarations say.                         *)
CacheOK(cache) == \A t \in Target : cache[t] # None => cache[t] \in EntryOf(t)

TypeOK ==
  /\ disk \in Contents(File)
  /\ DOMAIN saved = Target /\ CacheOK(saved)
  /\ DOMAIN pass = {"on", "jobs", "option", "cache"}
  /\ pass.on \in BOOLEAN
  /\ <<pass.jobs, pass.option>> \in Flags \cup {<<1, "none">>}
  /\ DOMAIN pass.cache = Target /\ CacheOK(pass.cache)
  /\ DOMAIN job = Target
  /\ \A t \in Target : /\ job[t] \in JobRec(t)
                       /\ job[t].pc = "copy" => job[t].at \in job[t].todo
  /\ edits \in 0..MaxEdits
  /\ calm \in BOOLEAN

UpToDate(t) ==
  \A o \in Output[t] : disk[o] = Make(t, Ins(t))

(* Nothing changed under the recipe or its record, and its two runs agree. *)
Undisturbed(entry) == ~entry.edited /\ ~entry.crossed /\ ~entry.unstable

(* A target that the cache on disk calls fresh is up to date with its      *)
(* inputs as they are, through partial commits, failures, crashes and      *)
(* edits, unless the run that its entry records was disturbed.             *)
OnlyDisturbedLie ==
  \A t \in Target :
    FreshBy(saved, t) /\ Undisturbed(saved[t]) => UpToDate(t)

(* The producers of a target's inputs, and theirs, come before it.         *)
InOrder(t) == \A u \in Target :
  Output[u] \cap Input[t] # {} => u \in Before(t)

(* After a pass that ran one job at a time, in which nothing failed and    *)
(* during which nothing was edited, every target whose inputs come from    *)
(* earlier ones is fresh: the next pass skips it.                          *)
CleanPassIsFresh ==
  calm /\ ~pass.on =>
    \A t \in Target : InOrder(t) => FreshBy(saved, t)

(* The claim of docs/guides/directives/build.md that disjoint outputs make *)
(* all pairs of targets safe to run concurrently: a target that is fresh,  *)
(* nobody having edited its files during its run, is up to date.           *)
PairsAreSafe ==
  \A t \in Target :
    /\ FreshBy(saved, t)
    /\ ~saved[t].edited /\ ~saved[t].unstable
    => UpToDate(t)
=============================================================================
