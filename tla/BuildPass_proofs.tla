-------------------------- MODULE BuildPass_proofs --------------------------
(***************************************************************************)
(* What BuildPass keeps true for every set of targets, files and flags:    *)
(* its types, that only a disturbed run can leave a fresh target out of    *)
(* date, and that a clean pass leaves every target in order fresh.         *)
(***************************************************************************)
EXTENDS BuildPass, TLAPS

-----------------------------------------------------------------------------
(* The inductive invariant.                                                *)

(* An entry made by an undisturbed run pairs the outputs with the inputs   *)
(* they were made from.                                                    *)
EntryGood(t, entry) ==
  Undisturbed(entry) => \A o \in Output[t] : entry.out[o] = Make(t, entry.id)

CacheGood(cache) ==
  \A t \in Target : cache[t] # None => EntryGood(t, cache[t])

Committing(t) == job[t].pc \in {"commit", "copy"}

(* While nothing disturbs it, a job that commits has read the inputs as    *)
(* they are, and what it has committed is what it made of them; and a job  *)
(* about to record has made all of its outputs.                            *)
JobGood(t) ==
  ~job[t].edited /\ ~job[t].crossed =>
    /\ Committing(t) =>
         /\ job[t].got = Ins(t)
         /\ \A o \in Output[t] \ job[t].todo : disk[o] = Make(t, job[t].got)
    /\ job[t].pc = "record" /\ ~job[t].unstable =>
         \A o \in Output[t] : disk[o] = Make(t, Ins(t))

(* A recipe has found all of its inputs.                                   *)
GotAll(t) == Committing(t) => job[t].got \in [Input[t] -> Content]

IInv ==
  /\ TypeOK
  /\ CacheGood(saved)
  /\ CacheGood(pass.cache)
  /\ \A t \in Target : JobGood(t) /\ GotAll(t)

-----------------------------------------------------------------------------
(* The types of what the actions build.                                    *)

JobsOK(jobs) ==
  /\ DOMAIN jobs = Target
  /\ \A t \in Target : /\ jobs[t] \in JobRec(t)
                       /\ jobs[t].pc = "copy" => jobs[t].at \in jobs[t].todo

LEMMA FilesOf ==
  ASSUME NEW t \in Target
  PROVE  Input[t] \subseteq File /\ Output[t] \subseteq File
BY ConstantsAssumption

LEMMA ContentsType ==
  ASSUME TypeOK, NEW t \in Target
  PROVE  Ins(t) \in Contents(Input[t]) /\ Outs(t) \in Contents(Output[t])
BY FilesOf DEF TypeOK, Contents, Ins, Outs

LEMMA NewJobType ==
  ASSUME NEW t \in Target
  PROVE  NewJob(t) \in JobRec(t) /\ NewJob(t).pc = "new"
<1>1. /\ [f \in Input[t] |-> None] \in Contents(Input[t])
      /\ [f \in Output[t] |-> None] \in Contents(Output[t])
  BY DEF Contents
<1> QED BY <1>1 DEF NewJob, JobRec

LEMMA DoneType ==
  ASSUME NEW t \in Target, NEW b \in BOOLEAN
  PROVE  LET rec == [NewJob(t) EXCEPT !.pc = "done", !.rebuilt = b] IN
         rec \in JobRec(t) /\ rec.pc = "done"
BY NewJobType DEF JobRec

LEMMA NoJobsOK ==
  JobsOK(NoJobs) /\ \A t \in Target : NoJobs[t].pc = "new"
BY NewJobType DEF JobsOK, NoJobs

LEMMA NoCacheOK ==
  /\ DOMAIN NoCache = Target
  /\ CacheOK(NoCache)
  /\ CacheGood(NoCache)
BY DEF NoCache, CacheOK, CacheGood

(* A job replaced by another.                                              *)
LEMMA ReplaceOK ==
  ASSUME NEW jobs, JobsOK(jobs), NEW t \in Target, NEW rec \in JobRec(t),
         rec.pc = "copy" => rec.at \in rec.todo,
         NEW new, DOMAIN new = Target, new[t] = rec,
         \A u \in Target \ {t} : new[u] = jobs[u]
  PROVE  JobsOK(new)
BY DEF JobsOK

(* A job with the note that a file of it changed.                          *)
Noted(o, u, rec) ==
  [rec EXCEPT !.crossed = rec.crossed \/ (u \in Running /\ o \in Input[u])]

LEMMA NotedType ==
  ASSUME NEW o, NEW u \in Target, NEW rec \in JobRec(u),
         NEW new, new = Noted(o, u, rec)
  PROVE  /\ new \in JobRec(u)
         /\ new.pc = rec.pc /\ new.got = rec.got /\ new.todo = rec.todo
         /\ new.at = rec.at /\ new.unstable = rec.unstable
         /\ new.edited = rec.edited
         /\ new.crossed = (rec.crossed \/ (u \in Running /\ o \in Input[u]))
BY DEF Noted, JobRec

-----------------------------------------------------------------------------
(* What a step does to the jobs it is not about.                           *)

LEMMA JobsOfType == TypeOK => JobsOK(job)
BY DEF TypeOK, JobsOK

(* A job whose files change only under a note of it stays good.            *)
LEMMA OtherJob ==
  ASSUME NEW t \in Target, JobGood(t), GotAll(t),
         job'[t].pc = job[t].pc, job'[t].got = job[t].got,
         job'[t].todo = job[t].todo, job'[t].unstable = job[t].unstable,
         job[t].edited => job'[t].edited, job[t].crossed => job'[t].crossed,
         t \in Running /\ ~job'[t].edited /\ ~job'[t].crossed =>
           \A f \in Input[t] \cup Output[t] : disk'[f] = disk[f]
  PROVE  JobGood(t)' /\ GotAll(t)'
<1>1. GotAll(t)'
  BY DEF GotAll, Committing
<1>2. ASSUME ~job'[t].edited, ~job'[t].crossed,
             job[t].pc \in {"commit", "copy", "record"}
      PROVE  /\ Committing(t)' =>
                  /\ job'[t].got = Ins(t)'
                  /\ \A o \in Output[t] \ job'[t].todo :
                       disk'[o] = Make(t, job'[t].got)
             /\ job'[t].pc = "record" /\ ~job'[t].unstable =>
                  \A o \in Output[t] : disk'[o] = Make(t, Ins(t)')
  <2>1. t \in Running
    BY <1>2 DEF Running
  <2>2. \A f \in Input[t] \cup Output[t] : disk'[f] = disk[f]
    BY <1>2, <2>1
  <2>3. Ins(t)' = Ins(t)
    BY <2>2 DEF Ins
  <2>4. /\ Committing(t) =>
             /\ job[t].got = Ins(t)
             /\ \A o \in Output[t] \ job[t].todo : disk[o] = Make(t, job[t].got)
        /\ job[t].pc = "record" /\ ~job[t].unstable =>
             \A o \in Output[t] : disk[o] = Make(t, Ins(t))
    BY <1>2 DEF JobGood
  <2> QED BY <2>2, <2>3, <2>4 DEF Committing
<1> QED BY <1>1, <1>2 DEF JobGood, Committing

(* A step that replaces a job and leaves the files alone.                  *)
LEMMA JobStep ==
  ASSUME IInv, NEW t \in Target, NEW rec \in JobRec(t),
         rec.pc = "copy" => rec.at \in rec.todo,
         job' = [job EXCEPT ![t] = rec],
         UNCHANGED disk
  PROVE  /\ JobsOK(job')
         /\ job'[t] = rec
         /\ \A u \in Target \ {t} : JobGood(u)' /\ GotAll(u)'
<1>1. JobsOK(job)
  BY JobsOfType DEF IInv
<1>2. /\ JobsOK(job')
      /\ job'[t] = rec
      /\ \A u \in Target \ {t} : job'[u] = job[u]
  <2>1. /\ DOMAIN job' = Target
        /\ job'[t] = rec
        /\ \A u \in Target \ {t} : job'[u] = job[u]
    BY <1>1 DEF JobsOK
  <2> QED BY <1>1, <2>1, ReplaceOK
<1>3. ASSUME NEW u \in Target \ {t} PROVE JobGood(u)' /\ GotAll(u)'
  <2>1. JobGood(u) /\ GotAll(u) /\ job'[u] = job[u]
    BY <1>2 DEF IInv
  <2> QED BY <2>1, OtherJob
<1> QED BY <1>2, <1>3

(* A step of a target that replaces its job and writes one of its outputs. *)
LEMMA WriteStep ==
  ASSUME IInv, NEW t \in Target, NEW rec \in JobRec(t),
         rec.pc = "copy" => rec.at \in rec.todo,
         NEW o \in Output[t], NEW c \in Content,
         job' = Crossed(o, [job EXCEPT ![t] = rec]),
         disk' = [disk EXCEPT ![o] = c]
  PROVE  /\ JobsOK(job')
         /\ disk' \in Contents(File)
         /\ job'[t].pc = rec.pc /\ job'[t].got = rec.got
         /\ job'[t].todo = rec.todo
         /\ job'[t].edited = rec.edited
         /\ job'[t].crossed = (rec.crossed \/ (t \in Running /\ o \in Input[t]))
         /\ disk'[o] = c
         /\ \A f \in File \ {o} : disk'[f] = disk[f]
         /\ \A u \in Target \ {t} : JobGood(u)' /\ GotAll(u)'
<1> DEFINE new == [job EXCEPT ![t] = rec]
<1>1. JobsOK(job) /\ disk \in Contents(File)
  BY JobsOfType DEF IInv, TypeOK
<1>2. /\ JobsOK(new)
      /\ new[t] = rec
      /\ \A u \in Target \ {t} : new[u] = job[u]
  <2>1. /\ DOMAIN new = Target
        /\ new[t] = rec
        /\ \A u \in Target \ {t} : new[u] = job[u]
    BY <1>1 DEF JobsOK
  <2> HIDE DEF new
  <2> QED BY <1>1, <2>1, ReplaceOK
<1>3. job' = Crossed(o, new)
  OBVIOUS
<1> HIDE DEF new
<1>4. /\ JobsOK(job')
      /\ \A u \in Target :
           /\ job'[u].pc = new[u].pc /\ job'[u].got = new[u].got
           /\ job'[u].todo = new[u].todo
           /\ job'[u].unstable = new[u].unstable
           /\ job'[u].edited = new[u].edited
           /\ job'[u].crossed =
                (new[u].crossed \/ (u \in Running /\ o \in Input[u]))
  <2>1. /\ DOMAIN job' = Target
        /\ \A u \in Target : job'[u] = Noted(o, u, new[u])
    BY <1>3 DEF Crossed, Noted
  <2>2. ASSUME NEW u \in Target
        PROVE  /\ job'[u] \in JobRec(u)
               /\ job'[u].pc = new[u].pc /\ job'[u].got = new[u].got
               /\ job'[u].todo = new[u].todo /\ job'[u].at = new[u].at
               /\ job'[u].unstable = new[u].unstable
               /\ job'[u].edited = new[u].edited
               /\ job'[u].crossed =
                    (new[u].crossed \/ (u \in Running /\ o \in Input[u]))
    <3>1. new[u] \in JobRec(u) /\ job'[u] = Noted(o, u, new[u])
      BY <1>2, <2>1 DEF JobsOK
    <3> QED BY <3>1, NotedType
  <2> QED BY <1>2, <2>1, <2>2 DEF JobsOK
<1>5. o \in File
  BY FilesOf
<1>6. /\ disk' \in Contents(File)
      /\ disk'[o] = c
      /\ \A f \in File \ {o} : disk'[f] = disk[f]
  BY <1>1, <1>5 DEF Contents
<1>7. ASSUME NEW u \in Target \ {t} PROVE JobGood(u)' /\ GotAll(u)'
  <2>1. JobGood(u) /\ GotAll(u) /\ new[u] = job[u]
    BY <1>2 DEF IInv
  <2>2. o \notin Output[u] /\ Input[u] \cup Output[u] \subseteq File
    BY DisjointAssumption, FilesOf
  <2>3. u \in Running /\ ~job'[u].crossed =>
          \A f \in Input[u] \cup Output[u] : disk'[f] = disk[f]
    BY <1>4, <1>6, <2>2
  <2>4. /\ job'[u].pc = job[u].pc /\ job'[u].got = job[u].got
        /\ job'[u].todo = job[u].todo /\ job'[u].unstable = job[u].unstable
        /\ job[u].edited => job'[u].edited
        /\ job[u].crossed => job'[u].crossed
    BY <1>4, <2>1
  <2> QED BY <2>1, <2>3, <2>4, OtherJob
<1> QED BY <1>2, <1>4, <1>6, <1>7

(* What is left to show of a step of target t.                             *)
LEMMA Conclude ==
  ASSUME IInv, NEW t \in Target, JobsOK(job'), disk' \in Contents(File),
         UNCHANGED <<saved, edits, pass>>, calm' \in BOOLEAN,
         \A u \in Target \ {t} : JobGood(u)' /\ GotAll(u)',
         JobGood(t)', GotAll(t)'
  PROVE  IInv'
<1>1. TypeOK'
  BY DEF IInv, TypeOK, JobsOK, CacheOK
<1>2. CacheGood(saved)' /\ CacheGood(pass.cache)'
  BY DEF IInv, CacheGood, EntryGood
<1> QED BY <1>1, <1>2 DEF IInv

-----------------------------------------------------------------------------
(* The steps of a target.                                                  *)

(* A job that neither commits nor is about to record promises nothing.     *)
LEMMA PlainStep ==
  ASSUME IInv, NEW t \in Target, NEW rec \in JobRec(t),
         rec.pc \notin {"commit", "copy", "record"},
         job' = [job EXCEPT ![t] = rec],
         UNCHANGED <<disk, saved, edits, pass>>, calm' \in BOOLEAN
  PROVE  IInv'
<1>1. /\ JobsOK(job')
      /\ job'[t] = rec
      /\ \A u \in Target \ {t} : JobGood(u)' /\ GotAll(u)'
  BY JobStep
<1>2. JobGood(t)' /\ GotAll(t)'
  BY <1>1 DEF JobGood, GotAll, Committing
<1>3. disk' \in Contents(File)
  BY DEF IInv, TypeOK
<1> QED BY <1>1, <1>2, <1>3, Conclude

LEMMA DoneStep ==
  ASSUME IInv, NEW t \in Target, NEW b \in BOOLEAN, job' = Done(t, b),
         UNCHANGED <<disk, saved, edits, pass>>, calm' \in BOOLEAN
  PROVE  IInv'
<1> DEFINE rec == [NewJob(t) EXCEPT !.pc = "done", !.rebuilt = b]
<1>1. rec \in JobRec(t) /\ rec.pc = "done"
  BY DoneType
<1>2. job' = [job EXCEPT ![t] = rec]
  BY DEF Done
<1> HIDE DEF rec
<1> QED BY <1>1, <1>2, PlainStep

LEMMA JobType ==
  ASSUME IInv, NEW t \in Target
  PROVE  /\ job[t] \in JobRec(t)
         /\ job[t].pc = "copy" => job[t].at \in job[t].todo
         /\ JobGood(t) /\ GotAll(t)
         /\ calm \in BOOLEAN
BY DEF IInv, TypeOK

LEMMA JudgeStep ==
  ASSUME IInv, NEW t \in Target, Judge(t)
  PROVE  IInv'
<1> DEFINE rec == [job[t] EXCEPT !.pc = "judged", !.verdict = Verdict(t)]
<1>1. Verdict(t) \in {"error", "fresh", "stale"}
  BY DEF Verdict
<1>2. rec \in JobRec(t) /\ rec.pc = "judged"
  BY <1>1, JobType DEF JobRec
<1>3. /\ job' = [job EXCEPT ![t] = rec]
      /\ UNCHANGED <<disk, saved, edits, pass>>
      /\ calm' \in BOOLEAN
  BY JobType DEF Judge
<1> HIDE DEF rec
<1> QED BY <1>2, <1>3, PlainStep

LEMMA BeginStep ==
  ASSUME IInv, NEW t \in Target, Begin(t)
  PROVE  IInv'
<1> DEFINE rec == [job[t] EXCEPT !.pc = "run"]
<1>1. UNCHANGED <<disk, saved, edits, pass>>
  BY DEF Begin
<1>2. \/ Fails(t)
      \/ job' = Done(t, FALSE) /\ UNCHANGED calm
      \/ job' = [job EXCEPT ![t] = rec] /\ UNCHANGED calm
  BY DEF Begin
<1>3. rec \in JobRec(t) /\ rec.pc = "run"
  BY JobType DEF JobRec
<1> HIDE DEF rec
<1>4. CASE Fails(t)
  BY <1>1, <1>4, DoneStep DEF Fails
<1>5. CASE job' = Done(t, FALSE) /\ UNCHANGED calm
  BY <1>1, <1>5, JobType, DoneStep
<1>6. CASE job' = [job EXCEPT ![t] = rec] /\ UNCHANGED calm
  BY <1>1, <1>3, <1>6, JobType, PlainStep
<1> QED BY <1>2, <1>4, <1>5, <1>6

LEMMA RunFailsStep ==
  ASSUME IInv, NEW t \in Target, RunFails(t),
         UNCHANGED <<disk, saved, edits, pass>>
  PROVE  IInv'
<1> DEFINE rec == [job[t] EXCEPT !.pc = "record", !.unstable = TRUE]
<1>1. CASE ~job[t].again
  BY <1>1, DoneStep DEF RunFails, Fails
<1>2. CASE job[t].again
  <2>1. job' = [job EXCEPT ![t] = rec] /\ calm' \in BOOLEAN
    BY <1>2 DEF RunFails
  <2>2. rec \in JobRec(t) /\ rec.pc = "record" /\ rec.unstable
    BY JobType DEF JobRec
  <2> HIDE DEF rec
  <2>3. /\ JobsOK(job')
        /\ job'[t] = rec
        /\ \A u \in Target \ {t} : JobGood(u)' /\ GotAll(u)'
    BY <2>1, <2>2, JobStep
  <2>4. JobGood(t)' /\ GotAll(t)'
    BY <2>2, <2>3 DEF JobGood, GotAll, Committing
  <2>5. disk' \in Contents(File)
    BY DEF IInv, TypeOK
  <2> QED BY <2>1, <2>3, <2>4, <2>5, Conclude
<1> QED BY <1>1, <1>2

LEMMA RunRecipeStep ==
  ASSUME IInv, NEW t \in Target, RunRecipe(t)
  PROVE  IInv'
<1> DEFINE rec == [job[t] EXCEPT !.pc = "commit", !.got = Ins(t),
                                 !.todo = Output[t]]
<1>1. UNCHANGED <<disk, saved, edits, pass>>
  BY DEF RunRecipe
<1>2. CASE RunFails(t)
  BY <1>1, <1>2, RunFailsStep
<1>3. CASE /\ ~Missing(Input[t])
           /\ job' = [job EXCEPT ![t] = rec]
           /\ UNCHANGED calm
  <2>1. Ins(t) \in [Input[t] -> Content]
    BY <1>3, FilesOf DEF IInv, TypeOK, Contents, Missing, Ins
  <2>2. /\ rec \in JobRec(t)
        /\ rec.pc = "commit" /\ rec.got = Ins(t) /\ rec.todo = Output[t]
    BY ContentsType, JobType DEF JobRec, IInv
  <2>3. job' = [job EXCEPT ![t] = rec] /\ calm' \in BOOLEAN
    BY <1>3, JobType
  <2> HIDE DEF rec
  <2>4. /\ JobsOK(job')
        /\ job'[t] = rec
        /\ \A u \in Target \ {t} : JobGood(u)' /\ GotAll(u)'
    BY <1>1, <2>2, <2>3, JobStep
  <2>5. Ins(t)' = Ins(t)
    BY <1>1 DEF Ins
  <2>6. JobGood(t)' /\ GotAll(t)'
    BY <2>1, <2>2, <2>4, <2>5 DEF JobGood, GotAll, Committing
  <2>7. disk' \in Contents(File)
    BY <1>1 DEF IInv, TypeOK
  <2> QED BY <1>1, <2>3, <2>4, <2>6, <2>7, Conclude
<1> QED BY <1>2, <1>3 DEF RunRecipe

LEMMA StagedType ==
  ASSUME IInv, NEW t \in Target, Committing(t)
  PROVE  Staged(t) \in Content
BY JobType, MakeAssumption DEF GotAll, Staged

(* An output is written while its job commits: in place, and off the list, *)
(* or torn, and left on it.                                                *)
LEMMA OutputStep ==
  ASSUME IInv, NEW t \in Target, Committing(t),
         NEW rec \in JobRec(t), rec.pc \in {"commit", "copy"},
         rec.pc = "copy" => rec.at \in rec.todo,
         rec.got = job[t].got, rec.edited = job[t].edited,
         rec.crossed = job[t].crossed,
         NEW o \in Output[t], NEW c \in Content,
         \/ c = Staged(t) /\ rec.todo = job[t].todo \ {o}
         \/ o \in job[t].todo /\ rec.todo = job[t].todo,
         job' = Crossed(o, [job EXCEPT ![t] = rec]),
         disk' = [disk EXCEPT ![o] = c],
         UNCHANGED <<saved, edits, pass>>, calm' \in BOOLEAN
  PROVE  IInv'
<1>1. /\ JobsOK(job')
      /\ disk' \in Contents(File)
      /\ job'[t].pc = rec.pc /\ job'[t].got = rec.got
      /\ job'[t].todo = rec.todo
      /\ job'[t].edited = rec.edited
      /\ job'[t].crossed = (rec.crossed \/ (t \in Running /\ o \in Input[t]))
      /\ disk'[o] = c
      /\ \A f \in File \ {o} : disk'[f] = disk[f]
      /\ \A u \in Target \ {t} : JobGood(u)' /\ GotAll(u)'
  BY WriteStep
<1>2. t \in Running
  BY DEF Running, Committing
<1>3. GotAll(t)'
  BY <1>1, JobType DEF GotAll, Committing
<1>4. ASSUME ~job'[t].edited, ~job'[t].crossed
      PROVE  /\ job'[t].got = Ins(t)'
             /\ \A q \in Output[t] \ job'[t].todo :
                  disk'[q] = Make(t, job'[t].got)
  <2>1. o \notin Input[t] /\ ~job[t].edited /\ ~job[t].crossed
    BY <1>1, <1>2, <1>4
  <2>2. /\ job[t].got = Ins(t)
        /\ \A q \in Output[t] \ job[t].todo : disk[q] = Make(t, job[t].got)
    BY <2>1, JobType DEF JobGood
  <2>3. Ins(t)' = Ins(t)
    BY <1>1, <2>1, FilesOf DEF Ins
  <2>4. ASSUME NEW q \in Output[t] \ job'[t].todo
        PROVE  disk'[q] = Make(t, job[t].got)
    <3>1. CASE q = o
      BY <3>1, <2>4, <1>1 DEF Staged
    <3>2. CASE q # o
      BY <3>2, <2>2, <2>4, <1>1, FilesOf
    <3> QED BY <3>1, <3>2
  <2> QED BY <1>1, <2>2, <2>3, <2>4
<1>5. JobGood(t)'
  BY <1>1, <1>4 DEF JobGood, Committing
<1> QED BY <1>1, <1>3, <1>5, Conclude

LEMMA CommitStep ==
  ASSUME IInv, NEW t \in Target, Commit(t)
  PROVE  IInv'
<1>1. job[t].pc = "commit" /\ Committing(t) /\ UNCHANGED <<saved, edits, pass>>
  BY DEF Commit, Committing
<1>2. PICK o \in job[t].todo :
        \/ /\ disk' = [disk EXCEPT ![o] = Staged(t)]
           /\ job' = Crossed(o, [job EXCEPT ![t] =
                                  [job[t] EXCEPT !.todo = job[t].todo \ {o}]])
           /\ UNCHANGED calm
        \/ /\ disk' = [disk EXCEPT ![o] = Torn]
           /\ job' = Crossed(o, [job EXCEPT ![t] =
                                  [job[t] EXCEPT !.pc = "copy", !.at = o]])
           /\ UNCHANGED calm
        \/ RunFails(t) /\ UNCHANGED disk
  BY DEF Commit
<1>3. job[t] \in JobRec(t) /\ o \in Output[t] /\ calm \in BOOLEAN
  BY JobType DEF JobRec
<1>4. CASE /\ disk' = [disk EXCEPT ![o] = Staged(t)]
           /\ job' = Crossed(o, [job EXCEPT ![t] =
                                  [job[t] EXCEPT !.todo = job[t].todo \ {o}]])
           /\ UNCHANGED calm
  <2> DEFINE rec == [job[t] EXCEPT !.todo = job[t].todo \ {o}]
  <2>1. /\ rec \in JobRec(t) /\ rec.pc = "commit"
        /\ rec.got = job[t].got /\ rec.edited = job[t].edited
        /\ rec.crossed = job[t].crossed
        /\ rec.todo = job[t].todo \ {o}
    BY <1>1, <1>3 DEF JobRec
  <2>2. job' = Crossed(o, [job EXCEPT ![t] = rec])
    BY <1>4
  <2> HIDE DEF rec
  <2> QED BY <1>1, <1>3, <1>4, <2>1, <2>2, StagedType, OutputStep
<1>5. CASE /\ disk' = [disk EXCEPT ![o] = Torn]
           /\ job' = Crossed(o, [job EXCEPT ![t] =
                                  [job[t] EXCEPT !.pc = "copy", !.at = o]])
           /\ UNCHANGED calm
  <2> DEFINE rec == [job[t] EXCEPT !.pc = "copy", !.at = o]
  <2>1. /\ rec \in JobRec(t) /\ rec.pc = "copy" /\ rec.at = o
        /\ rec.got = job[t].got /\ rec.edited = job[t].edited
        /\ rec.crossed = job[t].crossed
        /\ rec.todo = job[t].todo
    BY <1>3 DEF JobRec
  <2>2. job' = Crossed(o, [job EXCEPT ![t] = rec])
    BY <1>5
  <2>3. Torn \in Content
    BY ConstantsAssumption
  <2> HIDE DEF rec
  <2> QED BY <1>1, <1>3, <1>5, <2>1, <2>2, <2>3, OutputStep
<1>6. CASE RunFails(t) /\ UNCHANGED disk
  BY <1>1, <1>6, RunFailsStep
<1> QED BY <1>2, <1>4, <1>5, <1>6

LEMMA CopyStep ==
  ASSUME IInv, NEW t \in Target, Copy(t)
  PROVE  IInv'
<1> DEFINE o == job[t].at
           rec == [job[t] EXCEPT !.pc = "commit", !.todo = job[t].todo \ {o}]
<1>1. job[t].pc = "copy" /\ Committing(t) /\ UNCHANGED <<saved, edits, pass>>
  BY DEF Copy, Committing
<1>2. job[t] \in JobRec(t) /\ o \in Output[t] /\ calm \in BOOLEAN
  BY <1>1, JobType DEF JobRec
<1>3. \/ /\ disk' = [disk EXCEPT ![o] = Staged(t)]
         /\ job' = Crossed(o, [job EXCEPT ![t] = rec])
         /\ UNCHANGED calm
      \/ RunFails(t) /\ UNCHANGED disk
  BY DEF Copy
<1>4. /\ rec \in JobRec(t) /\ rec.pc = "commit"
      /\ rec.got = job[t].got /\ rec.edited = job[t].edited
      /\ rec.crossed = job[t].crossed
      /\ rec.todo = job[t].todo \ {o}
  BY <1>2 DEF JobRec
<1> HIDE DEF rec, o
<1>5. CASE /\ disk' = [disk EXCEPT ![o] = Staged(t)]
           /\ job' = Crossed(o, [job EXCEPT ![t] = rec])
           /\ UNCHANGED calm
  BY <1>1, <1>2, <1>4, <1>5, StagedType, OutputStep
<1>6. CASE RunFails(t) /\ UNCHANGED disk
  BY <1>1, <1>6, RunFailsStep
<1> QED BY <1>3, <1>5, <1>6

LEMMA CommittedStep ==
  ASSUME IInv, NEW t \in Target, Committed(t)
  PROVE  IInv'
<1> DEFINE again == [job[t] EXCEPT !.pc = "run", !.again = TRUE,
                                   !.first = Outs(t)]
           rec == [job[t] EXCEPT !.pc = "record",
                     !.unstable = job[t].again /\ Outs(t) # job[t].first]
<1>1. /\ job[t].pc = "commit" /\ job[t].todo = {}
      /\ \/ job' = [job EXCEPT ![t] = again]
         \/ job' = [job EXCEPT ![t] = rec]
      /\ UNCHANGED <<disk, saved, edits, pass>> /\ calm' \in BOOLEAN
  BY JobType DEF Committed
<1>2. again \in JobRec(t) /\ again.pc = "run"
  BY JobType, ContentsType DEF JobRec, IInv
<1>3. /\ rec \in JobRec(t) /\ rec.pc = "record"
      /\ rec.edited = job[t].edited /\ rec.crossed = job[t].crossed
  BY JobType DEF JobRec
<1> HIDE DEF again, rec
<1>4. CASE job' = [job EXCEPT ![t] = again]
  BY <1>1, <1>2, <1>4, PlainStep
<1>5. CASE job' = [job EXCEPT ![t] = rec]
  <2>1. /\ JobsOK(job')
        /\ job'[t] = rec
        /\ \A u \in Target \ {t} : JobGood(u)' /\ GotAll(u)'
    BY <1>1, <1>3, <1>5, JobStep
  <2>2. Ins(t)' = Ins(t) /\ disk' = disk
    BY <1>1 DEF Ins
  <2>3. ASSUME ~rec.edited, ~rec.crossed
        PROVE  \A o \in Output[t] : disk[o] = Make(t, Ins(t))
    BY <1>1, <1>3, <2>3, JobType DEF JobGood, Committing
  <2>4. JobGood(t)' /\ GotAll(t)'
    BY <1>3, <2>1, <2>2, <2>3 DEF JobGood, GotAll, Committing
  <2>5. disk' \in Contents(File)
    BY <2>2 DEF IInv, TypeOK
  <2> QED BY <1>1, <2>1, <2>4, <2>5, Conclude
<1> QED BY <1>1, <1>4, <1>5

LEMMA RecordStep ==
  ASSUME IInv, NEW t \in Target, Record(t)
  PROVE  IInv'
<1> DEFINE entry == [id |-> Ins(t), out |-> Outs(t),
                     unstable |-> job[t].unstable, edited |-> job[t].edited,
                     crossed |-> job[t].crossed]
           cache == [pass.cache EXCEPT ![t] = entry]
           rec == [NewJob(t) EXCEPT !.pc = "done", !.rebuilt = TRUE]
<1>1. job[t].pc = "record" /\ UNCHANGED <<disk, saved, edits>>
  BY DEF Record
<1>2. \/ Fails(t) /\ UNCHANGED pass
      \/ pass' = pass /\ job' = Done(t, TRUE) /\ UNCHANGED calm
      \/ /\ pass' = [pass EXCEPT !.cache = cache]
         /\ job' = Done(t, TRUE) /\ UNCHANGED calm
  BY DEF Record
<1>3. CASE Fails(t) /\ UNCHANGED pass
  BY <1>1, <1>3, DoneStep DEF Fails
<1>4. CASE pass' = pass /\ job' = Done(t, TRUE) /\ UNCHANGED calm
  BY <1>1, <1>4, JobType, DoneStep
<1>5. CASE /\ pass' = [pass EXCEPT !.cache = cache]
           /\ job' = Done(t, TRUE) /\ UNCHANGED calm
  <2>1. entry \in EntryOf(t)
    BY JobType, ContentsType DEF EntryOf, JobRec, IInv
  <2>2. EntryGood(t, entry)
    BY <1>1, JobType DEF EntryGood, Undisturbed, JobGood, Outs
  <2> HIDE DEF entry
  <2>3. /\ DOMAIN cache = Target
        /\ cache[t] = entry
        /\ \A u \in Target \ {t} : cache[u] = pass.cache[u]
    BY DEF IInv, TypeOK
  <2> HIDE DEF cache
  <2>4. CacheOK(cache) /\ CacheGood(cache)
    BY <2>1, <2>2, <2>3 DEF IInv, TypeOK, CacheOK, CacheGood
  <2>5. /\ DOMAIN pass' = {"on", "jobs", "option", "cache"}
        /\ pass'.cache = cache /\ pass'.on = pass.on
        /\ pass'.jobs = pass.jobs /\ pass'.option = pass.option
    BY <1>5 DEF IInv, TypeOK
  <2>6. rec \in JobRec(t) /\ rec.pc = "done" /\ job' = [job EXCEPT ![t] = rec]
    BY <1>5, DoneType DEF Done
  <2> HIDE DEF rec
  <2>7. /\ JobsOK(job')
        /\ job'[t] = rec
        /\ \A u \in Target \ {t} : JobGood(u)' /\ GotAll(u)'
    BY <1>1, <2>6, JobStep
  <2>8. JobGood(t)' /\ GotAll(t)'
    BY <2>6, <2>7 DEF JobGood, GotAll, Committing
  <2>9. TypeOK'
    BY <1>1, <1>5, <2>3, <2>4, <2>5, <2>7 DEF IInv, TypeOK, JobsOK, CacheOK
  <2>10. CacheGood(saved)' /\ CacheGood(pass.cache)'
    BY <1>1, <2>4, <2>5 DEF IInv, CacheGood, EntryGood
  <2> QED BY <2>7, <2>8, <2>9, <2>10 DEF IInv
<1> QED BY <1>2, <1>3, <1>4, <1>5

-----------------------------------------------------------------------------
(* The pass begins, ends or dies, and people edit.                         *)

(* A state between passes, or at the beginning of one, with no job begun.  *)
LEMMA FreshPass ==
  ASSUME IInv, job' = NoJobs, UNCHANGED <<disk, edits>>, calm' \in BOOLEAN,
         DOMAIN saved' = Target, CacheOK(saved'), CacheGood(saved'),
         DOMAIN pass' = {"on", "jobs", "option", "cache"},
         pass'.on \in BOOLEAN,
         <<pass'.jobs, pass'.option>> \in Flags \cup {<<1, "none">>},
         DOMAIN pass'.cache = Target, CacheOK(pass'.cache),
         CacheGood(pass'.cache)
  PROVE  IInv'
<1>1. JobsOK(job') /\ \A t \in Target : job'[t].pc = "new"
  BY NoJobsOK
<1>2. TypeOK'
  BY <1>1 DEF IInv, TypeOK, JobsOK, CacheOK
<1>3. \A t \in Target : JobGood(t)' /\ GotAll(t)'
  BY <1>1 DEF JobGood, GotAll, Committing
<1>4. CacheGood(saved)' /\ CacheGood(pass.cache)'
  BY DEF CacheGood, EntryGood
<1> QED BY <1>2, <1>3, <1>4 DEF IInv

LEMMA CachesOK ==
  ASSUME IInv
  PROVE  /\ DOMAIN saved = Target /\ CacheOK(saved) /\ CacheGood(saved)
         /\ DOMAIN pass.cache = Target /\ CacheOK(pass.cache)
         /\ CacheGood(pass.cache)
BY DEF IInv, TypeOK

LEMMA NoPassOK ==
  /\ DOMAIN NoPass = {"on", "jobs", "option", "cache"}
  /\ NoPass.on \in BOOLEAN
  /\ <<NoPass.jobs, NoPass.option>> \in Flags \cup {<<1, "none">>}
  /\ NoPass.cache = NoCache
BY DEF NoPass

LEMMA StartPassStep ==
  ASSUME IInv, NEW flags \in Flags, StartPass(flags[1], flags[2])
  PROVE  IInv'
<1>1. <<flags[1], flags[2]>> \in Flags
  BY ConstantsAssumption
<1>2. /\ job' = NoJobs /\ UNCHANGED <<disk, saved, edits>>
      /\ calm' \in BOOLEAN
      /\ DOMAIN pass' = {"on", "jobs", "option", "cache"}
      /\ pass'.on \in BOOLEAN
      /\ pass'.jobs = flags[1] /\ pass'.option = flags[2]
      /\ pass'.cache \in {NoCache, saved}
  BY DEF StartPass
<1> QED BY <1>1, <1>2, CachesOK, NoCacheOK, FreshPass

LEMMA EndPassStep == ASSUME IInv, EndPass PROVE IInv'
<1>1. /\ job' = NoJobs /\ pass' = NoPass /\ UNCHANGED <<disk, edits>>
      /\ saved' \in {pass.cache, saved}
      /\ calm' \in BOOLEAN
  BY DEF EndPass, Save, IInv, TypeOK
<1> QED BY <1>1, CachesOK, NoCacheOK, NoPassOK, FreshPass

LEMMA CrashStep == ASSUME IInv, Crash PROVE IInv'
<1>1. /\ job' = NoJobs /\ pass' = NoPass /\ UNCHANGED <<disk, edits, saved>>
      /\ calm' \in BOOLEAN
  BY DEF Crash
<1> QED BY <1>1, CachesOK, NoCacheOK, NoPassOK, FreshPass

(* A job with the note that people edited a file of it.                    *)
LEMMA EditedType ==
  ASSUME NEW u \in Target, NEW rec \in JobRec(u), NEW b \in BOOLEAN,
         NEW new, new = [rec EXCEPT !.edited = b]
  PROVE  /\ new \in JobRec(u)
         /\ new.pc = rec.pc /\ new.got = rec.got /\ new.todo = rec.todo
         /\ new.at = rec.at /\ new.unstable = rec.unstable
         /\ new.edited = b /\ new.crossed = rec.crossed
BY DEF JobRec

LEMMA EditStep ==
  ASSUME IInv, NEW f \in File, Edit(f)
  PROVE  IInv'
<1> DEFINE note(u) ==
      job[u].edited \/ (u \in Running /\ f \in Input[u] \cup Output[u])
<1>1. PICK c \in Content \cup {None} : disk' = [disk EXCEPT ![f] = c]
  BY ConstantsAssumption DEF Edit
<1>2. /\ disk' \in Contents(File)
      /\ \A g \in File \ {f} : disk'[g] = disk[g]
  BY <1>1 DEF IInv, TypeOK, Contents
<1>3. /\ DOMAIN job' = Target
      /\ \A u \in Target : job'[u] = [job[u] EXCEPT !.edited = note(u)]
  BY DEF Edit
<1>4. ASSUME NEW u \in Target
      PROVE  /\ job'[u] \in JobRec(u)
             /\ job'[u].pc = job[u].pc /\ job'[u].got = job[u].got
             /\ job'[u].todo = job[u].todo /\ job'[u].at = job[u].at
             /\ job'[u].unstable = job[u].unstable
             /\ job'[u].edited = note(u) /\ job'[u].crossed = job[u].crossed
  <2>1. job[u] \in JobRec(u)
    BY JobType
  <2>2. note(u) \in BOOLEAN
    BY <2>1 DEF JobRec
  <2>3. job'[u] = [job[u] EXCEPT !.edited = note(u)]
    BY <1>3
  <2> HIDE DEF note
  <2> QED BY <2>1, <2>2, <2>3, EditedType
<1>5. JobsOK(job')
  BY <1>3, <1>4, JobType DEF JobsOK
<1>6. ASSUME NEW u \in Target PROVE JobGood(u)' /\ GotAll(u)'
  <2>1. JobGood(u) /\ GotAll(u)
    BY JobType
  <2>2. u \in Running /\ ~job'[u].edited /\ ~job'[u].crossed =>
          \A g \in Input[u] \cup Output[u] : disk'[g] = disk[g]
    BY <1>2, <1>4, FilesOf
  <2>3. /\ job[u].edited => job'[u].edited
        /\ job[u].crossed => job'[u].crossed
    BY <1>4
  <2> QED BY <1>4, <2>1, <2>2, <2>3, OtherJob
<1>7. /\ UNCHANGED <<saved, pass>> /\ calm' \in BOOLEAN
      /\ edits' \in 0..MaxEdits
  <2>1. edits \in 0..MaxEdits /\ MaxEdits \in Nat
    BY ConstantsAssumption DEF IInv, TypeOK
  <2>2. /\ edits < MaxEdits /\ edits' = edits + 1
        /\ UNCHANGED <<saved, pass>> /\ calm' = FALSE
    BY DEF Edit
  <2>3. edits + 1 \in 0..MaxEdits
    BY <2>1, <2>2
  <2>4. calm' \in BOOLEAN
    BY <2>2
  <2> QED BY <2>2, <2>3, <2>4
<1>8. TypeOK'
  BY <1>2, <1>5, <1>7 DEF IInv, TypeOK, JobsOK, CacheOK
<1>9. CacheGood(saved)' /\ CacheGood(pass.cache)'
  BY <1>7 DEF IInv, CacheGood, EntryGood
<1> QED BY <1>6, <1>8, <1>9 DEF IInv

-----------------------------------------------------------------------------
LEMMA InitIInv == Init => IInv
<1> SUFFICES ASSUME Init PROVE IInv
  OBVIOUS
<1>1. disk \in Contents(File)
  BY ConstantsAssumption DEF Init, Contents
<1>2. /\ job = NoJobs /\ saved = NoCache /\ pass = NoPass
      /\ edits = 0 /\ calm = FALSE /\ MaxEdits \in Nat
  BY ConstantsAssumption DEF Init
<1>3. JobsOK(job) /\ \A t \in Target : job[t].pc = "new"
  BY <1>2, NoJobsOK
<1>4. TypeOK
  <2>1. /\ DOMAIN saved = Target /\ CacheOK(saved)
        /\ DOMAIN pass.cache = Target /\ CacheOK(pass.cache)
    BY <1>2, NoCacheOK, NoPassOK
  <2>2. /\ DOMAIN pass = {"on", "jobs", "option", "cache"}
        /\ pass.on \in BOOLEAN
        /\ <<pass.jobs, pass.option>> \in Flags \cup {<<1, "none">>}
    BY <1>2, NoPassOK
  <2>3. edits \in 0..MaxEdits
    BY <1>2
  <2>4. calm \in BOOLEAN
    BY <1>2
  <2> QED BY <1>1, <1>3, <2>1, <2>2, <2>3, <2>4 DEF TypeOK, JobsOK
<1>5. CacheGood(saved) /\ CacheGood(pass.cache)
  BY <1>2, NoCacheOK, NoPassOK
<1>6. \A t \in Target : JobGood(t) /\ GotAll(t)
  BY <1>3 DEF JobGood, GotAll, Committing
<1> QED BY <1>4, <1>5, <1>6 DEF IInv

LEMMA NextStep == IInv /\ [Next]_vars => IInv'
<1> SUFFICES ASSUME IInv, [Next]_vars PROVE IInv'
  OBVIOUS
<1>1. ASSUME NEW flags \in Flags, StartPass(flags[1], flags[2]) PROVE IInv'
  BY <1>1, StartPassStep
<1>2. ASSUME NEW t \in Target, Step(t) PROVE IInv'
  BY <1>2, JudgeStep, BeginStep, RunRecipeStep, CommitStep, CopyStep,
     CommittedStep, RecordStep DEF Step
<1>3. CASE EndPass
  BY <1>3, EndPassStep
<1>4. CASE Crash
  BY <1>4, CrashStep
<1>5. ASSUME NEW f \in File, Edit(f) PROVE IInv'
  BY <1>5, EditStep
<1>6. CASE UNCHANGED vars
  <2>1. UNCHANGED <<disk, saved, pass, job, edits, calm>>
    BY <1>6 DEF vars
  <2>2. TypeOK'
    BY <2>1 DEF IInv, TypeOK, CacheOK
  <2>3. CacheGood(saved)' /\ CacheGood(pass.cache)'
    BY <2>1 DEF IInv, CacheGood, EntryGood
  <2>4. ASSUME NEW t \in Target PROVE JobGood(t)' /\ GotAll(t)'
    BY <2>1, JobType, OtherJob
  <2> QED BY <2>2, <2>3, <2>4 DEF IInv
<1> QED BY <1>1, <1>2, <1>3, <1>4, <1>5, <1>6 DEF Next

LEMMA Always == Spec => []IInv
BY InitIInv, NextStep, PTL DEF Spec

(* Every variable keeps its type.                                          *)
THEOREM TypeCorrect == Spec => []TypeOK
<1>1. IInv => TypeOK
  BY DEF IInv
<1> QED BY <1>1, Always, PTL

(* A target that the saved cache calls fresh is up to date, unless the run *)
(* its entry records was disturbed: CheckStaleness may skip it, whatever   *)
(* has failed, crashed, been edited or been half committed since.          *)
THEOREM FreshIsUpToDate == Spec => []OnlyDisturbedLie
<1>1. IInv => OnlyDisturbedLie
  <2> SUFFICES ASSUME IInv, NEW t \in Target,
                      FreshBy(saved, t), Undisturbed(saved[t]),
                      NEW o \in Output[t]
               PROVE  disk[o] = Make(t, Ins(t))
    BY DEF OnlyDisturbedLie, UpToDate
  <2>1. saved[t] # None /\ saved[t].id = Ins(t) /\ saved[t].out = Outs(t)
    BY DEF FreshBy
  <2>2. saved[t].out[o] = Make(t, saved[t].id)
    BY <2>1 DEF IInv, CacheGood, EntryGood
  <2> QED BY <2>1, <2>2 DEF Outs
<1> QED BY <1>1, Always, PTL

-----------------------------------------------------------------------------
(* A clean pass.  What is fresh when it ends became so one target at a     *)
(* time, each after the producers of its inputs, which do not run again.   *)

OrderGood(t) ==
  /\ job[t].pc # "new" => \A u \in Before(t) : job[u].pc = "done"
  /\ job[t].pc = "done" \/ (job[t].pc = "judged" /\ job[t].verdict = "fresh") =>
       FreshBy(pass.cache, t)

CleanPass ==
  /\ pass.jobs = 1 /\ pass.option # "no-cache"
  /\ \A t \in Target : job[t].rebuilt => job[t].pc = "done"
  /\ (\A t \in Target : ~job[t].rebuilt) => pass.cache = saved
  /\ \A t \in Target : InOrder(t) => OrderGood(t)

CleanInv ==
  calm => IF pass.on THEN CleanPass
          ELSE job = NoJobs /\ \A t \in Target : InOrder(t) => FreshBy(saved, t)

(* What CleanPass sees of a job.                                           *)
SameTo(u) ==
  /\ job'[u].pc = job[u].pc /\ job'[u].verdict = job[u].verdict
  /\ job'[u].rebuilt = job[u].rebuilt

(* The files of a target that is done with stay as they are while another  *)
(* target writes its own.                                                  *)
LEMMA StaysFresh ==
  ASSUME NEW v \in Target, job[v].pc # "done",
         \A f \in File : disk'[f] # disk[f] => f \in Output[v],
         NEW t \in Target \ {v}, InOrder(t),
         \A u \in Before(t) : job[u].pc = "done"
  PROVE  Ins(t)' = Ins(t) /\ Outs(t)' = Outs(t)
<1>1. \A f \in Input[t] \cup Output[t] : disk'[f] = disk[f]
  <2> SUFFICES ASSUME NEW f \in Input[t] \cup Output[t], f \in Output[v] PROVE FALSE
    BY FilesOf
  <2>1. f \in Input[t]
    BY DisjointAssumption
  <2>2. v \in Before(t)
    BY <2>1 DEF InOrder
  <2> QED
    BY <2>2
<1> QED
  BY <1>1 DEF Ins, Outs

LEMMA FreshAgain ==
  ASSUME NEW t \in Target, Ins(t)' = Ins(t), Outs(t)' = Outs(t),
         NEW cache, NEW after, after[t] = cache[t]
  PROVE  FreshBy(cache, t) => /\ ~(\E o \in Output[t] : disk'[o] = None)
                              /\ after[t] # None
                              /\ after[t].id = Ins(t)' /\ after[t].out = Outs(t)'
<1> SUFFICES ASSUME FreshBy(cache, t), NEW o \in Output[t] PROVE disk'[o] # None
  BY DEF FreshBy
<1>1. Outs(t)[o] = disk[o] /\ Outs(t)'[o] = disk'[o]
  BY DEF Outs
<1> QED
  BY <1>1 DEF FreshBy, Missing

(* A step of v, which is not done yet.                                     *)
LEMMA CleanMoves ==
  ASSUME CleanInv, calm, pass.on, UNCHANGED <<saved, pass>>,
         NEW v \in Target, job[v].pc # "done",
         job[v].pc = "new" => \A u \in Before(v) : job[u].pc = "done",
         \A u \in Target \ {v} : SameTo(u),
         ~job'[v].rebuilt,
         \A f \in File : disk'[f] # disk[f] => f \in Output[v],
         job'[v].pc = "done" \/ (job'[v].pc = "judged" /\ job'[v].verdict = "fresh") =>
           UNCHANGED disk /\ (InOrder(v) => FreshBy(pass.cache, v))
  PROVE  CleanInv'
<1>1. CleanPass
  BY DEF CleanInv
<1>2. ASSUME NEW t \in Target, InOrder(t), job[t].pc # "new" \/ t = v
      PROVE  \A u \in Before(t) : u # v /\ job[u].pc = "done" /\ job'[u].pc = "done"
  <2>1. \A u \in Before(t) : u \in Target /\ job[u].pc = "done"
    BY <1>1, <1>2 DEF CleanPass, OrderGood, Before
  <2> QED
    BY <2>1 DEF SameTo
<1>3. ASSUME NEW t \in Target, InOrder(t), job'[t].pc # "new"
      PROVE  \A u \in Before(t) : job'[u].pc = "done"
  <2>1. job[t].pc # "new" \/ t = v
    BY <1>3 DEF SameTo
  <2> QED
    BY <1>2, <1>3, <2>1
<1>4. ASSUME NEW t \in Target, InOrder(t),
             job'[t].pc = "done" \/ (job'[t].pc = "judged" /\ job'[t].verdict = "fresh")
      PROVE  FreshBy(pass.cache, t)'
  <2>1. CASE t = v
    BY <1>4, <2>1 DEF FreshBy, Missing, Ins, Outs
  <2>2. CASE t # v
    <3>1. SameTo(t) /\ FreshBy(pass.cache, t)
      BY <1>1, <1>4, <2>2 DEF SameTo, CleanPass, OrderGood
    <3>2. \A u \in Before(t) : job[u].pc = "done"
      BY <1>2, <1>4, <3>1 DEF SameTo
    <3>3. Ins(t)' = Ins(t) /\ Outs(t)' = Outs(t)
      BY <1>4, <2>2, <3>2, StaysFresh
    <3>4. pass'.cache[t] = pass.cache[t]
      OBVIOUS
    <3> QED
      BY <3>1, <3>3, <3>4, FreshAgain DEF FreshBy, Missing
  <2> QED
    BY <2>1, <2>2
<1>5. \A t \in Target : InOrder(t)' <=> InOrder(t)
  BY DEF InOrder, Before
<1>6. \A t \in Target : job'[t].rebuilt => job'[t].pc = "done"
  BY <1>1 DEF CleanPass, SameTo
<1>7. (\A t \in Target : ~job'[t].rebuilt) => pass'.cache = saved'
  BY <1>1 DEF CleanPass, SameTo
<1>8. CleanPass'
  <2>1. \A t \in Target : InOrder(t)' => OrderGood(t)'
    BY <1>3, <1>4, <1>5 DEF OrderGood, Before
  <2> QED
    BY <1>1, <1>6, <1>7, <2>1 DEF CleanPass
<1> QED
  BY <1>8 DEF CleanInv

LEMMA ReplacedJob ==
  ASSUME TypeOK, NEW v \in Target, NEW rec, job' = [job EXCEPT ![v] = rec]
  PROVE  job'[v] = rec /\ \A u \in Target \ {v} : SameTo(u)
BY DEF TypeOK, SameTo

(* The same, with the note that an output of v changed.                    *)
LEMMA ReplacedAndNoted ==
  ASSUME TypeOK, NEW v \in Target, NEW o, NEW rec \in JobRec(v),
         job' = Crossed(o, [job EXCEPT ![v] = rec])
  PROVE  /\ job'[v].pc = rec.pc /\ job'[v].rebuilt = rec.rebuilt
         /\ \A u \in Target \ {v} : SameTo(u)
<1> DEFINE new == [job EXCEPT ![v] = rec]
<1>1. \A u \in Target : /\ new[u] \in JobRec(u)
                        /\ new[u] = IF u = v THEN rec ELSE job[u]
  BY DEF TypeOK
<1>2. \A u \in Target : job'[u] = Noted(o, u, new[u])
  BY DEF Crossed, Noted
<1> HIDE DEF new
<1>3. \A u \in Target : /\ job'[u].pc = new[u].pc /\ job'[u].verdict = new[u].verdict
                        /\ job'[u].rebuilt = new[u].rebuilt
  <2> SUFFICES ASSUME NEW u \in Target
               PROVE  /\ job'[u].pc = new[u].pc /\ job'[u].verdict = new[u].verdict
                      /\ job'[u].rebuilt = new[u].rebuilt
    OBVIOUS
  <2>1. new[u] \in JobRec(u) /\ job'[u] = Noted(o, u, new[u])
    BY <1>1, <1>2
  <2> QED
    BY <2>1 DEF Noted, JobRec
<1> QED
  BY <1>1, <1>3 DEF SameTo

(* What a step of a clean pass may start from.                             *)
LEMMA CleanNow ==
  ASSUME CleanInv, calm, pass.on
  PROVE  /\ CleanPass
         /\ \A v \in Target : job[v].pc # "done" => ~job[v].rebuilt
BY DEF CleanInv, CleanPass

(* A step of v that leaves the files alone and does not end its job.       *)
LEMMA CleanPlain ==
  ASSUME TypeOK, CleanInv, calm, pass.on, UNCHANGED <<disk, saved, pass>>,
         NEW v \in Target, job[v].pc \notin {"new", "done"},
         NEW rec, job' = [job EXCEPT ![v] = rec],
         rec.pc \notin {"judged", "done"}, rec.rebuilt = job[v].rebuilt
  PROVE  CleanInv'
<1>1. job'[v] = rec /\ \A u \in Target \ {v} : SameTo(u)
  BY ReplacedJob
<1>2. ~job'[v].rebuilt
  BY <1>1, CleanNow
<1> QED
  BY <1>1, <1>2, CleanMoves

LEMMA CleanStep ==
  ASSUME TypeOK, CleanInv, calm, calm', pass.on, NEW v \in Target, Step(v)
  PROVE  CleanInv'
<1>a. job[v] \in JobRec(v) /\ CleanPass /\ (job[v].pc # "done" => ~job[v].rebuilt)
  BY CleanNow DEF TypeOK
<1>1. CASE Judge(v)
  <2> DEFINE rec == [job[v] EXCEPT !.pc = "judged", !.verdict = Verdict(v)]
  <2>1. /\ job[v].pc = "new" /\ job' = [job EXCEPT ![v] = rec]
        /\ UNCHANGED <<disk, saved, pass>>
        /\ \A u \in Before(v) : job[u].pc \in IF pass.jobs = 1 THEN {"done"} ELSE {"judged"}
    BY <1>1 DEF Judge
  <2>2. rec.pc = "judged" /\ rec.verdict = Verdict(v) /\ rec.rebuilt = job[v].rebuilt
    BY <1>a DEF JobRec
  <2> HIDE DEF rec
  <2>3. \A u \in Before(v) : job[u].pc = "done"
    BY <1>a, <2>1 DEF CleanPass
  <2>4. job'[v] = rec /\ \A u \in Target \ {v} : SameTo(u)
    BY <2>1, ReplacedJob
  <2>5. Verdict(v) = "fresh" => FreshBy(pass.cache, v)
    BY DEF Verdict
  <2> QED
    BY <1>a, <2>1, <2>2, <2>3, <2>4, <2>5, CleanMoves
<1>2. CASE Begin(v)
  <2>1. /\ job[v].pc = "judged" /\ UNCHANGED <<disk, saved, pass>>
        /\ ~Unresolved(v)
        /\ job' = IF job[v].verdict = "fresh" THEN Done(v, FALSE)
                  ELSE [job EXCEPT ![v] = [job[v] EXCEPT !.pc = "run"]]
    BY <1>2 DEF Begin, Fails
  <2>2. CASE job[v].verdict = "fresh"
    <3> DEFINE rec == [NewJob(v) EXCEPT !.pc = "done", !.rebuilt = FALSE]
    <3>1. job' = [job EXCEPT ![v] = rec]
      BY <2>1, <2>2 DEF Done
    <3>2. rec.pc = "done" /\ ~rec.rebuilt
      BY DEF NewJob
    <3> HIDE DEF rec
    <3>3. job'[v] = rec /\ \A u \in Target \ {v} : SameTo(u)
      BY <3>1, ReplacedJob
    <3>4. InOrder(v) => FreshBy(pass.cache, v)
      BY <1>a, <2>1, <2>2 DEF CleanPass, OrderGood
    <3> QED
      BY <2>1, <3>2, <3>3, <3>4, CleanMoves
  <2>3. CASE job[v].verdict # "fresh"
    <3> DEFINE rec == [job[v] EXCEPT !.pc = "run"]
    <3>1. job' = [job EXCEPT ![v] = rec]
      BY <2>1, <2>3
    <3>2. rec.pc = "run" /\ rec.rebuilt = job[v].rebuilt
      BY <1>a DEF JobRec
    <3> HIDE DEF rec
    <3> QED
      BY <2>1, <3>1, <3>2, CleanPlain
  <2> QED
    BY <2>2, <2>3
<1>3. CASE RunRecipe(v)
  <2> DEFINE rec == [job[v] EXCEPT !.pc = "commit", !.got = Ins(v), !.todo = Output[v]]
  <2>1. /\ job[v].pc = "run" /\ UNCHANGED <<disk, saved, pass>>
        /\ job' = [job EXCEPT ![v] = rec]
    BY <1>3 DEF RunRecipe, RunFails, Fails
  <2>2. rec.pc = "commit" /\ rec.rebuilt = job[v].rebuilt
    BY <1>a DEF JobRec
  <2> HIDE DEF rec
  <2> QED
    BY <2>1, <2>2, CleanPlain
(* One of its outputs is written.                                          *)
<1>4. ASSUME NEW o \in Output[v], NEW c, disk' = [disk EXCEPT ![o] = c],
             NEW rec \in JobRec(v), rec.pc \in {"commit", "copy"},
             rec.rebuilt = job[v].rebuilt,
             job' = Crossed(o, [job EXCEPT ![v] = rec]),
             job[v].pc \in {"commit", "copy"}, UNCHANGED <<saved, pass>>
      PROVE  CleanInv'
  <2>1. /\ job'[v].pc = rec.pc /\ job'[v].rebuilt = rec.rebuilt
        /\ \A u \in Target \ {v} : SameTo(u)
    BY <1>4, ReplacedAndNoted
  <2>2. \A f \in File : disk'[f] # disk[f] => f \in Output[v]
    BY <1>4 DEF TypeOK, Contents
  <2> QED
    BY <1>4, <1>a, <2>1, <2>2, CleanMoves
<1>5. CASE Commit(v)
  <2>1. job[v].pc = "commit" /\ UNCHANGED <<saved, pass>>
    BY <1>5 DEF Commit
  <2>2. PICK o \in job[v].todo :
          \/ /\ disk' = [disk EXCEPT ![o] = Staged(v)]
             /\ job' = Crossed(o, [job EXCEPT ![v] =
                                    [job[v] EXCEPT !.todo = job[v].todo \ {o}]])
          \/ /\ disk' = [disk EXCEPT ![o] = Torn]
             /\ job' = Crossed(o, [job EXCEPT ![v] =
                                    [job[v] EXCEPT !.pc = "copy", !.at = o]])
    BY <1>5 DEF Commit, RunFails, Fails
  <2>3. o \in Output[v]
    BY <1>a DEF JobRec
  <2>4. CASE /\ disk' = [disk EXCEPT ![o] = Staged(v)]
             /\ job' = Crossed(o, [job EXCEPT ![v] =
                                    [job[v] EXCEPT !.todo = job[v].todo \ {o}]])
    <3> DEFINE rec == [job[v] EXCEPT !.todo = job[v].todo \ {o}]
    <3>1. rec \in JobRec(v) /\ rec.pc = "commit" /\ rec.rebuilt = job[v].rebuilt
      BY <1>a, <2>1 DEF JobRec
    <3>2. job' = Crossed(o, [job EXCEPT ![v] = rec])
      BY <2>4
    <3> HIDE DEF rec
    <3> QED
      BY <1>4, <2>1, <2>3, <2>4, <3>1, <3>2
  <2>5. CASE /\ disk' = [disk EXCEPT ![o] = Torn]
             /\ job' = Crossed(o, [job EXCEPT ![v] =
                                    [job[v] EXCEPT !.pc = "copy", !.at = o]])
    <3> DEFINE rec == [job[v] EXCEPT !.pc = "copy", !.at = o]
    <3>1. rec \in JobRec(v) /\ rec.pc = "copy" /\ rec.rebuilt = job[v].rebuilt
      BY <1>a, <2>3 DEF JobRec
    <3>2. job' = Crossed(o, [job EXCEPT ![v] = rec])
      BY <2>5
    <3> HIDE DEF rec
    <3> QED
      BY <1>4, <2>1, <2>3, <2>5, <3>1, <3>2
  <2> QED
    BY <2>2, <2>4, <2>5
<1>6. CASE Copy(v)
  <2> DEFINE o == job[v].at
             rec == [job[v] EXCEPT !.pc = "commit", !.todo = job[v].todo \ {o}]
  <2>1. /\ job[v].pc = "copy" /\ UNCHANGED <<saved, pass>>
        /\ disk' = [disk EXCEPT ![o] = Staged(v)]
        /\ job' = Crossed(o, [job EXCEPT ![v] = rec])
    BY <1>6 DEF Copy, RunFails, Fails
  <2>2. o \in Output[v]
    BY <1>a, <2>1 DEF TypeOK, JobRec
  <2>3. rec \in JobRec(v) /\ rec.pc = "commit" /\ rec.rebuilt = job[v].rebuilt
    BY <1>a DEF JobRec
  <2> HIDE DEF rec, o
  <2> QED
    BY <1>4, <2>1, <2>2, <2>3
<1>7. CASE Committed(v)
  <2> DEFINE again == [job[v] EXCEPT !.pc = "run", !.again = TRUE, !.first = Outs(v)]
             last == [job[v] EXCEPT !.pc = "record",
                        !.unstable = job[v].again /\ Outs(v) # job[v].first]
  <2>1. /\ job[v].pc = "commit" /\ UNCHANGED <<disk, saved, pass>>
        /\ job' = [job EXCEPT ![v] = IF pass.option = "verify" /\ ~job[v].again
                                     THEN again ELSE last]
    BY <1>7 DEF Committed
  <2>2. /\ again.pc = "run" /\ again.rebuilt = job[v].rebuilt
        /\ last.pc = "record" /\ last.rebuilt = job[v].rebuilt
    BY <1>a DEF JobRec
  <2> HIDE DEF again, last
  <2>3. \E rec \in {again, last} : job' = [job EXCEPT ![v] = rec]
    BY <2>1
  <2> QED
    BY <2>1, <2>2, <2>3, CleanPlain
<1>8. CASE Record(v)
  <2> DEFINE entry == [id |-> Ins(v), out |-> Outs(v), unstable |-> job[v].unstable,
                       edited |-> job[v].edited, crossed |-> job[v].crossed]
             rec == [NewJob(v) EXCEPT !.pc = "done", !.rebuilt = TRUE]
             cache == [pass.cache EXCEPT ![v] = entry]
  <2>1. /\ job[v].pc = "record" /\ UNCHANGED <<disk, saved>>
        /\ ~Missing(Output[v]) /\ job' = [job EXCEPT ![v] = rec]
        /\ pass' = [pass EXCEPT !.cache = cache]
    BY <1>8, <1>a DEF Record, Fails, Done, CleanPass
  <2>2. rec.pc = "done" /\ rec.rebuilt
    BY DEF NewJob
  <2>3. cache[v] = entry /\ \A t \in Target \ {v} : cache[t] = pass.cache[t]
    BY DEF TypeOK
  <2>4. entry.id = Ins(v) /\ entry.out = Outs(v) /\ entry # None
    <3>1. entry.id = Ins(v) /\ entry.out = Outs(v)
      OBVIOUS
    <3>2. entry \in EntryOf(v)
      BY <1>a, ContentsType DEF EntryOf, JobRec
    <3> QED
      BY <3>1, <3>2, EntryAssumption
  <2> HIDE DEF rec, entry, cache
  <2>5. job'[v] = rec /\ \A u \in Target \ {v} : SameTo(u)
    BY <2>1, ReplacedJob
  <2>6. /\ pass'.cache = cache /\ pass'.on /\ pass'.jobs = pass.jobs
        /\ pass'.option = pass.option
    BY <2>1 DEF TypeOK
  <2>7. \A t \in Target : Ins(t)' = Ins(t) /\ Outs(t)' = Outs(t)
    BY <2>1 DEF Ins, Outs
  <2>8. FreshBy(pass.cache, v)'
    BY <2>1, <2>3, <2>4, <2>6, <2>7 DEF FreshBy, Missing
  <2>9. ASSUME NEW t \in Target, FreshBy(pass.cache, t) PROVE FreshBy(pass.cache, t)'
    BY <2>1, <2>3, <2>6, <2>7, <2>8, <2>9 DEF FreshBy, Missing
  <2>10. \A t \in Target : job[t].pc = "done" => job'[t].pc = "done"
    BY <2>1, <2>2, <2>5 DEF SameTo
  <2>11. ASSUME NEW t \in Target, InOrder(t)' PROVE OrderGood(t)'
    <3>1. OrderGood(t)
      BY <1>a, <2>11 DEF CleanPass, InOrder, Before
    <3>2. Before(t) \subseteq Target
      BY DEF Before
    <3>3. job'[t].pc # "new" => job[t].pc # "new"
      BY <2>1, <2>5 DEF SameTo
    <3>4. CASE t = v
      BY <2>2, <2>5, <2>8, <2>10, <3>1, <3>2, <3>3, <3>4 DEF OrderGood, Before
    <3>5. CASE t # v
      <4>1. SameTo(t)
        BY <2>5, <3>5
      <4> QED
        BY <2>9, <2>10, <3>1, <3>2, <4>1 DEF OrderGood, SameTo, Before
    <3> QED
      BY <3>4, <3>5
  <2>12. \A t \in Target : job'[t].rebuilt => job'[t].pc = "done"
    BY <1>a, <2>2, <2>5 DEF CleanPass, SameTo
  <2>13. ~ \A t \in Target : ~job'[t].rebuilt
    BY <2>2, <2>5
  <2> QED
    BY <1>a, <2>6, <2>11, <2>12, <2>13 DEF CleanInv, CleanPass
<1> QED
  BY <1>1, <1>2, <1>3, <1>5, <1>6, <1>7, <1>8 DEF Step

LEMMA CleanNext == TypeOK /\ CleanInv /\ [Next]_vars => CleanInv'
<1> SUFFICES ASSUME TypeOK, CleanInv, [Next]_vars, calm' PROVE CleanInv'
  BY DEF CleanInv
<1>a. \A t \in Target : InOrder(t)' <=> InOrder(t)
  BY DEF InOrder, Before
<1>1. ASSUME NEW flags \in Flags, StartPass(flags[1], flags[2]) PROVE CleanInv'
  <2>1. /\ pass' = [on |-> TRUE, jobs |-> 1, option |-> flags[2], cache |-> saved]
        /\ flags[2] # "no-cache" /\ job' = NoJobs /\ saved' = saved
    BY <1>1 DEF StartPass
  <2>2. \A t \in Target : job'[t].pc = "new" /\ ~job'[t].rebuilt
    BY <2>1 DEF NoJobs, NewJob
  <2>3. CleanPass'
    BY <2>1, <2>2 DEF CleanPass, OrderGood
  <2> QED
    BY <2>1, <2>3 DEF CleanInv
<1>2. ASSUME NEW t \in Target, Step(t) PROVE CleanInv'
  <2>1. pass.on \/ job[t].pc # "new"
    BY <1>2 DEF Step, Judge, Begin, RunRecipe, Commit, Copy, Committed, Record
  <2>2. calm
    <3>1. Fails(t) \/ RunFails(t) => ~calm'
      BY DEF Fails, RunFails
    <3>2. CASE Judge(t) \/ Begin(t) \/ RunRecipe(t)
      BY <3>1, <3>2 DEF Judge, Begin, RunRecipe
    <3>3. CASE Commit(t) \/ Copy(t)
      BY <3>1, <3>3 DEF Commit, Copy
    <3>4. CASE Committed(t) \/ Record(t)
      BY <3>1, <3>4 DEF Committed, Record
    <3> QED
      BY <1>2, <3>2, <3>3, <3>4 DEF Step
  <2>3. NoJobs[t].pc = "new"
    BY NoJobsOK
  <2> QED
    BY <1>2, <2>1, <2>2, <2>3, CleanStep DEF CleanInv
<1>3. CASE EndPass
  <2>1. /\ calm /\ pass.on /\ pass' = NoPass /\ job' = NoJobs /\ UNCHANGED disk
        /\ \A t \in Target : job[t].pc = "done"
        /\ \/ saved' = pass.cache
           \/ /\ saved' = saved
              /\ pass.option = "no-cache" \/ \A t \in Target : ~job[t].rebuilt
    BY <1>3 DEF EndPass, Save
  <2>2. CleanPass
    BY <2>1 DEF CleanInv
  <2>3. saved' = pass.cache
    BY <2>1, <2>2 DEF CleanPass
  <2>4. ASSUME NEW t \in Target, InOrder(t) PROVE FreshBy(pass.cache, t)
    <3>1. OrderGood(t) /\ job[t].pc = "done"
      BY <2>1, <2>2, <2>4 DEF CleanPass
    <3> QED
      BY <3>1 DEF OrderGood
  <2>5. \A t \in Target : InOrder(t) => FreshBy(saved, t)'
    BY <2>1, <2>3, <2>4 DEF FreshBy, Missing, Ins, Outs
  <2> QED
    BY <1>a, <2>1, <2>5 DEF CleanInv, NoPass
<1>4. CASE Crash
  BY <1>4 DEF Crash
<1>5. ASSUME NEW f \in File, Edit(f) PROVE CleanInv'
  BY <1>5 DEF Edit
<1>6. CASE UNCHANGED vars
  BY <1>6 DEF vars, CleanInv, CleanPass, OrderGood, FreshBy, Missing, Ins, Outs,
              InOrder, Before
<1> QED
  BY <1>1, <1>2, <1>3, <1>4, <1>5, <1>6 DEF Next

(* After a pass that ran one job at a time, without the cache being left    *)
(* out, in which nothing failed and during which nothing was edited, every *)
(* target whose inputs come from earlier targets is fresh, whatever passes, *)
(* failures and crashes came before it (CheckStaleness after RecordBuild).  *)
THEOREM CleanPassesSettle == Spec => []CleanPassIsFresh
<1>1. Init => CleanInv
  BY DEF Init, CleanInv
<1>2. CleanInv => CleanPassIsFresh
  BY DEF CleanInv, CleanPassIsFresh
<1> QED
  BY <1>1, <1>2, CleanNext, TypeCorrect, PTL DEF Spec
=============================================================================
