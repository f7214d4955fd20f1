----------------------- MODULE LspDiagnostics_proofs -----------------------
(***************************************************************************)
(* Proofs about the diagnostics the language server pushes                 *)
(* (LspDiagnostics) and about the session its lints check through          *)
(* (Session), for every set of documents, goroutines, settings exchanges   *)
(* and callers and every bound.                                            *)
(***************************************************************************)
EXTENDS LspDiagnostics, Session, TLAPS

USE DEF Thread, TaskPc, JobPc, OnUri, Trigger

-----------------------------------------------------------------------------
(* What the helpers build is well typed.                                   *)

LEMMA ZeroGen == 0 \in Gen
  BY ConstantsAssumption DEF Gen

LEMMA IdleType == Idle \in JobRec
  BY DEF Idle, JobRec

LEMMA FreeType == Free \in TaskRec
  BY DEF Free, TaskRec

LEMMA RestType ==
  ASSUME NEW j \in JobRec, NEW pc \in {"schedule", "clear"},
         NEW S \in SUBSET Uri
  PROVE  Rest(j, pc, S) \in JobRec
  BY IdleType DEF Rest, JobRec

LEMMA ScheduleType ==
  ASSUME NEW S \in SUBSET Uri, NEW trig \in Trigger
  PROVE  Schedule(S, trig) \in JobRec
  BY IdleType DEF Schedule, JobRec

LEMMA StopTimersType ==
  ASSUME task \in [Task -> TaskRec], NEW S
  PROVE  StopTimers(S) \in [Task -> TaskRec]
  BY FreeType DEF StopTimers

LEMMA InitType == Init => TypeOK
  BY ZeroGen, IdleType, FreeType DEF Init, TypeOK, Mode

-----------------------------------------------------------------------------
(* Every step keeps every variable of its type.                            *)
LEMMA TypeStep == TypeOK /\ [Next]_vars => TypeOK'
<1> SUFFICES ASSUME TypeOK, [Next]_vars PROVE TypeOK'
  OBVIOUS
<1> USE ZeroGen, IdleType, FreeType DEF TypeOK
<1>1. ASSUME NEW u \in Uri, NEW trig \in Trigger, Edit(u, trig) PROVE TypeOK'
  <2>1. edits[u] + 1 \in Gen
    BY <1>1, ConstantsAssumption DEF Edit, Gen
  <2> QED
    BY <1>1, <2>1, ScheduleType DEF Edit
<1>2. ASSUME NEW u \in Uri, DidSave(u) PROVE TypeOK'
  BY <1>2, ScheduleType DEF DidSave
<1>3. ASSUME NEW u \in Uri, DidClose(u) PROVE TypeOK'
  <2>1. [Idle EXCEPT !.pc = "cancel", !.uri = u] \in JobRec
    BY DEF Idle, JobRec
  <2> QED
    BY <1>3, <2>1 DEF DidClose
<1>4. ASSUME NEW u \in Uri, CloseCancel(u) PROVE TypeOK'
  <2>1. [job[Main] EXCEPT !.pc = "uncache"] \in JobRec
    BY <1>4 DEF CloseCancel, JobRec
  <2> QED
    BY <1>4, <2>1, StopTimersType DEF CloseCancel
<1>5. ASSUME NEW u \in Uri, CloseUncache(u) PROVE TypeOK'
  <2>1. [job[Main] EXCEPT !.pc = "unpublish"] \in JobRec
    BY <1>5 DEF CloseUncache, JobRec
  <2> QED
    BY <1>5, <2>1 DEF CloseUncache
<1>6. ASSUME NEW u \in Uri, ClosePublish(u) PROVE TypeOK'
  BY <1>6 DEF ClosePublish
<1>7. ASSUME NEW S \in SUBSET Ignorable, DidChangeConfigFile(S) PROVE TypeOK'
  <2>1. Open \in SUBSET Uri
    BY DEF Open
  <2> QED
    BY <1>7, <2>1, ScheduleType DEF DidChangeConfigFile
<1>8. ASSUME NEW t \in Thread, NEW u \in Uri, ScheduleGate(t, u) PROVE TypeOK'
  <2>1. job[t].todo \ {u} \in SUBSET Uri
    BY DEF JobRec
  <2>2. Rest(job[t], "schedule", job[t].todo \ {u}) \in JobRec
    BY <2>1, RestType
  <2>3. [job[t] EXCEPT !.pc = "arm", !.uri = u, !.todo = job[t].todo \ {u}] \in JobRec
    BY <2>1 DEF JobRec
  <2> QED
    BY <1>8, <2>2, <2>3 DEF ScheduleGate
<1>9. ASSUME NEW t \in Thread, NEW l \in Task, ScheduleArm(t, l) PROVE TypeOK'
  <2>1. job[t].todo \in SUBSET Uri /\ job[t].uri \in Uri
    BY <1>9 DEF ScheduleArm, JobRec
  <2>2. Rest(job[t], "schedule", job[t].todo) \in JobRec
    BY <2>1, RestType
  <2>3. [pc |-> "armed", uri |-> job[t].uri, gen |-> 0] \in TaskRec
    BY <2>1 DEF TaskRec
  <2>4. StopTimers({pending[job[t].uri]}) \in [Task -> TaskRec]
    BY StopTimersType
  <2> QED
    BY <1>9, <2>1, <2>2, <2>3, <2>4 DEF ScheduleArm
<1>10. ASSUME NEW l \in Task, Fire(l) PROVE TypeOK'
  <2>1. [task[l] EXCEPT !.pc = "fired"] \in TaskRec
    BY <1>10 DEF Fire, TaskRec
  <2> QED
    BY <1>10, <2>1 DEF Fire
<1>11. ASSUME NEW l \in Task, RunLintIfCurrent(l) PROVE TypeOK'
  <2>1. [task[l] EXCEPT !.pc = "start"] \in TaskRec
    BY <1>11 DEF RunLintIfCurrent, TaskRec
  <2> QED
    BY <1>11, <2>1 DEF RunLintIfCurrent
<1>12. ASSUME NEW l \in Task, LintStart(l) PROVE TypeOK'
  <2>1. task[l].uri \in Uri
    BY <1>12 DEF LintStart, TaskRec
  <2>2. docs[task[l].uri] \in Gen
    BY <2>1
  <2>3. \A pc \in {"ignored", "check"} :
          [task[l] EXCEPT !.gen = docs[task[l].uri], !.pc = pc] \in TaskRec
    BY <1>12, <2>2 DEF LintStart, TaskRec
  <2> QED
    BY <1>12, <2>3 DEF LintStart
<1>13. ASSUME NEW l \in Task, IgnoredUncache(l) PROVE TypeOK'
  <2>1. [task[l] EXCEPT !.pc = "unshow"] \in TaskRec
    BY <1>13 DEF IgnoredUncache, TaskRec
  <2> QED
    BY <1>13, <2>1 DEF IgnoredUncache
<1>14. ASSUME NEW l \in Task, IgnoredPublish(l) PROVE TypeOK'
  <2>1. task[l].uri \in Uri
    BY <1>14 DEF IgnoredPublish, TaskRec
  <2> QED
    BY <1>14, <2>1 DEF IgnoredPublish, Settle
<1>15. ASSUME NEW l \in Task, LintCheck(l) PROVE TypeOK'
  <2>1. [task[l] EXCEPT !.pc = "publish"] \in TaskRec
    BY <1>15 DEF LintCheck, TaskRec
  <2> QED
    BY <1>15, <2>1 DEF LintCheck
<1>16. ASSUME NEW l \in Task, LintPublish(l) PROVE TypeOK'
  <2>1. task[l].uri \in Uri /\ task[l].gen \in Gen
    BY <1>16 DEF LintPublish, TaskRec
  <2> QED
    BY <1>16, <2>1 DEF LintPublish, Settle
<1>17. ASSUME NEW f \in Fetcher, DidChangeConfiguration(f) PROVE TypeOK'
  <2>1. [job[f] EXCEPT !.pc = "waiting"] \in JobRec
    BY <1>17 DEF DidChangeConfiguration, JobRec
  <2> QED
    BY <1>17, <2>1 DEF DidChangeConfiguration
<1>18. ASSUME NEW f \in Fetcher, FetchGiveUp(f) PROVE TypeOK'
  BY <1>18 DEF FetchGiveUp
<1>19. ASSUME NEW f \in Fetcher, NEW m \in Mode, FetchApply(f, m) PROVE TypeOK'
  <2>1. [job[f] EXCEPT !.pc = "reload"] \in JobRec
    BY <1>19 DEF FetchApply, JobRec
  <2> QED
    BY <1>19, <2>1 DEF FetchApply
<1>20. ASSUME NEW f \in Fetcher, NEW S \in SUBSET Ignorable, FetchReload(f, S)
       PROVE TypeOK'
  <2>1. [job[f] EXCEPT !.pc = "decide"] \in JobRec
    BY <1>20 DEF FetchReload, JobRec
  <2> QED
    BY <1>20, <2>1 DEF FetchReload
<1>21. ASSUME NEW f \in Fetcher, FetchDecide(f) PROVE TypeOK'
  <2>1. Open \in SUBSET Uri
    BY DEF Open
  <2>2. /\ Rest(job[f], "clear", Open) \in JobRec
        /\ Schedule(Open, "config") \in JobRec
    BY <2>1, RestType, ScheduleType
  <2> QED
    BY <1>21, <2>2 DEF FetchDecide
<1>22. ASSUME NEW f \in Fetcher, NEW u \in Uri, ClearCancel(f, u) PROVE TypeOK'
  <2>1. [job[f] EXCEPT !.pc = "unshow", !.uri = u, !.todo = @ \ {u}] \in JobRec
    BY <1>22 DEF ClearCancel, JobRec
  <2> QED
    BY <1>22, <2>1, StopTimersType DEF ClearCancel
<1>23. ASSUME NEW f \in Fetcher, ClearPublish(f) PROVE TypeOK'
  <2>1. job[f].todo \in SUBSET Uri
    BY DEF JobRec
  <2>2. Rest(job[f], "clear", job[f].todo) \in JobRec
    BY <2>1, RestType
  <2> QED
    BY <1>23, <2>2 DEF ClearPublish
<1>24. CASE Shutdown
  <2>1. [job[Main] EXCEPT !.pc = "stop"] \in JobRec
    BY <1>24 DEF Shutdown, Accepts, JobRec
  <2> QED
    BY <1>24, <2>1 DEF Shutdown
<1>25. CASE StopPendingLints
  BY <1>25, StopTimersType DEF StopPendingLints
<1>26. CASE UNCHANGED vars
  BY <1>26 DEF vars
<1> QED
  BY <1>1, <1>2, <1>3, <1>4, <1>5, <1>6, <1>7, <1>8, <1>9, <1>10, <1>11, <1>12,
     <1>13, <1>14, <1>15, <1>16, <1>17, <1>18, <1>19, <1>20, <1>21, <1>22,
     <1>23, <1>24, <1>25, <1>26
     DEF Next, Dispatch, DidOpen, DidChange, MainStep, ScheduleStep, LintStep,
         FetchStep

(* The variables always have their types.                                  *)
THEOREM TypeCorrect == Spec => []TypeOK
<1> QED
  BY InitType, TypeStep, PTL DEF Spec

-----------------------------------------------------------------------------
(* OffIsLastWord is not inductive: when a fetcher decides to clear, it     *)
(* clears the open documents only, so one must know that a closed document *)
(* shows nothing, or was published to after its close, or is being closed. *)

ClosedIsClear ==
  \A u \in Uri : docs[u] = 0 /\ shown[u] # 0 => u \in orphan \/ Closing(u)

OffInv == OffIsLastWord /\ ClosedIsClear

LEMMA OffInit == Init => OffInv
  BY DEF Init, OffInv, OffIsLastWord, ClosedIsClear

(* A step that touches neither what is shown nor the two threads' roles.   *)
LEMMA OffFrame ==
  ASSUME OffInv, UNCHANGED <<docs, mode, shown, orphan>>,
         \A u \in Uri : Closing(u) => Closing(u)',
         \A u \in Uri : \A f \in Fetcher : ClearDue(f, u) => ClearDue(f, u)'
  PROVE  OffInv'
  BY DEF OffInv, OffIsLastWord, ClosedIsClear

(* A step of the dispatch goroutine leaves the fetchers where they are.    *)
LEMMA MainStepsAside ==
  ASSUME TypeOK, NEW j, job' = [job EXCEPT ![Main] = j],
         NEW f \in Fetcher, NEW u \in Uri
  PROVE  ClearDue(f, u)' <=> ClearDue(f, u)
<1>1. job'[f] = job[f]
  BY ConstantsAssumption DEF TypeOK
<1> QED
  BY <1>1 DEF ClearDue

(* A step of a fetcher leaves the dispatch goroutine where it is.          *)
LEMMA FetcherStepsAside ==
  ASSUME TypeOK, NEW f \in Fetcher, NEW j, job' = [job EXCEPT ![f] = j],
         NEW u \in Uri
  PROVE  Closing(u)' <=> Closing(u)
<1>1. job'[Main] = job[Main]
  BY ConstantsAssumption DEF TypeOK
<1> QED
  BY <1>1 DEF Closing

LEMMA OffStep == TypeOK /\ OffInv /\ [Next]_vars => OffInv'
<1> SUFFICES ASSUME TypeOK, OffInv, [Next]_vars PROVE OffInv'
  OBVIOUS
<1>1. ASSUME NEW u \in Uri, NEW trig \in Trigger, Accepts, Edit(u, trig)
      PROVE  OffInv'
  <2>1. \A v \in Uri : docs'[v] = 0 => docs[v] = 0
    BY <1>1 DEF Edit, TypeOK, Gen
  <2>2. \A v \in Uri : ~Closing(v)
    BY <1>1 DEF Accepts, Closing
  <2>3. \A v \in Uri : \A f \in Fetcher : ClearDue(f, v)' <=> ClearDue(f, v)
    BY <1>1, MainStepsAside DEF Edit
  <2>4. UNCHANGED <<mode, shown, orphan>>
    BY <1>1 DEF Edit
  <2> QED
    BY <2>1, <2>2, <2>3, <2>4 DEF OffInv, OffIsLastWord, ClosedIsClear
<1>2. ASSUME NEW u \in Uri, DidClose(u) PROVE OffInv'
  <2>1. \A v \in Uri : v # u => docs'[v] = docs[v]
    BY <1>2 DEF DidClose, TypeOK
  <2>2. \A v \in Uri : ~Closing(v)
    BY <1>2 DEF DidClose, Accepts, Closing
  <2>3. Closing(u)'
    BY <1>2 DEF DidClose, Closing, TypeOK, Idle
  <2>4. \A v \in Uri : \A f \in Fetcher : ClearDue(f, v)' <=> ClearDue(f, v)
    BY <1>2, MainStepsAside DEF DidClose
  <2>5. UNCHANGED <<mode, shown, orphan>>
    BY <1>2 DEF DidClose
  <2> QED
    BY <2>1, <2>2, <2>3, <2>4, <2>5 DEF OffInv, OffIsLastWord, ClosedIsClear
<1>3. ASSUME NEW u \in Uri, CloseCancel(u) \/ CloseUncache(u) PROVE OffInv'
  <2>1. \A v \in Uri : Closing(v) => Closing(v)'
    BY <1>3 DEF CloseCancel, CloseUncache, Closing, TypeOK, JobRec
  <2>2. \A v \in Uri : \A f \in Fetcher : ClearDue(f, v)' <=> ClearDue(f, v)
    BY <1>3, MainStepsAside DEF CloseCancel, CloseUncache
  <2> QED
    BY <1>3, <2>1, <2>2, OffFrame DEF CloseCancel, CloseUncache
<1>4. ASSUME NEW u \in Uri, ClosePublish(u) PROVE OffInv'
  <2>1. shown'[u] = 0 /\ \A v \in Uri : v # u => shown'[v] = shown[v]
    BY <1>4 DEF ClosePublish, TypeOK
  <2>2. \A v \in Uri : v # u => ~Closing(v)
    BY <1>4 DEF ClosePublish, Closing
  <2>3. \A v \in Uri : \A f \in Fetcher : ClearDue(f, v)' <=> ClearDue(f, v)
    BY <1>4, MainStepsAside DEF ClosePublish
  <2>4. UNCHANGED <<mode, docs>> /\ orphan' = orphan \ {u}
    BY <1>4 DEF ClosePublish
  <2> QED
    BY <2>1, <2>2, <2>3, <2>4 DEF OffInv, OffIsLastWord, ClosedIsClear
<1>5. ASSUME NEW j, job' = [job EXCEPT ![Main] = j], \A v \in Uri : ~Closing(v),
             UNCHANGED <<docs, mode, shown, orphan>>
      PROVE  OffInv'
  <2>1. \A v \in Uri : \A f \in Fetcher : ClearDue(f, v)' <=> ClearDue(f, v)
    BY <1>5, MainStepsAside
  <2> QED
    BY <1>5, <2>1, OffFrame
<1>6. ASSUME NEW f \in Fetcher, NEW j, job' = [job EXCEPT ![f] = j],
             \A v \in Uri : ~ClearDue(f, v),
             UNCHANGED <<docs, mode, shown, orphan>>
      PROVE  OffInv'
  <2>1. \A g \in Fetcher : g # f => job'[g] = job[g]
    BY <1>6 DEF TypeOK
  <2>2. \A v \in Uri : \A g \in Fetcher : ClearDue(g, v) => ClearDue(g, v)'
    BY <1>6, <2>1 DEF ClearDue
  <2>3. \A v \in Uri : Closing(v)' <=> Closing(v)
    BY <1>6, FetcherStepsAside
  <2> QED
    BY <1>6, <2>2, <2>3, OffFrame
<1>7. ASSUME NEW t \in Thread, ScheduleStep(t) PROVE OffInv'
  <2>1. /\ job[t].pc \in {"schedule", "arm"}
        /\ \E j : job' = [job EXCEPT ![t] = j]
        /\ UNCHANGED <<docs, mode, shown, orphan>>
    BY <1>7 DEF ScheduleStep, ScheduleGate, ScheduleArm
  <2>2. CASE t = Main
    BY <1>5, <2>1, <2>2 DEF Closing
  <2>3. CASE t \in Fetcher
    BY <1>6, <2>1, <2>3 DEF ClearDue
  <2> QED
    BY <2>2, <2>3
<1>8. CASE Shutdown \/ StopPendingLints \/ \E u \in Uri : DidSave(u)
  <2>1. /\ \E j : job' = [job EXCEPT ![Main] = j]
        /\ UNCHANGED <<docs, mode, shown, orphan>>
    BY <1>8 DEF Shutdown, StopPendingLints, DidSave
  <2>2. \A v \in Uri : ~Closing(v)
    BY <1>8 DEF Shutdown, StopPendingLints, DidSave, Accepts, Closing
  <2> QED
    BY <1>5, <2>1, <2>2
<1>9. ASSUME NEW S \in SUBSET Ignorable, DidChangeConfigFile(S) PROVE OffInv'
  <2>1. \A v \in Uri : ~Closing(v)
    BY <1>9 DEF DidChangeConfigFile, Accepts, Closing
  <2> QED
    BY <1>5, <1>9, <2>1 DEF DidChangeConfigFile
<1>10. ASSUME NEW f \in Fetcher, DidChangeConfiguration(f) \/ FetchGiveUp(f)
       PROVE  OffInv'
  <2>1. /\ \E j : job' = [job EXCEPT ![f] = j]
        /\ UNCHANGED <<docs, mode, shown, orphan>>
    BY <1>10 DEF DidChangeConfiguration, FetchGiveUp
  <2>2. \A v \in Uri : ~ClearDue(f, v)
    BY <1>10 DEF DidChangeConfiguration, FetchGiveUp, ClearDue
  <2> QED
    BY <1>6, <2>1, <2>2
<1>11. ASSUME NEW f \in Fetcher, NEW m \in Mode, FetchApply(f, m) PROVE OffInv'
  <2>1. \A u \in Uri : ClearDue(f, u)'
    BY <1>11 DEF FetchApply, ClearDue, TypeOK
  <2>2. \A u \in Uri : Closing(u)' <=> Closing(u)
    BY <1>11, FetcherStepsAside DEF FetchApply
  <2> QED
    BY <1>11, <2>1, <2>2 DEF FetchApply, OffInv, OffIsLastWord, ClosedIsClear
<1>12. ASSUME NEW f \in Fetcher, NEW S \in SUBSET Ignorable, FetchReload(f, S)
       PROVE  OffInv'
  <2>1. \A u \in Uri : ClearDue(f, u)'
    BY <1>12 DEF FetchReload, ClearDue, TypeOK
  <2>2. \A u \in Uri : Closing(u)' <=> Closing(u)
    BY <1>12, FetcherStepsAside DEF FetchReload
  <2> QED
    BY <1>12, <2>1, <2>2 DEF FetchReload, OffInv, OffIsLastWord, ClosedIsClear
<1>13. ASSUME NEW f \in Fetcher, FetchDecide(f) PROVE OffInv'
  <2>1. \A u \in Uri : Closing(u)' <=> Closing(u)
    BY <1>13, FetcherStepsAside DEF FetchDecide
  <2>2. ASSUME mode = "off", NEW u \in Uri, docs[u] # 0 PROVE ClearDue(f, u)'
    BY <1>13, <2>2 DEF FetchDecide, ClearDue, TypeOK, Rest, Open, JobRec
  <2> QED
    BY <1>13, <2>1, <2>2 DEF FetchDecide, OffInv, OffIsLastWord, ClosedIsClear
<1>14. ASSUME NEW f \in Fetcher, NEW u \in Uri, ClearCancel(f, u) PROVE OffInv'
  <2>1. \A v \in Uri : Closing(v)' <=> Closing(v)
    <3>1. job'[Main] = job[Main]
      BY <1>14, ConstantsAssumption DEF ClearCancel, TypeOK
    <3> QED
      BY <3>1 DEF Closing
  <2>2. \A v \in Uri : \A g \in Fetcher : ClearDue(g, v) => ClearDue(g, v)'
    BY <1>14 DEF ClearCancel, ClearDue, TypeOK, JobRec
  <2> QED
    BY <1>14, <2>1, <2>2, OffFrame DEF ClearCancel
<1>15. ASSUME NEW f \in Fetcher, ClearPublish(f) PROVE OffInv'
  <2> DEFINE u == job[f].uri
  <2>1. u \in Uri /\ job[f].todo \in SUBSET Uri
    BY <1>15 DEF ClearPublish, TypeOK, JobRec
  <2>2. shown'[u] = 0 /\ \A v \in Uri : v # u => shown'[v] = shown[v]
    BY <1>15, <2>1 DEF ClearPublish, TypeOK
  <2>3. \A v \in Uri : Closing(v)' <=> Closing(v)
    BY <1>15, FetcherStepsAside DEF ClearPublish
  <2>4. \A v \in Uri : \A g \in Fetcher :
          v # u /\ ClearDue(g, v) => ClearDue(g, v)'
    BY <1>15 DEF ClearPublish, ClearDue, TypeOK, Rest, JobRec
  <2>5. UNCHANGED <<mode, docs>> /\ orphan' = orphan \ {u}
    BY <1>15 DEF ClearPublish
  <2> QED
    BY <2>1, <2>2, <2>3, <2>4, <2>5 DEF OffInv, OffIsLastWord, ClosedIsClear
<1>16. ASSUME UNCHANGED job, UNCHANGED <<docs, mode, shown, orphan>>
       PROVE  OffInv'
  BY <1>16, OffFrame DEF Closing, ClearDue
<1>17. ASSUME NEW l \in Task, IgnoredPublish(l) PROVE OffInv'
  <2> DEFINE u == task[l].uri
  <2>1. u \in Uri
    BY <1>17 DEF IgnoredPublish, TypeOK, TaskRec
  <2>2. shown'[u] = 0 /\ \A v \in Uri : v # u => shown'[v] = shown[v]
    BY <1>17, <2>1 DEF IgnoredPublish, TypeOK
  <2>3. UNCHANGED <<mode, docs, job>> /\ orphan' = orphan \ {u}
    BY <1>17 DEF IgnoredPublish
  <2> QED
    BY <2>1, <2>2, <2>3
       DEF OffInv, OffIsLastWord, ClosedIsClear, Closing, ClearDue
<1>18. ASSUME NEW l \in Task, LintPublish(l) PROVE OffInv'
  <2>1. CASE mode = "off"
    BY <1>16, <1>18, <2>1 DEF LintPublish
  <2>2. CASE mode # "off"
    <3> DEFINE u == task[l].uri
    <3>1. u \in Uri
      BY <1>18 DEF LintPublish, TypeOK, TaskRec
    <3>2. \A v \in Uri : v # u => shown'[v] = shown[v]
      BY <1>18, <2>2, <3>1 DEF LintPublish, TypeOK
    <3>3. /\ UNCHANGED <<mode, docs, job>>
          /\ orphan' = IF docs[u] = 0 /\ ~Closing(u) THEN orphan \cup {u}
                                                    ELSE orphan \ {u}
      BY <1>18, <2>2 DEF LintPublish
    <3> QED
      BY <2>2, <3>1, <3>2, <3>3
         DEF OffInv, OffIsLastWord, ClosedIsClear, Closing
  <2> QED
    BY <2>1, <2>2
<1>19. ASSUME NEW l \in Task,
              Fire(l) \/ RunLintIfCurrent(l) \/ LintStart(l)
                \/ IgnoredUncache(l) \/ LintCheck(l)
       PROVE  OffInv'
  BY <1>16, <1>19
     DEF Fire, RunLintIfCurrent, LintStart, IgnoredUncache, LintCheck
<1>20. CASE UNCHANGED vars
  BY <1>16, <1>20 DEF vars
<1> QED
  BY <1>1, <1>2, <1>3, <1>4, <1>7, <1>8, <1>9, <1>10, <1>11, <1>12, <1>13,
     <1>14, <1>15, <1>17, <1>18, <1>19, <1>20
     DEF Next, Dispatch, DidOpen, DidChange, MainStep, FetchStep, LintStep

(* Off is a master switch: whatever else the goroutines do, in off mode    *)
(* nothing stays on screen but what a clear under way takes down.          *)
THEOREM OffIsMaster == Spec => []OffIsLastWord
<1>1. OffInv => OffIsLastWord
  BY DEF OffInv
<1> QED
  BY <1>1, OffInit, OffStep, TypeCorrect, PTL DEF Spec

-----------------------------------------------------------------------------
(* A token in the pending map always has its timer.                        *)

LEMMA PendingStep == TypeOK /\ PendingIsLive /\ [Next]_vars => PendingIsLive'
<1> SUFFICES ASSUME TypeOK, PendingIsLive, [Next]_vars,
                    NEW u \in Uri, pending'[u] # NoTask, ~shutdown'
             PROVE  /\ task'[pending'[u]].pc \in {"armed", "fired"}
                    /\ task'[pending'[u]].uri = u
  BY DEF PendingIsLive
<1> DEFINE Live(v) == pending[v] # NoTask /\ ~shutdown =>
                        /\ task[pending[v]].pc \in {"armed", "fired"}
                        /\ task[pending[v]].uri = v
           Goal == /\ task'[pending'[u]].pc \in {"armed", "fired"}
                   /\ task'[pending'[u]].uri = u
<1>0. /\ \A v \in Uri : Live(v)
      /\ \A v \in Uri : pending[v] # NoTask => pending[v] \in Task
  BY DEF PendingIsLive, TypeOK
<1>1. ASSUME UNCHANGED <<pending, shutdown>>, pending[u] # NoTask,
             task'[pending[u]] = task[pending[u]]
      PROVE  Goal
  BY <1>0, <1>1
<1>2. ASSUME UNCHANGED <<pending, shutdown, task>> PROVE Goal
  BY <1>1, <1>2
(* A step of a lint that is past its claim is of a task in no map.         *)
<1>3. ASSUME NEW l \in Task, task[l].pc \notin {"armed", "fired"},
             \A k \in Task \ {l} : task'[k] = task[k],
             UNCHANGED <<pending, shutdown>>
      PROVE  Goal
  <2>1. pending[u] # l
    BY <1>0, <1>3
  <2> QED
    BY <1>0, <1>1, <1>3, <2>1
(* The timer of one document is stopped, and no other's.                   *)
<1>4. ASSUME NEW v \in Uri, task' = StopTimers({pending[v]}),
             pending' = [pending EXCEPT ![v] = NoTask], UNCHANGED shutdown
      PROVE  Goal
  <2>1. u # v /\ pending'[u] = pending[u]
    BY <1>4 DEF TypeOK
  <2>2. pending[u] # pending[v] /\ pending[u] \in Task
    BY <1>0, <1>4, <2>1
  <2>3. task'[pending[u]] = task[pending[u]]
    BY <1>4, <2>2 DEF StopTimers
  <2> QED
    BY <1>0, <1>4, <2>1, <2>3
<1>5. ASSUME NEW t \in Thread, NEW l \in Task, ScheduleArm(t, l) PROVE Goal
  <2> DEFINE v == job[t].uri
             stopped == StopTimers({pending[v]})
  <2>1. v \in Uri
    BY <1>5 DEF ScheduleArm, TypeOK, JobRec
  <2>2. /\ task' = [stopped EXCEPT ![l] = [pc |-> "armed", uri |-> v, gen |-> 0]]
        /\ pending' = [pending EXCEPT ![v] = l]
        /\ task[l].pc = "free" /\ UNCHANGED shutdown
    BY <1>5 DEF ScheduleArm
  <2>3. l \in DOMAIN stopped /\ \A k \in Task \ {l} : task'[k] = stopped[k]
    BY <2>2 DEF StopTimers
  <2>4. task'[l] = [pc |-> "armed", uri |-> v, gen |-> 0]
    BY <2>2, <2>3
  <2>5. CASE u = v
    BY <2>1, <2>2, <2>4, <2>5 DEF TypeOK
  <2>6. CASE u # v
    <3>1. pending'[u] = pending[u]
      BY <2>2, <2>6 DEF TypeOK
    <3>2. pending[u] \in Task /\ pending[u] # l /\ pending[u] # pending[v]
      BY <1>0, <2>1, <2>2, <2>6, <3>1
    <3>3. task'[pending[u]] = task[pending[u]]
      BY <2>3, <3>2 DEF StopTimers
    <3> QED
      BY <1>0, <2>2, <3>1, <3>3
  <2> QED
    BY <2>5, <2>6
<1>6. ASSUME NEW l \in Task, Fire(l) PROVE Goal
  <2>1. task'[l].pc = "fired" /\ task'[l].uri = task[l].uri
    BY <1>6 DEF Fire, TypeOK, TaskRec
  <2>2. \A k \in Task \ {l} : task'[k] = task[k]
    BY <1>6 DEF Fire, TypeOK
  <2>3. UNCHANGED <<pending, shutdown>>
    BY <1>6 DEF Fire
  <2> QED
    BY <1>0, <2>1, <2>2, <2>3
<1>7. ASSUME NEW l \in Task, RunLintIfCurrent(l) PROVE Goal
  <2>1. \A k \in Task \ {l} : task'[k] = task[k]
    BY <1>7 DEF RunLintIfCurrent, TypeOK
  <2>2. /\ UNCHANGED shutdown /\ task[l].pc = "fired"
        /\ pending' = IF pending[task[l].uri] = l /\ ~shutdown
                      THEN [pending EXCEPT ![task[l].uri] = NoTask] ELSE pending
    BY <1>7 DEF RunLintIfCurrent
  <2>3. task[l].uri \in Uri
    BY <2>2 DEF TypeOK, TaskRec
  <2>4. pending'[u] = pending[u] /\ (u = task[l].uri => pending[u] # l)
    BY <2>2, <2>3 DEF TypeOK
  <2>5. pending[u] # l /\ pending[u] \in Task
    BY <1>0, <2>2, <2>4
  <2> QED
    BY <1>0, <2>1, <2>2, <2>4, <2>5
<1>8. ASSUME NEW l \in Task,
             \/ LintStart(l) \/ IgnoredUncache(l) \/ IgnoredPublish(l)
             \/ LintCheck(l) \/ LintPublish(l)
      PROVE  Goal
  <2>1. /\ task[l].pc \notin {"armed", "fired"} /\ UNCHANGED <<pending, shutdown>>
        /\ \E rec : task' = [task EXCEPT ![l] = rec]
    BY <1>8 DEF LintStart, IgnoredUncache, IgnoredPublish, LintCheck, LintPublish
  <2>2. \A k \in Task \ {l} : task'[k] = task[k]
    BY <2>1 DEF TypeOK
  <2> QED
    BY <1>3, <2>1, <2>2
<1>9. ASSUME NEW v \in Uri, CloseCancel(v) PROVE Goal
  BY <1>4, <1>9 DEF CloseCancel
<1>10. ASSUME NEW f \in Fetcher, NEW v \in Uri, ClearCancel(f, v) PROVE Goal
  BY <1>4, <1>10 DEF ClearCancel
<1>11. CASE StopPendingLints
  BY <1>11 DEF StopPendingLints
<1>12. CASE Shutdown
  BY <1>12 DEF Shutdown
<1>13. CASE \E v \in Uri : \/ DidOpen(v) \/ DidChange(v) \/ DidSave(v) \/ DidClose(v)
                           \/ CloseUncache(v) \/ ClosePublish(v)
  BY <1>2, <1>13 DEF DidOpen, DidChange, Edit, DidSave, DidClose, CloseUncache,
                     ClosePublish
<1>14. CASE \E S \in SUBSET Ignorable : DidChangeConfigFile(S)
  BY <1>2, <1>14 DEF DidChangeConfigFile
<1>15. ASSUME NEW t \in Thread, NEW v \in Uri, ScheduleGate(t, v) PROVE Goal
  BY <1>2, <1>15 DEF ScheduleGate
<1>16. ASSUME NEW f \in Fetcher,
              \/ DidChangeConfiguration(f) \/ FetchGiveUp(f)
              \/ \E m \in Mode : FetchApply(f, m)
              \/ \E S \in SUBSET Ignorable : FetchReload(f, S)
              \/ FetchDecide(f) \/ ClearPublish(f)
       PROVE  Goal
  BY <1>2, <1>16 DEF DidChangeConfiguration, FetchGiveUp, FetchApply, FetchReload,
                     FetchDecide, ClearPublish
<1>17. CASE UNCHANGED vars
  BY <1>2, <1>17 DEF vars
<1> QED
  BY <1>5, <1>6, <1>7, <1>8, <1>9, <1>10, <1>11, <1>12, <1>13, <1>14, <1>15,
     <1>16, <1>17
     DEF Next, Dispatch, MainStep, ScheduleStep, FetchStep, LintStep

(* Until shutdown every token in the pending map belongs to a timer that   *)
(* is armed, or has fired and not yet looked: no path that replaces, stops *)
(* or claims a timer strands a token (scheduleLint, cancelPending,         *)
(* runLintIfCurrent).                                                      *)
THEOREM TokensHaveTimers == Spec => []PendingIsLive
<1>1. Init => PendingIsLive
  BY DEF Init, PendingIsLive
<1> QED
  BY <1>1, PendingStep, TypeCorrect, PTL DEF Spec

-----------------------------------------------------------------------------
(* EditCovered needs to know that only off mode clears, which is where one *)
(* settings goroutine differs from two: the mode cannot change under it;   *)
(* that a document whose timer a close cancels is closed; and that timers  *)
(* are only given up altogether by shutdown.                               *)

Alone == \A f, g \in Fetcher : f = g

ClearsWhenOff ==
  \A f \in Fetcher : job[f].pc \in {"clear", "unshow"} => mode = "off"

CloseIsClosed == \A u \in Uri : Closing(u) => docs[u] = 0

StopsForGood == job[Main].pc = "stop" => shutdown

RoleInv == ClearsWhenOff /\ CloseIsClosed /\ StopsForGood

(* The parts of LintComing: a lint under way, and a thread that will start *)
(* one.                                                                    *)
OnItsWay(u, l) ==
  /\ task[l].uri = u
  /\ \/ task[l].pc = "start"
     \/ /\ task[l].pc \in {"ignored", "unshow", "check", "publish"}
        /\ task[l].gen = docs[u]

WillArm(u, t) ==
  \/ job[t].pc \in {"reload", "decide"}
  \/ job[t].pc \in {"schedule", "arm"} /\ u \in job[t].todo
  \/ job[t].pc = "arm" /\ job[t].uri = u

LEMMA ComingParts ==
  ASSUME NEW u \in Uri
  PROVE  /\ LintComing(u) <=> \/ pending[u] # NoTask
                              \/ \E l \in Task : OnItsWay(u, l)
                              \/ \E t \in Thread : WillArm(u, t)
         /\ LintComing(u)' <=> \/ pending'[u] # NoTask
                               \/ \E l \in Task : OnItsWay(u, l)'
                               \/ \E t \in Thread : WillArm(u, t)'
BY DEF LintComing, OnItsWay, WillArm

(* A step changes at most one of the three.                                *)
LEMMA TaskMoves ==
  ASSUME TypeOK, NEW u \in Uri, NEW l \in Task, LintComing(u),
         UNCHANGED <<docs, job>>,
         pending[u] # NoTask => pending'[u] # NoTask \/ OnItsWay(u, l)',
         NEW rec, task' = [task EXCEPT ![l] = rec],
         OnItsWay(u, l) => OnItsWay(u, l)'
  PROVE  LintComing(u)'
<1>1. \A k \in Task \ {l} : OnItsWay(u, k) => OnItsWay(u, k)'
  BY DEF TypeOK, OnItsWay
<1>2. \A t \in Thread : WillArm(u, t) => WillArm(u, t)'
  BY DEF WillArm
<1> QED
  BY <1>1, <1>2, ComingParts

LEMMA JobMoves ==
  ASSUME TypeOK, NEW u \in Uri, NEW t \in Thread, LintComing(u),
         UNCHANGED docs, pending[u] # NoTask => pending'[u] # NoTask,
         \A l \in Task : task[l].pc \in {"armed", "fired"} \/ task'[l] = task[l],
         NEW j, job' = [job EXCEPT ![t] = j],
         WillArm(u, t) => WillArm(u, t)' \/ pending'[u] # NoTask
  PROVE  LintComing(u)'
<1>1. \A l \in Task : OnItsWay(u, l) => OnItsWay(u, l)'
  BY DEF OnItsWay
<1>2. \A s \in Thread \ {t} : WillArm(u, s) => WillArm(u, s)'
  BY DEF TypeOK, WillArm
<1> QED
  BY <1>1, <1>2, ComingParts

LEMMA StopsArmed ==
  ASSUME TypeOK, NEW S, NEW l \in Task
  PROVE  task[l].pc \in {"armed", "fired"} \/ StopTimers(S)[l] = task[l]
BY DEF StopTimers

LEMMA RestPc ==
  ASSUME NEW j \in JobRec, NEW pc, NEW S
  PROVE  Rest(j, pc, S).pc \in {"idle", pc}
BY DEF Rest, Idle, JobRec

LEMMA RoleStep == Alone /\ TypeOK /\ RoleInv /\ [Next]_vars => RoleInv'
<1> SUFFICES ASSUME Alone, TypeOK, RoleInv, [Next]_vars PROVE RoleInv'
  OBVIOUS
<1> USE DEF RoleInv
<1>0. Main \in Thread /\ \A f \in Fetcher : f # Main /\ f \in Thread
  BY ConstantsAssumption
<1>1. ASSUME UNCHANGED <<docs, job, mode, shutdown>> PROVE RoleInv'
  BY <1>1 DEF ClearsWhenOff, CloseIsClosed, StopsForGood, Closing
(* The dispatch goroutine moves, and leaves the fetchers where they are.   *)
<1>2. ASSUME NEW j, job' = [job EXCEPT ![Main] = j], UNCHANGED mode,
             \A u \in Uri : Closing(u)' => docs'[u] = 0,
             j.pc = "stop" => shutdown'
      PROVE  RoleInv'
  <2>1. job'[Main] = j /\ \A f \in Fetcher : job'[f] = job[f]
    BY <1>0, <1>2 DEF TypeOK
  <2> QED
    BY <1>2, <2>1 DEF ClearsWhenOff, CloseIsClosed, StopsForGood
(* A fetcher moves, and leaves the dispatch goroutine where it is.         *)
<1>3. ASSUME NEW f \in Fetcher, NEW j, job' = [job EXCEPT ![f] = j],
             UNCHANGED <<docs, shutdown>>,
             j.pc \in {"clear", "unshow"} => mode' = "off"
      PROVE  RoleInv'
  <2>1. job'[Main] = job[Main] /\ job'[f] = j
    BY <1>0, <1>3 DEF TypeOK
  <2> QED
    BY <1>3, <2>1 DEF Alone, ClearsWhenOff, CloseIsClosed, StopsForGood, Closing
<1>4. ASSUME NEW u \in Uri, NEW trig \in Trigger, Accepts, Edit(u, trig) PROVE RoleInv'
  <2> DEFINE j == Schedule({u}, trig)
  <2>1. job' = [job EXCEPT ![Main] = j] /\ UNCHANGED mode
    BY <1>4 DEF Edit
  <2>2. j.pc \notin {"cancel", "uncache", "unpublish", "stop"}
    BY DEF Schedule, Idle
  <2>3. \A v \in Uri : ~Closing(v)'
    BY <1>0, <2>1, <2>2 DEF Closing, TypeOK
  <2> QED
    BY <1>2, <2>1, <2>2, <2>3
<1>5. ASSUME NEW u \in Uri, DidSave(u) PROVE RoleInv'
  <2> DEFINE j == Schedule({u}, "save")
  <2>1. job' = [job EXCEPT ![Main] = j] /\ UNCHANGED mode
    BY <1>5 DEF DidSave
  <2>2. j.pc \notin {"cancel", "uncache", "unpublish", "stop"}
    BY DEF Schedule, Idle
  <2>3. \A v \in Uri : ~Closing(v)'
    BY <1>0, <2>1, <2>2 DEF Closing, TypeOK
  <2> QED
    BY <1>2, <2>1, <2>2, <2>3
<1>6. ASSUME NEW S \in SUBSET Ignorable, DidChangeConfigFile(S) PROVE RoleInv'
  <2> DEFINE j == Schedule(Open, "config")
  <2>1. job' = [job EXCEPT ![Main] = j] /\ UNCHANGED mode
    BY <1>6 DEF DidChangeConfigFile
  <2>2. j.pc \notin {"cancel", "uncache", "unpublish", "stop"}
    BY DEF Schedule, Idle
  <2>3. \A v \in Uri : ~Closing(v)'
    BY <1>0, <2>1, <2>2 DEF Closing, TypeOK
  <2> QED
    BY <1>2, <2>1, <2>2, <2>3
<1>7. ASSUME NEW u \in Uri, DidClose(u) PROVE RoleInv'
  <2> DEFINE j == [Idle EXCEPT !.pc = "cancel", !.uri = u]
  <2>1. /\ job' = [job EXCEPT ![Main] = j] /\ UNCHANGED <<mode, shutdown>>
        /\ docs'[u] = 0
    BY <1>7 DEF DidClose, TypeOK
  <2>2. j.uri = u /\ j.pc = "cancel"
    BY DEF Idle
  <2>3. \A v \in Uri : Closing(v)' => v = u
    BY <1>0, <2>1, <2>2 DEF Closing, TypeOK
  <2> QED
    BY <1>2, <2>1, <2>2, <2>3
<1>8. ASSUME NEW u \in Uri, CloseCancel(u) \/ CloseUncache(u) PROVE RoleInv'
  <2>1. /\ Closing(u) /\ UNCHANGED <<docs, mode>>
        /\ \E pc \in {"uncache", "unpublish"} : job' = [job EXCEPT ![Main].pc = pc]
    BY <1>8 DEF CloseCancel, CloseUncache, Closing
  <2>2. job'[Main].uri = u /\ job'[Main].pc # "stop"
    BY <1>0, <1>8, <2>1 DEF Closing, TypeOK, JobRec
  <2>3. \A v \in Uri : Closing(v)' => v = u
    BY <2>2 DEF Closing
  <2>4. \E j : job' = [job EXCEPT ![Main] = j] /\ j.pc # "stop"
    BY <1>0, <2>1, <2>2 DEF TypeOK
  <2> QED
    BY <1>2, <2>1, <2>3, <2>4 DEF CloseIsClosed
<1>9. ASSUME NEW u \in Uri, ClosePublish(u) PROVE RoleInv'
  <2>1. job' = [job EXCEPT ![Main] = Idle] /\ UNCHANGED mode
    BY <1>9 DEF ClosePublish
  <2>2. \A v \in Uri : ~Closing(v)'
    BY <1>0, <2>1 DEF Closing, TypeOK, Idle
  <2> QED
    BY <1>2, <2>1, <2>2 DEF Idle
<1>10. CASE StopPendingLints
  <2>1. job' = [job EXCEPT ![Main] = Idle] /\ UNCHANGED mode
    BY <1>10 DEF StopPendingLints
  <2>2. \A v \in Uri : ~Closing(v)'
    BY <1>0, <2>1 DEF Closing, TypeOK, Idle
  <2> QED
    BY <1>2, <2>1, <2>2 DEF Idle
<1>11. CASE Shutdown
  <2>1. /\ job'[Main].pc = "stop" /\ shutdown' /\ UNCHANGED mode
        /\ \E j : job' = [job EXCEPT ![Main] = j]
    BY <1>0, <1>11 DEF Shutdown, TypeOK, JobRec
  <2>2. \A v \in Uri : ~Closing(v)'
    BY <2>1 DEF Closing
  <2> QED
    BY <1>2, <2>1, <2>2
<1>12. ASSUME NEW t \in Thread, ScheduleStep(t) PROVE RoleInv'
  <2>1. /\ UNCHANGED <<docs, mode, shutdown>>
        /\ \E j : /\ job' = [job EXCEPT ![t] = j]
                  /\ j.pc \in {"idle", "schedule", "arm"}
    <3>1. ASSUME NEW u \in Uri, ScheduleGate(t, u)
          PROVE  \E j : /\ job' = [job EXCEPT ![t] = j]
                        /\ j.pc \in {"idle", "schedule", "arm"}
      <4> DEFINE left == job[t].todo \ {u}
                 rest == Rest(job[t], "schedule", left)
                 armed == [job[t] EXCEPT !.pc = "arm", !.uri = u, !.todo = left]
      <4>1. job' = [job EXCEPT ![t] = IF Gated(job[t].trig) THEN rest ELSE armed]
        BY <3>1 DEF ScheduleGate
      <4>2. rest.pc \in {"idle", "schedule"} /\ armed.pc = "arm"
        BY RestPc DEF TypeOK, JobRec
      <4> QED
        BY <4>1, <4>2
    <3>2. ASSUME NEW l \in Task, ScheduleArm(t, l)
          PROVE  \E j : /\ job' = [job EXCEPT ![t] = j]
                        /\ j.pc \in {"idle", "schedule", "arm"}
      <4>1. job' = [job EXCEPT ![t] = Rest(job[t], "schedule", job[t].todo)]
        BY <3>2 DEF ScheduleArm
      <4>2. Rest(job[t], "schedule", job[t].todo).pc \in {"idle", "schedule"}
        BY RestPc DEF TypeOK
      <4> QED
        BY <4>1, <4>2
    <3> QED
      BY <1>12, <3>1, <3>2 DEF ScheduleStep, ScheduleGate, ScheduleArm
  <2>2. PICK j : /\ job' = [job EXCEPT ![t] = j]
                 /\ j.pc \in {"idle", "schedule", "arm"}
    BY <2>1
  <2>3. CASE t = Main
    <3>1. \A v \in Uri : ~Closing(v)'
      BY <1>0, <2>2, <2>3 DEF Closing, TypeOK
    <3> QED
      BY <1>2, <2>1, <2>2, <2>3, <3>1
  <2>4. CASE t \in Fetcher
    BY <1>3, <2>1, <2>2, <2>4
  <2> QED
    BY <2>3, <2>4
<1>13. ASSUME NEW f \in Fetcher, DidChangeConfiguration(f) \/ FetchGiveUp(f)
       PROVE  RoleInv'
  <2>1. /\ UNCHANGED <<docs, mode, shutdown>>
        /\ \E j : job' = [job EXCEPT ![f] = j] /\ j.pc \in {"waiting", "idle"}
    BY <1>0, <1>13 DEF DidChangeConfiguration, FetchGiveUp, Idle, TypeOK, JobRec
  <2> QED
    BY <1>3, <2>1
<1>14. ASSUME NEW f \in Fetcher, \/ \E m \in Mode : FetchApply(f, m)
                                 \/ \E S \in SUBSET Ignorable : FetchReload(f, S)
       PROVE  RoleInv'
  <2>1. /\ UNCHANGED <<docs, shutdown>>
        /\ \E j : job' = [job EXCEPT ![f] = j] /\ j.pc \in {"reload", "decide"}
    BY <1>0, <1>14 DEF FetchApply, FetchReload, TypeOK, JobRec
  <2> QED
    BY <1>3, <2>1
<1>15. ASSUME NEW f \in Fetcher, FetchDecide(f) PROVE RoleInv'
  <2>1. /\ UNCHANGED <<docs, mode, shutdown>>
        /\ job' = [job EXCEPT ![f] = IF mode = "off" THEN Rest(job[f], "clear", Open)
                                     ELSE Schedule(Open, "config")]
    BY <1>15 DEF FetchDecide
  <2>2. Schedule(Open, "config").pc \notin {"clear", "unshow"}
    BY DEF Schedule, Idle
  <2> QED
    BY <1>3, <2>1, <2>2
<1>16. ASSUME NEW f \in Fetcher, \/ \E u \in Uri : ClearCancel(f, u)
                                 \/ ClearPublish(f)
       PROVE  RoleInv'
  <2>1. /\ UNCHANGED <<docs, mode, shutdown>> /\ mode = "off"
        /\ \E j : job' = [job EXCEPT ![f] = j]
    <3>1. job[f].pc \in {"clear", "unshow"} /\ UNCHANGED <<docs, mode, shutdown>>
      BY <1>16 DEF ClearCancel, ClearPublish
    <3>2. \E j : job' = [job EXCEPT ![f] = j]
      BY <1>16 DEF ClearCancel, ClearPublish
    <3> QED
      BY <3>1, <3>2 DEF ClearsWhenOff
  <2> QED
    BY <1>3, <2>1
<1>17. ASSUME NEW l \in Task, LintStep(l) PROVE RoleInv'
  BY <1>1, <1>17 DEF LintStep, Fire, RunLintIfCurrent, LintStart, IgnoredUncache,
                     IgnoredPublish, LintCheck, LintPublish
<1>18. CASE UNCHANGED vars
  BY <1>1, <1>18 DEF vars
<1> QED
  BY <1>4, <1>5, <1>6, <1>7, <1>8, <1>9, <1>10, <1>11, <1>12, <1>13, <1>14, <1>15,
     <1>16, <1>17, <1>18
     DEF Next, Dispatch, DidOpen, DidChange, MainStep, FetchStep

LEMMA CoverStep ==
  Alone /\ TypeOK /\ RoleInv /\ EditCovered /\ [Next]_vars => EditCovered'
<1> SUFFICES ASSUME Alone, TypeOK, RoleInv, EditCovered, [Next]_vars,
                    mode' = "onType", ~shutdown',
                    NEW u \in Uri, docs'[u] # 0, u \notin settled',
                    docs'[u] \notin Poison
             PROVE  LintComing(u)'
  BY DEF EditCovered, Open
<1>0. Main \in Thread /\ \A f \in Fetcher : f # Main /\ f \in Thread
  BY ConstantsAssumption
(* Where the step leaves mode, document and outcome, a lint was coming.    *)
<1>c. ASSUME UNCHANGED <<mode, shutdown>>, docs[u] = docs'[u], settled \subseteq settled'
      PROVE  LintComing(u)
  BY <1>c DEF EditCovered, Open
(* A lint of u is scheduled by t, along with those of other documents.     *)
<1>s. ASSUME NEW t \in Thread, NEW S, u \in S, NEW trig,
             job' = [job EXCEPT ![t] = Schedule(S, trig)]
      PROVE  LintComing(u)'
  <2>1. job'[t].pc = "schedule" /\ u \in job'[t].todo
    BY <1>s DEF TypeOK, Schedule
  <2> QED
    BY <2>1, ComingParts DEF WillArm
<1>1. ASSUME NEW v \in Uri, NEW trig \in Trigger, Accepts, Edit(v, trig)
      PROVE  LintComing(u)'
  <2>1. CASE u = v
    BY <1>0, <1>1, <1>s, <2>1 DEF Edit
  <2>2. CASE u # v
    <3>1. LintComing(u)
      BY <1>1, <1>c, <2>2 DEF Edit, TypeOK, EditCovered, Open
    <3>2. \A l \in Task : OnItsWay(u, l) => OnItsWay(u, l)'
      BY <1>1, <2>2 DEF Edit, OnItsWay, TypeOK
    <3>3. ~WillArm(u, Main) /\ \A t \in Thread \ {Main} : job'[t] = job[t]
      BY <1>1 DEF Accepts, Edit, WillArm, TypeOK
    <3>4. \A t \in Thread : WillArm(u, t) => WillArm(u, t)'
      BY <3>3 DEF WillArm
    <3> QED
      BY <1>1, <3>1, <3>2, <3>4, ComingParts DEF Edit
  <2> QED
    BY <2>1, <2>2
<1>2. ASSUME NEW v \in Uri, DidClose(v) PROVE LintComing(u)'
  <2>1. u # v /\ docs'[u] = docs[u] /\ UNCHANGED <<mode, shutdown, pending, task>>
        /\ settled' = settled \ {v}
    BY <1>2 DEF DidClose, TypeOK
  <2>2. LintComing(u)
    BY <2>1 DEF EditCovered, Open
  <2>3. \A l \in Task : OnItsWay(u, l) => OnItsWay(u, l)'
    BY <2>1 DEF OnItsWay
  <2>4. ~WillArm(u, Main) /\ \A t \in Thread \ {Main} : job'[t] = job[t]
    BY <1>2 DEF Accepts, DidClose, WillArm, TypeOK
  <2>5. \A t \in Thread : WillArm(u, t) => WillArm(u, t)'
    BY <2>4 DEF WillArm
  <2> QED
    BY <2>1, <2>2, <2>3, <2>5, ComingParts
<1>3. ASSUME NEW S \in SUBSET Ignorable, DidChangeConfigFile(S) PROVE LintComing(u)'
  BY <1>0, <1>3, <1>s DEF DidChangeConfigFile, Open
(* Steps that only move a thread which had nothing to do for u.            *)
<1>4. ASSUME NEW t \in Thread, NEW j, job' = [job EXCEPT ![t] = j],
             ~WillArm(u, t) \/ WillArm(u, t)',
             UNCHANGED <<docs, mode, shutdown, pending, task, settled>>
      PROVE  LintComing(u)'
  BY <1>4, <1>c, JobMoves
<1>5. CASE (\E v \in Uri : DidSave(v)) \/ Shutdown
  <2>1. /\ \E j : job' = [job EXCEPT ![Main] = j]
        /\ UNCHANGED <<docs, mode, pending, task, settled>>
        /\ job[Main].pc = "idle"
        /\ ~Shutdown
    BY <1>5 DEF DidSave, Shutdown, Accepts
  <2>2. UNCHANGED shutdown
    BY <1>5, <2>1 DEF DidSave
  <2>3. ~WillArm(u, Main)
    BY <2>1 DEF WillArm
  <2> QED
    BY <1>0, <1>4, <2>1, <2>2, <2>3
<1>6. ASSUME NEW v \in Uri, CloseUncache(v) \/ ClosePublish(v) PROVE LintComing(u)'
  <2>1. /\ \E j : job' = [job EXCEPT ![Main] = j]
        /\ UNCHANGED <<docs, mode, shutdown, pending, task, settled>>
        /\ job[Main].pc \in {"uncache", "unpublish"}
    BY <1>6 DEF CloseUncache, ClosePublish
  <2>2. ~WillArm(u, Main)
    BY <2>1 DEF WillArm
  <2> QED
    BY <1>0, <1>4, <2>1, <2>2
<1>7. ASSUME NEW v \in Uri, CloseCancel(v) PROVE LintComing(u)'
  <2>1. /\ \E j : job' = [job EXCEPT ![Main] = j]
        /\ UNCHANGED <<docs, mode, shutdown, settled>>
        /\ pending' = [pending EXCEPT ![v] = NoTask]
        /\ task' = StopTimers({pending[v]}) /\ Closing(v)
    BY <1>7 DEF CloseCancel, Closing
  <2>2. u # v
    BY <2>1 DEF RoleInv, CloseIsClosed
  <2>3. pending'[u] = pending[u]
    BY <2>1, <2>2 DEF TypeOK
  <2>4. ~WillArm(u, Main)
    BY <2>1 DEF WillArm, Closing
  <2>5. LintComing(u) /\ \A l \in Task : task[l].pc \in {"armed", "fired"}
                                          \/ task'[l] = task[l]
    BY <1>c, <2>1, StopsArmed
  <2>6. PICK j : job' = [job EXCEPT ![Main] = j]
    BY <2>1
  <2> QED
    BY <1>0, <2>1, <2>3, <2>4, <2>5, <2>6, JobMoves
<1>8. CASE StopPendingLints
  BY <1>8 DEF StopPendingLints, RoleInv, StopsForGood
<1>9. ASSUME NEW t \in Thread, NEW v \in Uri, ScheduleGate(t, v) PROVE LintComing(u)'
  <2> DEFINE left == job[t].todo \ {v}
  <2>1. /\ UNCHANGED <<docs, mode, shutdown, pending, task, settled>>
        /\ job' = [job EXCEPT ![t] =
                     IF Gated(job[t].trig) THEN Rest(job[t], "schedule", left)
                     ELSE [job[t] EXCEPT !.pc = "arm", !.uri = v, !.todo = left]]
        /\ job[t].pc = "schedule" /\ v \in job[t].todo
    BY <1>9 DEF ScheduleGate
  <2>2. ~Gated(job[t].trig)
    BY <2>1 DEF Gated
  <2>3. job'[t].pc = "arm" /\ job'[t].uri = v /\ job'[t].todo = left
    BY <2>1, <2>2 DEF TypeOK, JobRec
  <2>4. WillArm(u, t) => WillArm(u, t)'
    BY <2>1, <2>3 DEF WillArm
  <2>5. \E j : job' = [job EXCEPT ![t] = j]
    BY <2>1
  <2> QED
    BY <1>4, <2>1, <2>4, <2>5
<1>10. ASSUME NEW t \in Thread, NEW l \in Task, ScheduleArm(t, l) PROVE LintComing(u)'
  <2> DEFINE v == job[t].uri
             stopped == StopTimers({pending[v]})
  <2>1. /\ UNCHANGED <<docs, mode, shutdown, settled>>
        /\ task[l].pc = "free" /\ job[t].pc = "arm"
        /\ pending' = [pending EXCEPT ![v] = l]
        /\ task' = [stopped EXCEPT ![l] = [pc |-> "armed", uri |-> v, gen |-> 0]]
        /\ job' = [job EXCEPT ![t] = Rest(job[t], "schedule", job[t].todo)]
    BY <1>10 DEF ScheduleArm
  <2>2. l # NoTask /\ v \in Uri
    BY <2>1, ConstantsAssumption DEF TypeOK, JobRec
  <2>3. pending'[u] # pending[u] => u = v /\ pending'[u] = l
    BY <2>1, <2>2 DEF TypeOK
  <2>4. \A k \in Task : OnItsWay(u, k) => OnItsWay(u, k)'
    <3> SUFFICES ASSUME NEW k \in Task, OnItsWay(u, k) PROVE OnItsWay(u, k)'
      OBVIOUS
    <3>1. task[k].pc \notin {"armed", "fired", "free"}
      BY DEF OnItsWay
    <3>2. k # l /\ stopped[k] = task[k]
      BY <2>1, <3>1, StopsArmed
    <3>3. task'[k] = task[k]
      BY <2>1, <3>2 DEF StopTimers
    <3> QED
      BY <2>1, <3>3 DEF OnItsWay
  <2>5. WillArm(u, t) => WillArm(u, t)' \/ pending'[u] = l
    <3>1. CASE u = v
      BY <2>1, <2>2, <3>1 DEF TypeOK
    <3>2. CASE u # v /\ u \in job[t].todo
      <4>1. job'[t] = [job[t] EXCEPT !.pc = "schedule", !.todo = job[t].todo, !.uri = NoUri]
        BY <2>1, <3>2 DEF Rest, TypeOK
      <4>2. job'[t].pc = "schedule" /\ job'[t].todo = job[t].todo
        BY <4>1 DEF TypeOK, JobRec
      <4> QED
        BY <3>2, <4>2 DEF WillArm
    <3>3. CASE u # v /\ u \notin job[t].todo
      BY <2>1, <3>3 DEF WillArm
    <3> QED
      BY <3>1, <3>2, <3>3
  <2>6. \A s \in Thread \ {t} : WillArm(u, s) => WillArm(u, s)'
    BY <2>1 DEF WillArm, TypeOK
  <2>7. LintComing(u)
    BY <1>c, <2>1
  <2> QED
    BY <2>2, <2>3, <2>4, <2>5, <2>6, <2>7, ComingParts
<1>11. ASSUME NEW f \in Fetcher, DidChangeConfiguration(f) \/ FetchGiveUp(f)
       PROVE  LintComing(u)'
  <2>1. /\ \E j : job' = [job EXCEPT ![f] = j]
        /\ UNCHANGED <<docs, mode, shutdown, pending, task, settled>>
        /\ job[f].pc \in {"idle", "waiting"}
    BY <1>11 DEF DidChangeConfiguration, FetchGiveUp
  <2>2. ~WillArm(u, f)
    BY <2>1 DEF WillArm
  <2> QED
    BY <1>0, <1>4, <2>1, <2>2
<1>12. ASSUME NEW f \in Fetcher, \/ \E m \in Mode : FetchApply(f, m)
                                 \/ \E S \in SUBSET Ignorable : FetchReload(f, S)
       PROVE  LintComing(u)'
  <2>1. job'[f].pc \in {"reload", "decide"}
    BY <1>12 DEF FetchApply, FetchReload, TypeOK, JobRec
  <2> QED
    BY <1>0, <2>1, ComingParts DEF WillArm
<1>13. ASSUME NEW f \in Fetcher, FetchDecide(f) PROVE LintComing(u)'
  <2>1. u \in Open /\ mode = "onType"
    BY <1>13 DEF FetchDecide, Open
  <2>2. job' = [job EXCEPT ![f] = Schedule(Open, "config")]
    BY <1>13, <2>1 DEF FetchDecide
  <2> QED
    BY <1>0, <1>s, <2>1, <2>2
<1>14. ASSUME NEW f \in Fetcher, (\E v \in Uri : ClearCancel(f, v)) \/ ClearPublish(f)
       PROVE  LintComing(u)'
  <2>1. job[f].pc \in {"clear", "unshow"} /\ mode = "onType"
    BY <1>14 DEF ClearCancel, ClearPublish
  <2> QED
    BY <2>1 DEF RoleInv, ClearsWhenOff
(* A lint moves.                                                           *)
<1>15. ASSUME NEW l \in Task, NEW rec, task' = [task EXCEPT ![l] = rec],
              UNCHANGED <<docs, mode, shutdown, job>>, settled \subseteq settled',
              pending[u] # NoTask => pending'[u] # NoTask \/ OnItsWay(u, l)',
              OnItsWay(u, l) => OnItsWay(u, l)'
       PROVE  LintComing(u)'
  <2>1. LintComing(u)
    BY <1>15, <1>c
  <2> QED
    BY <1>15, <2>1, TaskMoves
<1>16. ASSUME NEW l \in Task, Fire(l) PROVE LintComing(u)'
  <2>1. ~OnItsWay(u, l) /\ \E rec : task' = [task EXCEPT ![l] = rec]
    BY <1>16 DEF Fire, OnItsWay
  <2> QED
    BY <1>15, <1>16, <2>1 DEF Fire
<1>17. ASSUME NEW l \in Task, RunLintIfCurrent(l) PROVE LintComing(u)'
  <2> DEFINE live == pending[task[l].uri] = l /\ ~shutdown
  <2>1. /\ ~OnItsWay(u, l) /\ \E rec : task' = [task EXCEPT ![l] = rec]
        /\ UNCHANGED <<docs, mode, shutdown, job, settled>>
        /\ task[l].uri \in Uri
    BY <1>17 DEF RunLintIfCurrent, OnItsWay, TypeOK, TaskRec
  <2>2. CASE live /\ u = task[l].uri
    <3>1. task'[l] = [task[l] EXCEPT !.pc = "start"]
      BY <1>17, <2>2 DEF RunLintIfCurrent, TypeOK
    <3>2. task'[l].pc = "start" /\ task'[l].uri = u
      BY <1>17, <2>2, <3>1 DEF RunLintIfCurrent, TypeOK, TaskRec
    <3> QED
      BY <3>2, ComingParts DEF OnItsWay
  <2>3. CASE ~(live /\ u = task[l].uri)
    <3>1. pending'[u] = pending[u]
      BY <1>17, <2>1, <2>3 DEF RunLintIfCurrent, TypeOK
    <3> QED
      BY <1>15, <2>1, <3>1
  <2> QED
    BY <2>2, <2>3
<1>18. ASSUME NEW l \in Task, LintStart(l) PROVE LintComing(u)'
  <2> DEFINE v == task[l].uri
             pc == IF v \in ignored THEN "ignored" ELSE "check"
  <2>1. /\ \E rec : task' = [task EXCEPT ![l] = rec] /\ task[l].pc = "start"
        /\ UNCHANGED <<docs, mode, shutdown, job, settled, pending>>
    BY <1>18 DEF LintStart
  <2>2. ASSUME OnItsWay(u, l) PROVE OnItsWay(u, l)'
    <3>1. v = u /\ docs[v] # 0
      BY <2>1, <2>2 DEF OnItsWay
    <3>2. task'[l] = [task[l] EXCEPT !.gen = docs[v], !.pc = pc]
      BY <1>18, <3>1 DEF LintStart, TypeOK
    <3>3. pc \in {"ignored", "check"} /\ task[l] \in TaskRec
      BY DEF TypeOK
    <3> HIDE DEF pc
    <3>4. task'[l].pc = pc /\ task'[l].gen = docs[u] /\ task'[l].uri = u
      BY <2>1, <3>1, <3>2, <3>3 DEF TaskRec
    <3> QED
      BY <2>1, <3>3, <3>4 DEF OnItsWay
  <2> QED
    BY <1>15, <2>1, <2>2
<1>19. ASSUME NEW l \in Task, IgnoredUncache(l) PROVE LintComing(u)'
  <2>1. /\ task' = [task EXCEPT ![l].pc = "unshow"] /\ task[l].pc = "ignored"
        /\ UNCHANGED <<docs, mode, shutdown, job, settled, pending>>
    BY <1>19 DEF IgnoredUncache
  <2>2. task'[l].pc = "unshow" /\ task'[l].gen = task[l].gen /\ task'[l].uri = task[l].uri
    BY <2>1 DEF TypeOK, TaskRec
  <2>3. OnItsWay(u, l) => OnItsWay(u, l)'
    BY <2>1, <2>2 DEF OnItsWay
  <2>4. \E rec : task' = [task EXCEPT ![l] = rec]
    BY <2>1
  <2> QED
    BY <1>15, <2>1, <2>3, <2>4
<1>20. ASSUME NEW l \in Task, LintCheck(l) PROVE LintComing(u)'
  <2>1. /\ task[l].pc = "check"
        /\ task' = [task EXCEPT ![l] =
                      IF task[l].gen \in Poison \/ shutdown \/ docs[task[l].uri] = 0
                      THEN Free ELSE [task[l] EXCEPT !.pc = "publish"]]
        /\ UNCHANGED <<docs, mode, shutdown, job, settled, pending>>
    BY <1>20 DEF LintCheck
  <2>2. ASSUME OnItsWay(u, l) PROVE OnItsWay(u, l)'
    <3>1. task[l].uri = u /\ task[l].gen = docs[u]
      BY <2>1, <2>2 DEF OnItsWay
    <3>2. task' = [task EXCEPT ![l] = [task[l] EXCEPT !.pc = "publish"]]
      BY <2>1, <3>1
    <3>3. task'[l].pc = "publish" /\ task'[l].gen = docs[u] /\ task'[l].uri = u
      BY <2>1, <3>1, <3>2 DEF TypeOK, TaskRec
    <3> QED
      BY <2>1, <3>3 DEF OnItsWay
  <2>3. \E rec : task' = [task EXCEPT ![l] = rec]
    BY <2>1
  <2> QED
    BY <1>15, <2>1, <2>2, <2>3
(* An outcome is published: u was another document, or this is not its     *)
(* text any more, or it is settled.                                        *)
<1>21. ASSUME NEW l \in Task, IgnoredPublish(l) \/ LintPublish(l) PROVE LintComing(u)'
  <2>1. /\ \E rec : task' = [task EXCEPT ![l] = rec]
        /\ UNCHANGED <<docs, mode, shutdown, job, pending>>
        /\ Settle(l) /\ task[l].pc \in {"unshow", "publish"}
    BY <1>21 DEF IgnoredPublish, LintPublish
  <2>2. ~OnItsWay(u, l)
    BY <2>1 DEF Settle, OnItsWay
  <2>3. settled \subseteq settled'
    BY <2>1 DEF Settle
  <2> QED
    BY <1>15, <2>1, <2>2, <2>3
<1>22. CASE UNCHANGED vars
  BY <1>22, <1>c DEF vars, LintComing
<1> QED
  BY <1>1, <1>2, <1>3, <1>5, <1>6, <1>7, <1>8, <1>9, <1>10, <1>11, <1>12, <1>13,
     <1>14, <1>16, <1>17, <1>18, <1>19, <1>20, <1>21, <1>22
     DEF Next, Dispatch, DidOpen, DidChange, MainStep, ScheduleStep, FetchStep,
         LintStep

(* No edit is lost: in onType mode the open text of a document has had its *)
(* outcome published, or a lint that will read it is on its way, as long   *)
(* as one answer to a settings request is applied at a time.               *)
THEOREM EditsAreCovered == ASSUME Alone PROVE Spec => []EditCovered
<1>1. Init => RoleInv /\ EditCovered
  BY ConstantsAssumption
     DEF Init, RoleInv, ClearsWhenOff, CloseIsClosed, StopsForGood, Closing, Idle,
         EditCovered, Open
<1>2. TypeOK /\ RoleInv /\ EditCovered /\ [Next]_vars => RoleInv' /\ EditCovered'
  BY RoleStep, CoverStep
<1> QED
  BY <1>1, <1>2, TypeCorrect, PTL DEF Spec

-----------------------------------------------------------------------------
(* The session: types.                                                     *)

(* A call that is under way has a document, and so has an Invalidate; what *)
(* a slot holds has a version that a document can have.                    *)
SessionTyped ==
  /\ SessionTypeOK
  /\ \A c \in Caller : call[c].pc # "idle" => call[c].host \in Doc
  /\ inv.pc # "idle" => inv.doc \in Doc
  /\ \A d \in Doc : parses[d].held => parses[d].version \in Ver

LEMMA SessionTypedInit == SessionInit => SessionTyped
<1> SUFFICES ASSUME SessionInit PROVE SessionTyped
  OBVIOUS
<1>1. MaxVer \in Nat
  BY SessionAssumption
<1>2. 0 \in Ver /\ Zero \in Vers /\ 0 \in 0..MaxVer + 1
  BY <1>1 DEF Ver, Vers, Zero
<1>3. NoCall \in CallRec
  BY <1>2 DEF NoCall, CallRec
<1>4. NoSlot \in SlotRec(File, 0..MaxVer + 1) /\ ~NoSlot.held
  BY <1>2 DEF NoSlot, SlotRec
<1>5. SessionTypeOK
  <2>1. buffer \in Vers /\ floor \in Vers
    BY <1>2 DEF SessionInit
  <2>2. /\ slots \in [Doc -> Ver \cup {None}]
        /\ checkCache \in [Doc -> ResultRec \cup {None}]
        /\ disposed \in BOOLEAN
        /\ overlapped \subseteq Doc
        /\ pinned \subseteq Doc
    BY DEF SessionInit
  <2>3. parses \in [Doc -> SlotRec(File, 0..MaxVer + 1)]
    BY <1>4 DEF SessionInit
  <2>4. call \in [Caller -> CallRec]
    BY <1>3 DEF SessionInit
  <2>5. inv \in [pc : {"idle", "slots", "parses", "checks"}, doc : Doc \cup {None}]
    BY DEF SessionInit, Resting
  <2> QED BY <2>1, <2>2, <2>3, <2>4, <2>5 DEF SessionTypeOK
<1> QED BY <1>4, <1>5 DEF SessionTyped, SessionInit, NoCall, Resting

(* A put leaves the slot or stores what it is given; a clear leaves        *)
(* nothing, or a slot that held nothing.                                   *)
LEMMA SessionPut ==
  ASSUME NEW s \in SlotRec(File, 0..MaxVer + 1),
         NEW v \in Ver, NEW file \in File
  PROVE  /\ Put(s, v, file) \in SlotRec(File, 0..MaxVer + 1)
         /\ \/ Put(s, v, file) = s
            \/ Put(s, v, file).version = v /\ Put(s, v, file).file = file
<1>1. v \in 0..MaxVer + 1
  BY SessionAssumption DEF Ver
<1>2. [held |-> TRUE, version |-> v, file |-> file, min |-> v]
        \in SlotRec(File, 0..MaxVer + 1)
  BY <1>1 DEF SlotRec
<1> QED BY <1>2 DEF Put

LEMMA SessionClear ==
  ASSUME NEW s \in SlotRec(File, 0..MaxVer + 1),
         s.held => s.version \in Ver
  PROVE  /\ Clear(s) \in SlotRec(File, 0..MaxVer + 1)
         /\ Clear(s).held => Clear(s).version \in Ver
         /\ Clear(s) = s \/ Clear(s).file = None
<1>1. CASE ~s.held
  BY <1>1 DEF Clear
<1>2. CASE s.held
  <2> DEFINE t == [held |-> s.held, version |-> s.version, file |-> None,
                   min |-> s.version + 1]
  <2>1. Clear(s) = t
    BY <1>2 DEF Clear, SlotRec
  <2>2. s.version + 1 \in 0..MaxVer + 1
    BY SessionAssumption, <1>2 DEF Ver
  <2>3. t \in SlotRec(File, 0..MaxVer + 1)
    BY <2>2 DEF SlotRec
  <2> QED BY <1>2, <2>1, <2>3
<1> QED BY <1>1, <1>2

(* Nothing but a call that ends is idle afterwards.                        *)
LEMMA SessionTypedNext ==
  SessionTyped /\ [SessionNext]_sessionVars => SessionTyped'
<1> SUFFICES ASSUME SessionTyped, [SessionNext]_sessionVars PROVE SessionTyped'
  OBVIOUS
<1> USE DEF SessionTyped
<1>0. /\ MaxVer \in Nat
      /\ Method \subseteq {"Check", "CheckVersion"}
      /\ 0 \in Ver
      /\ Zero \in Vers
  BY SessionAssumption DEF Ver, Vers, Zero
<1>1. ASSUME NEW c \in Caller, NEW h \in Doc, NEW method \in Method,
             Begin(c, h, method)
      PROVE  SessionTyped'
  <2> DEFINE new == [NoCall EXCEPT
                       !.pc = IF method = "Check" THEN "cache" ELSE "snapshot",
                       !.method = method, !.host = h, !.src = buffer[h],
                       !.todo = Doc \ {h},
                       !.got = [Zero EXCEPT ![h] = buffer[h]],
                       !.from = [floor EXCEPT ![h] = 0]]
  <2>1. call' = [call EXCEPT ![c] = new]
    BY <1>1, Zenon DEF Begin
  <2>2. new \in CallRec /\ new.host = h
    <3>1. NoCall \in CallRec
      BY <1>0 DEF NoCall, CallRec
    <3>2. buffer[h] \in Ver
      BY DEF SessionTypeOK, Vers
    <3>3. [Zero EXCEPT ![h] = buffer[h]] \in Vers
      BY <1>0, <3>2 DEF Vers
    <3>4. [floor EXCEPT ![h] = 0] \in Vers
      BY <1>0 DEF Vers, SessionTypeOK
    <3> QED BY <1>0, <3>1, <3>2, <3>3, <3>4 DEF CallRec
  <2>3. call' \in [Caller -> CallRec]
    BY <2>1, <2>2 DEF SessionTypeOK
  <2>4. \A e \in Caller : call'[e].pc # "idle" => call'[e].host \in Doc
    BY <2>1 DEF SessionTypeOK
  <2>5. overlapped' \subseteq Doc
    BY <1>1 DEF Begin, SessionTypeOK
  <2> QED BY <1>1, <2>3, <2>4, <2>5 DEF Begin, SessionTypeOK
<1>2. ASSUME NEW c \in Caller, LookInCache(c)
      PROVE  SessionTyped'
  <2> DEFINE h == call[c].host
             old == checkCache[h]
             hit == [call[c] EXCEPT !.pc = "done", !.got = old.got, !.todo = {}]
             miss == [call[c] EXCEPT !.pc = "snapshot"]
  <2>1. call[c] \in CallRec /\ h \in Doc
    BY <1>2 DEF LookInCache, SessionTypeOK
  <2>2. miss \in CallRec /\ miss.host = h
    BY <2>1 DEF CallRec
  <2>3. old # None => hit \in CallRec /\ hit.host = h
    <3>1. SUFFICES ASSUME old # None PROVE hit \in CallRec /\ hit.host = h
      OBVIOUS
    <3>2. old.got \in Vers
      BY <2>1, <3>1 DEF SessionTypeOK, ResultRec
    <3> QED BY <2>1, <3>2 DEF CallRec
  <2>4. \E new \in CallRec : call' = [call EXCEPT ![c] = new] /\ new.host = h
    BY <1>2, <2>2, <2>3 DEF LookInCache
  <2>5. /\ call' \in [Caller -> CallRec]
        /\ \A e \in Caller : call'[e].pc # "idle" => call'[e].host \in Doc
    BY <2>1, <2>4 DEF SessionTypeOK
  <2> QED BY <1>2, <2>5 DEF LookInCache, SessionTypeOK
<1>3. ASSUME NEW c \in Caller, Snapshot(c)
      PROVE  SessionTyped'
  <2> DEFINE new == [call[c] EXCEPT !.fs = buffer,
                       !.pc = IF call[c].method = "Check" THEN "read" ELSE "parse"]
  <2>1. call[c] \in CallRec /\ call[c].host \in Doc
    BY <1>3 DEF Snapshot, SessionTypeOK
  <2>2. call' = [call EXCEPT ![c] = new]
    BY <1>3, <2>1 DEF Snapshot, SessionTypeOK, CallRec
  <2>3. new \in CallRec /\ new.host = call[c].host
    BY <2>1 DEF CallRec, SessionTypeOK
  <2>4. /\ call' \in [Caller -> CallRec]
        /\ \A e \in Caller : call'[e].pc # "idle" => call'[e].host \in Doc
    BY <2>1, <2>2, <2>3 DEF SessionTypeOK
  <2> QED BY <1>3, <2>4 DEF Snapshot, SessionTypeOK
<1>4. ASSUME NEW c \in Caller, Parse(c)
      PROVE  SessionTyped'
  <2> DEFINE hit == Get(parses[call[c].host], call[c].src)
             new == [call[c] EXCEPT !.pc = IF hit # None THEN "read" ELSE "put",
                                    !.fs = IF hit # None THEN hit.fs ELSE @]
  <2>1. call[c] \in CallRec /\ call[c].host \in Doc
    BY <1>4 DEF Parse, SessionTypeOK
  <2>2. call' = [call EXCEPT ![c] = new]
    BY <1>4, <2>1 DEF Parse, SessionTypeOK, CallRec
  <2>3. hit # None => hit.fs \in Vers
    <3>1. parses[call[c].host] \in SlotRec(File, 0..MaxVer + 1)
      BY <2>1 DEF SessionTypeOK
    <3>2. hit # None => hit \in File
      BY <3>1 DEF Get, SlotRec
    <3> QED BY <3>2 DEF File
  <2>4. new \in CallRec /\ new.host = call[c].host
    <3> HIDE DEF hit
    <3> QED BY <2>1, <2>3 DEF CallRec
  <2>5. /\ call' \in [Caller -> CallRec]
        /\ \A e \in Caller : call'[e].pc # "idle" => call'[e].host \in Doc
    <3> HIDE DEF new
    <3> QED BY <2>1, <2>2, <2>4 DEF SessionTypeOK
  <2> QED BY <1>4, <2>5 DEF Parse, SessionTypeOK
<1>5. ASSUME NEW c \in Caller, PutParse(c)
      PROVE  SessionTyped'
  <2> DEFINE h == call[c].host
             file == [src |-> call[c].src, fs |-> call[c].fs]
             kept == Put(parses[h], call[c].src, file)
  <2>1. call[c] \in CallRec /\ h \in Doc
    BY <1>5 DEF PutParse, SessionTypeOK
  <2>2. call[c].src \in Ver /\ file \in File
    BY <2>1 DEF CallRec, File
  <2>3. parses[h] \in SlotRec(File, 0..MaxVer + 1)
    BY <2>1 DEF SessionTypeOK
  <2>4. /\ kept \in SlotRec(File, 0..MaxVer + 1)
        /\ kept.held => kept.version \in Ver
    <3>1. kept = parses[h] \/ kept.version = call[c].src
      BY <2>2, <2>3, SessionPut
    <3> QED BY <2>1, <2>2, <2>3, <3>1, SessionPut
  <2>5. parses' = [parses EXCEPT ![h] = kept]
    BY <1>5, <2>1 DEF PutParse, SessionTypeOK
  <2>6. /\ parses' \in [Doc -> SlotRec(File, 0..MaxVer + 1)]
        /\ \A d \in Doc : parses'[d].held => parses'[d].version \in Ver
    <3> HIDE DEF kept
    <3> QED BY <2>1, <2>4, <2>5 DEF SessionTypeOK
  <2>7. /\ call' \in [Caller -> CallRec]
        /\ \A e \in Caller : call'[e].pc # "idle" => call'[e].host \in Doc
    <3>1. call' = [call EXCEPT ![c] = [call[c] EXCEPT !.pc = "read"]]
      BY <1>5, <2>1 DEF PutParse, SessionTypeOK
    <3>2. [call[c] EXCEPT !.pc = "read"] \in CallRec
      BY <2>1 DEF CallRec
    <3> QED BY <2>1, <3>1, <3>2 DEF SessionTypeOK, CallRec
  <2> QED BY <1>5, <2>6, <2>7 DEF PutParse, SessionTypeOK
<1>6. ASSUME NEW c \in Caller, NEW d \in Doc, Read(c, d)
      PROVE  SessionTyped'
  <2> DEFINE v == IF slots[d] # None THEN slots[d] ELSE call[c].fs[d]
             new == [call[c] EXCEPT !.todo = @ \ {d}, !.got = [@ EXCEPT ![d] = v]]
  <2>1. call[c] \in CallRec /\ call[c].host \in Doc
    BY <1>6 DEF Read, SessionTypeOK
  <2>2. v \in Ver
    BY <2>1 DEF SessionTypeOK, CallRec, Vers
  <2>3. call' = [call EXCEPT ![c] = new] /\ slots' = [slots EXCEPT ![d] = v]
    BY <1>6, <2>1 DEF Read, SessionTypeOK, CallRec
  <2>4. new \in CallRec /\ new.host = call[c].host
    <3> HIDE DEF v
    <3>1. [call[c].got EXCEPT ![d] = v] \in Vers
      BY <2>1, <2>2 DEF CallRec, Vers
    <3> QED BY <2>1, <3>1 DEF CallRec
  <2>5. /\ call' \in [Caller -> CallRec]
        /\ \A e \in Caller : call'[e].pc # "idle" => call'[e].host \in Doc
        /\ slots' \in [Doc -> Ver \cup {None}]
    <3> HIDE DEF new, v
    <3> QED BY <2>1, <2>2, <2>3, <2>4 DEF SessionTypeOK
  <2> QED BY <1>6, <2>5 DEF Read, SessionTypeOK
<1>7. ASSUME NEW c \in Caller, EndRead(c)
      PROVE  SessionTyped'
  <2> DEFINE new == [call[c] EXCEPT !.fs = Zero,
                       !.pc = IF call[c].method = "Check" THEN "store" ELSE "done"]
  <2>1. call[c] \in CallRec /\ call[c].host \in Doc
    BY <1>7 DEF EndRead, SessionTypeOK
  <2>2. call' = [call EXCEPT ![c] = new]
    BY <1>7, <2>1 DEF EndRead, SessionTypeOK, CallRec
  <2>3. new \in CallRec /\ new.host = call[c].host
    BY <1>0, <2>1 DEF CallRec
  <2>4. /\ call' \in [Caller -> CallRec]
        /\ \A e \in Caller : call'[e].pc # "idle" => call'[e].host \in Doc
    BY <2>1, <2>2, <2>3 DEF SessionTypeOK
  <2> QED BY <1>7, <2>4 DEF EndRead, SessionTypeOK
<1>8. ASSUME NEW c \in Caller, StoreResult(c)
      PROVE  SessionTyped'
  <2> DEFINE h == call[c].host
             result == [hash |-> call[c].src, got |-> call[c].got]
  <2>1. call[c] \in CallRec /\ h \in Doc
    BY <1>8 DEF StoreResult, SessionTypeOK
  <2>2. result \in ResultRec
    BY <2>1 DEF CallRec, ResultRec
  <2>3. checkCache' \in [Doc -> ResultRec \cup {None}]
    BY <1>8, <2>1, <2>2 DEF StoreResult, SessionTypeOK
  <2>4. call' = [call EXCEPT ![c] = [call[c] EXCEPT !.pc = "done"]]
    BY <1>8, <2>1 DEF StoreResult, SessionTypeOK
  <2>5. [call[c] EXCEPT !.pc = "done"] \in CallRec
    BY <2>1 DEF CallRec
  <2>6. /\ call' \in [Caller -> CallRec]
        /\ \A e \in Caller : call'[e].pc # "idle" => call'[e].host \in Doc
    BY <2>1, <2>4, <2>5 DEF SessionTypeOK, CallRec
  <2> QED BY <1>8, <2>3, <2>6 DEF StoreResult, SessionTypeOK
<1>9. ASSUME NEW c \in Caller, Return(c)
      PROVE  SessionTyped'
  <2>1. NoCall \in CallRec /\ NoCall.pc = "idle"
    BY <1>0 DEF NoCall, CallRec
  <2>2. /\ call' \in [Caller -> CallRec]
        /\ \A e \in Caller : call'[e].pc # "idle" => call'[e].host \in Doc
    BY <1>9, <2>1 DEF Return, SessionTypeOK
  <2> QED BY <1>9, <2>2 DEF Return, SessionTypeOK
<1>10. ASSUME NEW d \in Doc, SetBuffer(d)
       PROVE  SessionTyped'
  <2>1. buffer[d] + 1 \in Ver
    BY <1>0, <1>10 DEF SetBuffer, SessionTypeOK, Vers, Ver
  <2>2. buffer' \in Vers
    BY <1>10, <2>1 DEF SetBuffer, SessionTypeOK, Vers
  <2> QED BY <1>10, <2>2 DEF SetBuffer, SessionTypeOK
<1>11. ASSUME DropSlots
       PROVE  SessionTyped'
  BY <1>11 DEF DropSlots, SessionTypeOK
<1>12. ASSUME DropParse
       PROVE  SessionTyped'
  <2>1. inv.doc \in Doc
    BY <1>12 DEF DropParse
  <2>2. /\ Clear(parses[inv.doc]) \in SlotRec(File, 0..MaxVer + 1)
        /\ Clear(parses[inv.doc]).held => Clear(parses[inv.doc]).version \in Ver
    BY <2>1, SessionClear DEF SessionTypeOK
  <2>3. parses' = [parses EXCEPT ![inv.doc] = Clear(parses[inv.doc])]
    BY <1>12 DEF DropParse
  <2>4. /\ parses' \in [Doc -> SlotRec(File, 0..MaxVer + 1)]
        /\ \A d \in Doc : parses'[d].held => parses'[d].version \in Ver
    BY <2>1, <2>2, <2>3 DEF SessionTypeOK
  <2> QED BY <1>12, <2>4 DEF DropParse, SessionTypeOK
<1>13. ASSUME DropChecks
       PROVE  SessionTyped'
  <2>1. inv.doc \in Doc
    BY <1>13 DEF DropChecks
  <2>2. floor' \in Vers
    BY <1>13, <2>1 DEF DropChecks, SessionTypeOK, Vers
  <2> QED BY <1>13, <2>1, <2>2 DEF DropChecks, SessionTypeOK, Resting
<1>14. ASSUME Dispose
       PROVE  SessionTyped'
  BY <1>14 DEF Dispose, SessionTypeOK
<1>15. CASE UNCHANGED sessionVars
  BY <1>15 DEF sessionVars, SessionTypeOK
<1> QED BY <1>1, <1>2, <1>3, <1>4, <1>5, <1>6, <1>7, <1>8, <1>9, <1>10, <1>11,
           <1>12, <1>13, <1>14, <1>15 DEF SessionNext

(* What a session holds has the types its declarations say, through every  *)
(* check, Invalidate and Dispose.                                          *)
THEOREM SessionTypeCorrect ==
  SessionSpec => []SessionTypeOK
<1>1. SessionTyped => SessionTypeOK
  BY DEF SessionTyped
<1> QED BY <1>1, SessionTypedInit, SessionTypedNext, PTL DEF SessionSpec

-----------------------------------------------------------------------------
(* An Invalidate that runs alone and leaves no old snapshot heals.         *)

(* The Invalidate of d is under way.                                       *)
Dropping(d) == inv.pc # "idle" /\ inv.doc = d

(* What call c has, or will read by, of d.                                 *)
CallSees(c, d) ==
  /\ call[c].pc \in {"parse", "put", "read"} => call[c].fs[d] >= buffer[d]
  /\ call[c].pc # "idle" /\ d # call[c].host /\ d \notin call[c].todo
       => call[c].got[d] >= buffer[d]

(* No cache and no call has an older content of d than its buffer; what is *)
(* kept of a document's own content is keyed by it.                        *)
Clean(d) ==
  /\ slots[d] # None => slots[d] >= buffer[d]
  /\ \A h \in Doc : parses[h].file # None => parses[h].file.fs[d] >= buffer[d]
  /\ \A h \in Doc \ {d} : checkCache[h] # None => checkCache[h].got[d] >= buffer[d]
  /\ \A c \in Caller : CallSees(c, d)

(* While the last Invalidate of d ran, no check did.                       *)
Healing(d) ==
  /\ Dropping(d) => /\ \A c \in Caller : call[c].pc = "idle"
                    /\ inv.pc \in {"parses", "checks"} => slots[d] = None
  /\ ~Dropping(d) /\ d \notin pinned => Clean(d)

(* No call expects more than the buffers held when it began, and none      *)
(* expects anything of its own document.                                   *)
Expected ==
  /\ \A d \in Doc : floor[d] <= buffer[d]
  /\ \A c \in Caller, d \in Doc : call[c].from[d] <= buffer[d]
  /\ \A c \in Caller : call[c].pc # "idle" => call[c].from[call[c].host] = 0
  /\ \A c \in Caller : call[c].pc \in {"store", "done"} => call[c].todo = {}

SessionHeals == Expected /\ \A d \in Doc \ overlapped : Healing(d)

LEMMA SessionHealsInit ==
  SessionInit => SessionHeals
<1> SUFFICES ASSUME SessionInit PROVE SessionHeals
  OBVIOUS
<1>1. Expected
  BY DEF Expected, SessionInit, Zero, NoCall
<1>2. ASSUME NEW d \in Doc PROVE Healing(d)
  <2>1. Clean(d)
    BY DEF Clean, CallSees, SessionInit, Zero, NoCall, NoSlot
  <2> QED BY <2>1 DEF Healing, Dropping, SessionInit, Resting
<1> QED BY <1>1, <1>2 DEF SessionHeals

(* One content of a document is one version.                               *)
LEMMA SessionVersions ==
  ASSUME SessionTyped, NEW d \in Doc
  PROVE  /\ buffer[d] \in Nat
         /\ floor[d] \in Nat
         /\ slots[d] # None => slots[d] \in Nat
         /\ \A c \in Caller : /\ call[c] \in CallRec
                              /\ call[c].got[d] \in Nat
                              /\ call[c].from[d] \in Nat
                              /\ call[c].fs[d] \in Nat
         /\ \A h \in Doc : /\ parses[h] \in SlotRec(File, 0..MaxVer + 1)
                           /\ parses[h].file # None => parses[h].file \in File
                                                       /\ parses[h].file.fs[d] \in Nat
                           /\ checkCache[h] # None => checkCache[h] \in ResultRec
                                                      /\ checkCache[h].got[d] \in Nat
<1>1. \A v \in Ver : v \in Nat
  BY SessionAssumption DEF Ver
<1>2. \A f \in Vers : f[d] \in Nat
  BY <1>1 DEF Vers
<1>3. buffer[d] \in Nat /\ floor[d] \in Nat /\ (slots[d] # None => slots[d] \in Nat)
  BY <1>1, <1>2 DEF SessionTyped, SessionTypeOK
<1>4. \A c \in Caller : /\ call[c] \in CallRec
                        /\ call[c].got[d] \in Nat
                        /\ call[c].from[d] \in Nat
                        /\ call[c].fs[d] \in Nat
  BY <1>2 DEF SessionTyped, SessionTypeOK, CallRec
<1>5. ASSUME NEW h \in Doc
      PROVE  /\ parses[h] \in SlotRec(File, 0..MaxVer + 1)
             /\ parses[h].file # None => parses[h].file \in File
                                         /\ parses[h].file.fs[d] \in Nat
             /\ checkCache[h] # None => checkCache[h] \in ResultRec
                                        /\ checkCache[h].got[d] \in Nat
  BY <1>2 DEF SessionTyped, SessionTypeOK, SlotRec, File, ResultRec
<1> QED BY <1>3, <1>4, <1>5

(* A step is a call's, or else of the handler or of Dispose.               *)
CallStep(c) ==
  \/ \E h \in Doc, method \in Method : Begin(c, h, method)
  \/ LookInCache(c) \/ Snapshot(c) \/ Parse(c) \/ PutParse(c)
  \/ \E d \in Doc : Read(c, d)
  \/ EndRead(c) \/ StoreResult(c) \/ Return(c)

OtherStep ==
  \/ \E d \in Doc : SetBuffer(d)
  \/ DropSlots \/ DropParse \/ DropChecks \/ Dispose
  \/ UNCHANGED sessionVars

LEMMA SessionSteps ==
  [SessionNext]_sessionVars => OtherStep \/ \E c \in Caller : CallStep(c)
BY DEF SessionNext, OtherStep, CallStep

LEMMA ExpectedNext ==
  ASSUME SessionTyped, Expected, [SessionNext]_sessionVars
  PROVE  Expected'
<1> USE DEF Expected
<1>1. ASSUME NEW d \in Doc PROVE floor'[d] <= buffer'[d] /\ buffer[d] <= buffer'[d]
  <2>1. buffer[d] \in Nat /\ floor[d] \in Nat
    BY SessionVersions
  <2>2. \A e \in Doc : SetBuffer(e) => buffer' = [buffer EXCEPT ![e] = @ + 1]
                                         /\ floor' = floor
    BY DEF SetBuffer
  <2>3. CASE \E e \in Doc : SetBuffer(e)
    BY <2>1, <2>2, <2>3 DEF SessionTyped, SessionTypeOK, Vers
  <2>4. CASE DropChecks
    BY <2>1, <2>4 DEF DropChecks, SessionTyped, SessionTypeOK, Vers
  <2>5. CASE UNCHANGED <<buffer, floor>>
    BY <2>1, <2>5
  <2> QED BY <2>3, <2>4, <2>5 DEF SessionNext, sessionVars, Begin, LookInCache, Snapshot,
             Parse, PutParse, Read, EndRead, StoreResult, Return,
             DropSlots, DropParse, Dispose
<1>2. ASSUME NEW c \in Caller
      PROVE  /\ \A d \in Doc : call'[c].from[d] <= buffer'[d]
             /\ call'[c].pc # "idle" => call'[c].from[call'[c].host] = 0
             /\ call'[c].pc \in {"store", "done"} => call'[c].todo = {}
  <2>0. /\ call \in [Caller -> CallRec]
        /\ call[c] \in CallRec
        /\ floor \in Vers
    BY DEF SessionTyped, SessionTypeOK
  <2>1. CASE \E h \in Doc, method \in Method : Begin(c, h, method)
    <3>1. PICK h \in Doc, method \in Method : Begin(c, h, method)
      BY <2>1
    <3>2. /\ call'[c].from = [floor EXCEPT ![h] = 0]
          /\ call'[c].host = h
          /\ call'[c].pc \notin {"store", "done"}
      BY <2>0, <3>1 DEF Begin, NoCall
    <3>3. ASSUME NEW d \in Doc PROVE call'[c].from[d] <= buffer'[d]
      <4>1. buffer[d] \in Nat /\ floor[d] \in Nat
        BY SessionVersions
      <4>2. buffer' = buffer
        BY <3>1 DEF Begin
      <4> QED BY <2>0, <3>2, <4>1, <4>2 DEF Vers
    <3> QED BY <2>0, <3>2, <3>3 DEF Vers
  <2>2. CASE Return(c)
    <3>1. call'[c] = NoCall
      BY <2>0, <2>2 DEF Return
    <3>2. \A d \in Doc : buffer[d] \in Nat /\ buffer' = buffer
      BY <2>2, SessionVersions DEF Return
    <3> QED BY <3>1, <3>2 DEF NoCall, Zero
  <2>3. CASE /\ call'[c].from = call[c].from
             /\ call'[c].host = call[c].host
             /\ call'[c].pc # "idle" => call[c].pc # "idle"
             /\ call'[c].pc \in {"store", "done"} => call'[c].todo = {}
    <3>1. ASSUME NEW d \in Doc PROVE call'[c].from[d] <= buffer'[d]
      <4>1. /\ call[c].from[d] \in Nat /\ buffer[d] \in Nat
            /\ call[c].from[d] <= buffer[d] /\ buffer[d] <= buffer'[d]
        BY <1>1, SessionVersions
      <4>2. buffer'[d] \in Nat
        <5>1. SessionTyped'
          BY SessionTypedNext
        <5> QED BY SessionAssumption, <5>1 DEF SessionTyped, SessionTypeOK, Vers, Ver
      <4> QED BY <2>3, <4>1, <4>2
    <3> QED BY <2>3, <3>1
  <2>4. CASE LookInCache(c)
    <3> DEFINE old == checkCache[call[c].host]
    <3>1. call'[c] \in {[call[c] EXCEPT !.pc = "done", !.got = old.got, !.todo = {}],
                        [call[c] EXCEPT !.pc = "snapshot"]}
      BY <2>0, <2>4 DEF LookInCache
    <3> HIDE DEF old
    <3>2. /\ call'[c].from = call[c].from
          /\ call'[c].host = call[c].host
          /\ \/ call'[c].pc = "done" /\ call'[c].todo = {}
             \/ call'[c].pc = "snapshot"
      BY <2>0, <3>1 DEF CallRec
    <3> QED BY <2>3, <2>4, <3>2 DEF LookInCache
  <2>5. CASE Snapshot(c)
    BY <2>0, <2>3, <2>5 DEF Snapshot, CallRec
  <2>6. CASE Parse(c)
    <3> DEFINE hit == Get(parses[call[c].host], call[c].src)
    <3>1. call' = [call EXCEPT ![c].pc = IF hit # None THEN "read" ELSE "put",
                               ![c].fs = IF hit # None THEN hit.fs ELSE @]
      BY <2>6 DEF Parse
    <3> HIDE DEF hit
    <3>2. /\ call'[c].from = call[c].from
          /\ call'[c].host = call[c].host
          /\ call'[c].pc \in {"read", "put"}
      BY <2>0, <3>1 DEF CallRec
    <3> QED BY <2>3, <2>6, <3>2 DEF Parse
  <2>7. CASE PutParse(c) \/ EndRead(c) \/ StoreResult(c)
    <3>1. /\ call'[c].from = call[c].from
          /\ call'[c].host = call[c].host
          /\ call'[c].todo = call[c].todo
          /\ call'[c].pc # "idle" /\ call[c].pc # "idle"
          /\ PutParse(c) => call'[c].pc = "read"
      BY <2>0, <2>7 DEF PutParse, EndRead, StoreResult, CallRec
    <3>2. ~PutParse(c) => call[c].todo = {}
      BY <2>7 DEF EndRead, StoreResult
    <3> QED BY <2>3, <3>1, <3>2
  <2>8. CASE \E d \in Doc : Read(c, d)
    BY <2>0, <2>3, <2>8 DEF Read, CallRec
  <2>9. CASE call'[c] = call[c]
    BY <2>3, <2>9
  <2>10. ASSUME NEW e \in Caller, e # c, CallStep(e)
         PROVE  call'[c] = call[c]
    BY <2>0, <2>10 DEF CallStep, Begin, LookInCache, Snapshot, Parse,
                       PutParse, Read, EndRead, StoreResult, Return
  <2>11. CASE OtherStep
    BY <2>9, <2>11 DEF OtherStep, SetBuffer, DropSlots, DropParse, DropChecks,
                       Dispose, sessionVars
  <2>12. CASE CallStep(c)
    BY <2>1, <2>2, <2>4, <2>5, <2>6, <2>7, <2>8, <2>12 DEF CallStep
  <2> QED BY <2>9, <2>10, <2>11, <2>12, SessionSteps
<1> QED BY <1>1, <1>2

(* A step of one call leaves a document healed when what it writes of the  *)
(* document, to the call or to a cache, is clean.                          *)
LEMMA CallHeals ==
  ASSUME NEW c \in Caller, NEW d \in Doc, Healing(d), ~Dropping(d),
         UNCHANGED <<buffer, inv, pinned>>,
         \A e \in Caller \ {c} : call'[e] = call[e],
         Clean(d) =>
           /\ slots'[d] # None => slots'[d] >= buffer[d]
           /\ \A h \in Doc :
                parses'[h].file # None => parses'[h].file.fs[d] >= buffer[d]
           /\ \A h \in Doc \ {d} :
                checkCache'[h] # None => checkCache'[h].got[d] >= buffer[d]
           /\ CallSees(c, d)'
  PROVE  Healing(d)'
<1>1. ~Dropping(d)'
  BY DEF Dropping
<1>2. SUFFICES ASSUME d \notin pinned PROVE Clean(d)'
  BY <1>1 DEF Healing
<1>3. Clean(d)
  BY <1>2 DEF Healing
<1>4. \A e \in Caller \ {c} : CallSees(e, d)'
  BY <1>3 DEF Clean, CallSees
<1> QED BY <1>3, <1>4 DEF Clean

(* A call under way means that no Invalidate of a healing document is.     *)
LEMMA CallIsApart ==
  ASSUME NEW c \in Caller, NEW d \in Doc, Healing(d), call[c].pc # "idle"
  PROVE  ~Dropping(d)
BY DEF Healing

LEMMA HealingByCall ==
  ASSUME SessionTyped, Expected, NEW c \in Caller, NEW d \in Doc,
         d \notin overlapped', \A e \in Doc \ overlapped : Healing(e),
         CallStep(c)
  PROVE  Healing(d)'
<1>0. /\ call \in [Caller -> CallRec]
      /\ call[c] \in CallRec
      /\ call[c].pc # "idle" => call[c].host \in Doc
      /\ buffer \in Vers
      /\ buffer[d] \in Nat
  BY SessionVersions DEF SessionTyped, SessionTypeOK
<1>1. \A v \in Nat : v >= v
  OBVIOUS
<1>2. CASE \E h \in Doc, method \in Method : Begin(c, h, method)
  <2>1. PICK h \in Doc, method \in Method : Begin(c, h, method)
    BY <1>2
  <2>2. d \notin overlapped /\ ~Dropping(d)
    BY <2>1 DEF Begin, Dropping
  <2>3. /\ call'[c].pc \in {"cache", "snapshot"}
        /\ call'[c].host = h
        /\ call'[c].todo = Doc \ {h}
        /\ \A e \in Caller \ {c} : call'[e] = call[e]
    BY <1>0, <2>1 DEF Begin, NoCall
  <2>4. CallSees(c, d)'
    BY <2>3 DEF CallSees
  <2>5. UNCHANGED <<buffer, inv, pinned, slots, parses, checkCache>>
    BY <2>1 DEF Begin
  <2> QED BY <2>2, <2>3, <2>4, <2>5, CallHeals DEF Clean
<1>3. CASE LookInCache(c)
  <2> DEFINE old == checkCache[call[c].host]
  <2>1. d \notin overlapped /\ ~Dropping(d)
    BY <1>3, CallIsApart DEF LookInCache
  <2>2. /\ \A e \in Caller \ {c} : call'[e] = call[e]
        /\ call'[c].host = call[c].host
        /\ \/ /\ call'[c].pc = "done" /\ old # None /\ call'[c].got = old.got
           \/ call'[c].pc = "snapshot" /\ call'[c].todo = call[c].todo
                                       /\ call'[c].got = call[c].got
    BY <1>0, <1>3 DEF LookInCache, CallRec
  <2>3. Clean(d) => CallSees(c, d)'
    BY <1>0, <1>3, <2>2 DEF Clean, CallSees, LookInCache
  <2>4. UNCHANGED <<buffer, inv, pinned, slots, parses, checkCache>>
    BY <1>3 DEF LookInCache
  <2> QED BY <2>1, <2>2, <2>3, <2>4, CallHeals DEF Clean
<1>4. CASE Snapshot(c)
  <2>1. d \notin overlapped /\ ~Dropping(d)
    BY <1>4, CallIsApart DEF Snapshot
  <2>2. /\ \A e \in Caller \ {c} : call'[e] = call[e]
        /\ call'[c].host = call[c].host
        /\ call'[c].todo = call[c].todo
        /\ call'[c].got = call[c].got
        /\ call'[c].fs = buffer
    BY <1>0, <1>4 DEF Snapshot, CallRec
  <2>3. Clean(d) => CallSees(c, d)'
    BY <1>0, <1>1, <1>4, <2>2 DEF Clean, CallSees, Snapshot
  <2>4. UNCHANGED <<buffer, inv, pinned, slots, parses, checkCache>>
    BY <1>4 DEF Snapshot
  <2> QED BY <2>1, <2>2, <2>3, <2>4, CallHeals DEF Clean
<1>5. CASE Parse(c)
  <2> DEFINE kept == parses[call[c].host]
             hit == Get(kept, call[c].src)
  <2>1. d \notin overlapped /\ ~Dropping(d) /\ call[c].host \in Doc
    BY <1>0, <1>5, CallIsApart DEF Parse
  <2>2. /\ \A e \in Caller \ {c} : call'[e] = call[e]
        /\ call'[c].host = call[c].host
        /\ call'[c].todo = call[c].todo
        /\ call'[c].got = call[c].got
        /\ call'[c].fs = IF hit # None THEN hit.fs ELSE call[c].fs
    <3> HIDE DEF hit
    <3>1. call' = [call EXCEPT ![c].pc = IF hit # None THEN "read" ELSE "put",
                               ![c].fs = IF hit # None THEN hit.fs ELSE @]
      BY <1>5 DEF Parse, hit
    <3> QED BY <1>0, <3>1 DEF CallRec
  <2>3. hit # None => hit = kept.file /\ kept.file # None
    BY DEF Get
  <2>4. Clean(d) => CallSees(c, d)'
    BY <1>0, <1>5, <2>1, <2>2, <2>3 DEF Clean, CallSees, Parse
  <2>5. UNCHANGED <<buffer, inv, pinned, slots, parses, checkCache>>
    BY <1>5 DEF Parse
  <2> QED BY <2>1, <2>2, <2>4, <2>5, CallHeals DEF Clean
<1>6. CASE PutParse(c)
  <2> DEFINE h == call[c].host
             file == [src |-> call[c].src, fs |-> call[c].fs]
             kept == Put(parses[h], call[c].src, file)
  <2>1. d \notin overlapped /\ ~Dropping(d) /\ h \in Doc
    BY <1>0, <1>6, CallIsApart DEF PutParse
  <2>2. /\ \A e \in Caller \ {c} : call'[e] = call[e]
        /\ call'[c].host = call[c].host
        /\ call'[c].todo = call[c].todo
        /\ call'[c].got = call[c].got
        /\ call'[c].fs = call[c].fs
    BY <1>0, <1>6 DEF PutParse, CallRec
  <2>3. kept = parses[h] \/ kept.file = file
    BY DEF Put
  <2>4. parses' = [parses EXCEPT ![h] = kept]
    BY <1>6 DEF PutParse
  <2>5. Clean(d) => \A e \in Doc :
          parses'[e].file # None => parses'[e].file.fs[d] >= buffer[d]
    <3> HIDE DEF kept
    <3>1. SUFFICES ASSUME Clean(d), NEW e \in Doc, parses'[e].file # None
                   PROVE  parses'[e].file.fs[d] >= buffer[d]
      OBVIOUS
    <3>2. call[c].fs[d] >= buffer[d]
      BY <1>6, <3>1 DEF Clean, CallSees, PutParse
    <3>3. parses'[e] = IF e = h THEN kept ELSE parses[e]
      BY <2>4 DEF SessionTyped, SessionTypeOK
    <3> QED BY <2>3, <3>1, <3>2, <3>3 DEF Clean
  <2>6. Clean(d) => CallSees(c, d)'
    BY <1>0, <1>6, <2>2 DEF Clean, CallSees, PutParse
  <2>7. UNCHANGED <<buffer, inv, pinned, slots, checkCache>>
    BY <1>6 DEF PutParse
  <2> QED BY <2>1, <2>2, <2>5, <2>6, <2>7, CallHeals DEF Clean
<1>7. CASE \E e \in Doc : Read(c, e)
  <2>1. PICK e \in Doc : Read(c, e)
    BY <1>7
  <2> DEFINE v == IF slots[e] # None THEN slots[e] ELSE call[c].fs[e]
  <2>2. d \notin overlapped /\ ~Dropping(d)
    BY <2>1, CallIsApart DEF Read
  <2>3. /\ \A b \in Caller \ {c} : call'[b] = call[b]
        /\ call'[c].host = call[c].host
        /\ call'[c].todo = call[c].todo \ {e}
        /\ call'[c].got = [call[c].got EXCEPT ![e] = v]
        /\ call'[c].fs = call[c].fs
        /\ slots' = [slots EXCEPT ![e] = v]
    BY <1>0, <2>1 DEF Read, CallRec
  <2>4. slots'[d] = IF d = e THEN v ELSE slots[d]
    BY <2>3 DEF SessionTyped, SessionTypeOK
  <2>5. call'[c].got[d] = IF d = e THEN v ELSE call[c].got[d]
    BY <1>0, <2>3 DEF CallRec, Vers
  <2>6. Clean(d) /\ d = e => v >= buffer[d]
    BY <2>1 DEF Clean, CallSees, Read
  <2>7. Clean(d) => /\ slots'[d] # None => slots'[d] >= buffer[d]
                    /\ CallSees(c, d)'
    <3> HIDE DEF v
    <3>1. buffer' = buffer /\ call[c].pc = "read"
      BY <2>1 DEF Read
    <3> QED BY <2>3, <2>4, <2>5, <2>6, <3>1 DEF Clean, CallSees
  <2>8. UNCHANGED <<buffer, inv, pinned, parses, checkCache>>
    BY <2>1 DEF Read
  <2> HIDE DEF v
  <2> QED BY <2>2, <2>3, <2>7, <2>8, CallHeals DEF Clean
<1>8. CASE EndRead(c)
  <2>1. d \notin overlapped /\ ~Dropping(d)
    BY <1>8, CallIsApart DEF EndRead
  <2>2. /\ \A e \in Caller \ {c} : call'[e] = call[e]
        /\ call'[c].pc \in {"store", "done"}
        /\ call'[c].host = call[c].host
        /\ call'[c].todo = call[c].todo
        /\ call'[c].got = call[c].got
    BY <1>0, <1>8 DEF EndRead, CallRec
  <2>3. Clean(d) => CallSees(c, d)'
    BY <1>0, <1>8, <2>2 DEF Clean, CallSees, EndRead
  <2>4. UNCHANGED <<buffer, inv, pinned, slots, parses, checkCache>>
    BY <1>8 DEF EndRead
  <2> QED BY <2>1, <2>2, <2>3, <2>4, CallHeals DEF Clean
<1>9. CASE StoreResult(c)
  <2> DEFINE h == call[c].host
  <2>1. d \notin overlapped /\ ~Dropping(d) /\ h \in Doc
    BY <1>0, <1>9, CallIsApart DEF StoreResult
  <2>2. /\ \A e \in Caller \ {c} : call'[e] = call[e]
        /\ call'[c] = [call[c] EXCEPT !.pc = "done"]
    BY <1>0, <1>9 DEF StoreResult
  <2>3. Clean(d) => \A e \in Doc \ {d} :
          checkCache'[e] # None => checkCache'[e].got[d] >= buffer[d]
    <3>1. SUFFICES ASSUME Clean(d), NEW e \in Doc \ {d}, checkCache'[e] # None
                   PROVE  checkCache'[e].got[d] >= buffer[d]
      OBVIOUS
    <3>2. call[c].todo = {} /\ call[c].pc = "store"
      BY <1>9 DEF Expected, StoreResult
    <3>3. \/ checkCache'[e] = checkCache[e]
          \/ e = h /\ checkCache'[e].got = call[c].got
      BY <1>9, <2>1 DEF StoreResult, SessionTyped, SessionTypeOK
    <3> QED BY <3>1, <3>2, <3>3 DEF Clean, CallSees
  <2>4. Clean(d) => CallSees(c, d)'
    BY <1>0, <1>9, <2>2 DEF Clean, CallSees, StoreResult, CallRec
  <2>5. UNCHANGED <<buffer, inv, pinned, slots, parses>>
    BY <1>9 DEF StoreResult
  <2> QED BY <2>1, <2>2, <2>3, <2>4, <2>5, CallHeals DEF Clean
<1>10. CASE Return(c)
  <2>1. d \notin overlapped /\ ~Dropping(d)
    BY <1>10, CallIsApart DEF Return
  <2>2. /\ \A e \in Caller \ {c} : call'[e] = call[e]
        /\ call'[c].pc = "idle"
    BY <1>0, <1>10 DEF Return, NoCall
  <2>3. CallSees(c, d)'
    BY <2>2 DEF CallSees
  <2>4. UNCHANGED <<buffer, inv, pinned, slots, parses, checkCache>>
    BY <1>10 DEF Return
  <2> QED BY <2>1, <2>2, <2>3, <2>4, CallHeals DEF Clean
<1> QED BY <1>2, <1>3, <1>4, <1>5, <1>6, <1>7, <1>8, <1>9, <1>10 DEF CallStep

LEMMA HealingByInvalidate ==
  ASSUME SessionTyped, NEW d \in Doc,
         d \notin overlapped', \A e \in Doc \ overlapped : Healing(e),
         OtherStep
  PROVE  Healing(d)'
<1>0. /\ buffer \in [Doc -> Ver]
      /\ slots \in [Doc -> Ver \cup {None}]
      /\ parses \in [Doc -> SlotRec(File, 0..MaxVer + 1)]
      /\ inv.pc # "idle" => inv.doc \in Doc
      /\ inv \in [pc : {"idle", "slots", "parses", "checks"}, doc : Doc \cup {None}]
  BY DEF SessionTyped, SessionTypeOK, Vers
<1>1. CASE \E e \in Doc : SetBuffer(e)
  <2>1. PICK e \in Doc : SetBuffer(e)
    BY <1>1
  <2>2. CASE d = e
    <3>1. /\ \A c \in Caller : call'[c].pc = "idle"
          /\ inv'.pc = "slots" /\ inv'.doc = d
      BY <2>1, <2>2 DEF SetBuffer
    <3> QED BY <3>1 DEF Healing, Dropping
  <2>3. CASE d # e
    <3>1. /\ d \notin overlapped
          /\ ~Dropping(d) /\ ~Dropping(d)'
          /\ buffer'[d] = buffer[d]
          /\ UNCHANGED <<slots, parses, checkCache, call, pinned>>
      BY <1>0, <2>1, <2>3 DEF SetBuffer, Dropping
    <3> QED BY <3>1 DEF Healing, Clean, CallSees
  <2> QED BY <2>2, <2>3
<1>2. CASE DropSlots
  <2>1. /\ d \notin overlapped
        /\ inv.doc \in Doc
        /\ inv'.doc = inv.doc /\ inv'.pc = "parses" /\ inv.pc = "slots"
        /\ slots' = [slots EXCEPT ![inv.doc] = None]
        /\ UNCHANGED <<buffer, parses, checkCache, call, pinned>>
    BY <1>0, <1>2 DEF DropSlots
  <2>2. slots'[d] = IF d = inv.doc THEN None ELSE slots[d]
    BY <1>0, <2>1
  <2> QED BY <2>1, <2>2 DEF Healing, Dropping, Clean, CallSees
<1>3. CASE DropParse
  <2>1. /\ d \notin overlapped
        /\ inv.doc \in Doc
        /\ inv'.doc = inv.doc /\ inv'.pc = "checks" /\ inv.pc = "parses"
        /\ parses' = [parses EXCEPT ![inv.doc] = Clear(@)]
        /\ UNCHANGED <<buffer, slots, checkCache, call, pinned>>
    BY <1>0, <1>3 DEF DropParse
  <2>2. \A h \in Doc : parses'[h] = parses[h] \/ parses'[h].file = None
    <3>1. parses[inv.doc] \in SlotRec(File, 0..MaxVer + 1)
      BY <1>0, <2>1
    <3>2. parses[inv.doc].held => parses[inv.doc].version \in Ver
      BY <2>1 DEF SessionTyped
    <3>3. \/ Clear(parses[inv.doc]) = parses[inv.doc]
          \/ Clear(parses[inv.doc]).file = None
      BY <3>1, <3>2, SessionClear
    <3> QED BY <1>0, <2>1, <3>3
  <2>3. Clean(d) => Clean(d)'
    BY <2>1, <2>2 DEF Clean, CallSees
  <2> QED BY <2>1, <2>3 DEF Healing, Dropping
<1>4. CASE DropChecks
  <2>1. /\ d \notin overlapped
        /\ inv.doc \in Doc
        /\ inv.pc = "checks" /\ inv'.pc = "idle"
        /\ checkCache' = [e \in Doc |-> None]
        /\ UNCHANGED <<buffer, slots, parses, call>>
    BY <1>0, <1>4 DEF DropChecks, Resting
  <2>2. SUFFICES ASSUME d \notin pinned' PROVE Clean(d)'
    BY <2>1 DEF Healing, Dropping
  <2>3. CASE d = inv.doc
    <3>1. \A c \in Caller : call[c].pc = "idle" /\ slots[d] = None
      BY <2>1, <2>3 DEF Healing, Dropping
    <3>2. ~Pins(d)
      BY <1>4, <2>2, <2>3 DEF DropChecks
    <3>3. \A h \in Doc : parses[h].file # None => parses[h].file.fs[d] >= buffer[d]
      <4>1. SUFFICES ASSUME NEW h \in Doc, parses[h].file # None
                     PROVE  parses[h].file.fs[d] >= buffer[d]
        OBVIOUS
      <4>2. ~(parses[h].file.fs[d] < buffer[d])
        BY <3>2, <4>1 DEF Pins
      <4>3. parses[h].file.fs[d] \in Nat /\ buffer[d] \in Nat
        BY <4>1, SessionVersions
      <4> QED BY <4>2, <4>3
    <3> QED BY <2>1, <2>3, <3>1, <3>3 DEF Clean, CallSees, Healing, Dropping
  <2>4. CASE d # inv.doc
    <3>1. d \notin pinned
      BY <1>4, <2>2, <2>4 DEF DropChecks
    <3>2. Clean(d)
      BY <2>1, <2>4, <3>1 DEF Healing, Dropping
    <3> QED BY <2>1, <3>2 DEF Clean, CallSees
  <2> QED BY <2>3, <2>4
<1>5. CASE Dispose
  <2>1. /\ d \notin overlapped
        /\ checkCache' = [e \in Doc |-> None]
        /\ UNCHANGED <<buffer, slots, parses, call, inv, pinned>>
    BY <1>5 DEF Dispose
  <2>2. Clean(d) => Clean(d)'
    BY <2>1 DEF Clean, CallSees
  <2> QED BY <2>1, <2>2 DEF Healing, Dropping
<1>6. CASE UNCHANGED sessionVars
  BY <1>6 DEF sessionVars, Healing, Dropping, Clean, CallSees
<1> QED BY <1>1, <1>2, <1>3, <1>4, <1>5, <1>6 DEF OtherStep

(* What a check says about a document is never older than the Invalidate   *)
(* that returned before the check began, through all three caches and      *)
(* whatever went wrong before, once the last Invalidate of the document    *)
(* ran with no check in flight and left no parse that holds an older       *)
(* snapshot of it.                                                         *)
THEOREM InvalidateHeals ==
  SessionSpec => []QuietInvalidateHeals
<1>1. SessionTyped /\ SessionHeals /\ [SessionNext]_sessionVars => SessionTyped' /\ SessionHeals'
  <2> SUFFICES ASSUME SessionTyped, SessionHeals, [SessionNext]_sessionVars
               PROVE  SessionTyped' /\ SessionHeals'
    OBVIOUS
  <2>1. SessionTyped'
    BY SessionTypedNext
  <2>2. Expected'
    BY ExpectedNext DEF SessionHeals
  <2>3. ASSUME NEW d \in Doc, d \notin overlapped' PROVE Healing(d)'
    BY <2>3, HealingByCall, HealingByInvalidate, SessionSteps DEF SessionHeals
  <2> QED BY <2>1, <2>2, <2>3 DEF SessionHeals
<1>2. SessionTyped /\ SessionHeals => QuietInvalidateHeals
  <2> SUFFICES ASSUME SessionTyped, SessionHeals, NEW c \in Caller,
                      NEW d \in Doc \ (overlapped \cup pinned), call[c].pc = "done"
               PROVE  call[c].got[d] >= call[c].from[d]
    BY DEF QuietInvalidateHeals, Fresh
  <2>1. /\ call[c].got[d] \in Nat /\ call[c].from[d] \in Nat /\ buffer[d] \in Nat
        /\ call[c].from[d] <= buffer[d]
    BY SessionVersions DEF SessionHeals, Expected
  <2>2. CASE d = call[c].host
    BY <2>1, <2>2 DEF SessionHeals, Expected
  <2>3. CASE d # call[c].host
    <3>1. Healing(d) /\ ~Dropping(d) /\ call[c].todo = {}
      BY CallIsApart DEF SessionHeals, Expected
    <3>2. call[c].got[d] >= buffer[d]
      BY <2>3, <3>1 DEF Healing, Clean, CallSees
    <3> QED BY <2>1, <3>2
  <2> QED BY <2>2, <2>3
<1> QED BY <1>1, <1>2, SessionTypedInit, SessionHealsInit, PTL DEF SessionSpec
=============================================================================
