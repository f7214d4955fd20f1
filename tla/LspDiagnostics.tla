--------------------------- MODULE LspDiagnostics ---------------------------
(***************************************************************************)
(* The diagnostics push pipeline of the mdsmith language server            *)
(* (internal/lsp): document events on the dispatch goroutine, the debounce *)
(* timers and their identity tokens, the lint goroutines they start, the   *)
(* settings goroutines of workspace/didChangeConfiguration, and shutdown.  *)
(*                                                                         *)
(* A document's text and version are one number, its generation; 0 stands  *)
(* for "not open".  The diagnostics of a generation are that generation,   *)
(* and 0 is the empty set, so what the editor shows can be compared with   *)
(* what it edits.  What a lint reads besides its own document is the       *)
(* subject of LspSession and RunCache.                                     *)
(***************************************************************************)
EXTENDS Naturals, FiniteSets

CONSTANTS
  Uri,       \* document URIs
  Task,      \* timers and the lint goroutines they become (bound on both)
  Fetcher,   \* goroutines running fetchClientSettings (bound)
  MaxGen,    \* bound on the generations of one document
  Poison,    \* generations on which some rule panics
  Ignorable, \* URIs that some configuration ignores
  NoTask,    \* no entry in the pending map
  NoUri,     \* no document
  Main       \* the dispatch goroutine

ASSUME ConstantsAssumption ==
  /\ MaxGen \in Nat
  /\ Poison \subseteq 1..MaxGen
  /\ Ignorable \subseteq Uri
  /\ NoTask \notin Task
  /\ NoUri \notin Uri
  /\ Main \notin Fetcher

VARIABLES
  docs,      \* documentStore: the open generation of each URI, 0 if closed
  edits,     \* the client's last generation of each URI, open or not
  mode,      \* settings.Run
  ignored,   \* URIs the loaded configuration ignores
  shutdown,  \* the shutdown flag
  pending,   \* Server.pending: the live token of each URI
  task,      \* one record per timer / lint goroutine
  job,       \* where the dispatch goroutine and each fetcher stand
  diags,     \* Server.diags, the cache hover reads
  shown,     \* what the client last received for each URI
  settled,   \* history: URIs whose open generation has had its outcome published
  orphan     \* history: URIs whose last non-empty publish came after the close

vars == <<docs, edits, mode, ignored, shutdown, pending, task, job, diags,
          shown, settled, orphan>>

Mode    == {"off", "onSave", "onType"}
Trigger == {"open", "change", "save", "config"}
Gen     == 0..MaxGen
Thread  == Fetcher \cup {Main}

TaskPc == {"free", "armed", "fired", "start", "ignored", "unshow",
           "check", "publish"}
JobPc  == {"idle", "schedule", "arm", "cancel", "uncache", "unpublish",
           "stop", "waiting", "reload", "decide", "clear", "unshow"}

(* A record names a document exactly while it is working on one.           *)
TaskRec ==
  [pc : {"free"}, uri : {NoUri}, gen : {0}]
    \cup [pc : TaskPc \ {"free"}, uri : Uri, gen : Gen]

OnUri == {"arm", "cancel", "uncache", "unpublish", "unshow"}

JobRec ==
  [pc : JobPc \ OnUri, uri : {NoUri}, trig : Trigger, todo : SUBSET Uri]
    \cup [pc : OnUri, uri : Uri, trig : Trigger, todo : SUBSET Uri]

Free    == [pc |-> "free", uri |-> NoUri, gen |-> 0]
Idle    == [pc |-> "idle", uri |-> NoUri, trig |-> "open", todo |-> {}]

Open == {u \in Uri : docs[u] # 0}

(* What a thread does once the documents in S remain to be handled.        *)
Rest(j, pc, S) ==
  IF S = {} THEN Idle ELSE [j EXCEPT !.pc = pc, !.todo = S, !.uri = NoUri]

Schedule(S, trig) ==
  IF S = {} THEN Idle
  ELSE [pc |-> "schedule", uri |-> NoUri, trig |-> trig, todo |-> S]

(* timer.Stop: a timer that has not fired never will; one that has fired   *)
(* is a goroutine Stop cannot reach.                                       *)
StopTimers(S) ==
  [l \in Task |-> IF l \in S /\ task[l].pc = "armed" THEN Free ELSE task[l]]

Init ==
  /\ docs = [u \in Uri |-> 0]
  /\ edits = [u \in Uri |-> 0]
  /\ mode = "onType"
  /\ ignored = {}
  /\ shutdown = FALSE
  /\ pending = [u \in Uri |-> NoTask]
  /\ task = [l \in Task |-> Free]
  /\ job = [t \in Thread |-> Idle]
  /\ diags = [u \in Uri |-> 0]
  /\ shown = [u \in Uri |-> 0]
  /\ settled = {}
  /\ orphan = {}

-----------------------------------------------------------------------------
(* Document events.  The dispatch goroutine handles one message at a time  *)
(* and, once shutting down, accepts none of these.                         *)

Accepts == job[Main].pc = "idle" /\ ~shutdown

Edit(u, trig) ==
  /\ edits[u] < MaxGen
  /\ edits' = [edits EXCEPT ![u] = @ + 1]
  /\ docs' = [docs EXCEPT ![u] = edits[u] + 1]
  /\ settled' = settled \ {u}
  /\ job' = [job EXCEPT ![Main] = Schedule({u}, trig)]
  /\ UNCHANGED <<mode, ignored, shutdown, pending, task, diags, shown, orphan>>

DidOpen(u) == Accepts /\ docs[u] = 0 /\ Edit(u, "open")

DidChange(u) == Accepts /\ docs[u] # 0 /\ Edit(u, "change")

DidSave(u) ==
  /\ Accepts
  /\ job' = [job EXCEPT ![Main] = Schedule({u}, "save")]
  /\ UNCHANGED <<docs, edits, mode, ignored, shutdown, pending, task, diags,
                 shown, settled, orphan>>

(* didClose: forget the document, cancel its timer, drop its diagnostics,  *)
(* then publish the empty set, each under its own lock.                    *)
DidClose(u) ==
  /\ Accepts
  /\ docs[u] # 0
  /\ docs' = [docs EXCEPT ![u] = 0]
  /\ settled' = settled \ {u}
  /\ job' = [job EXCEPT ![Main] = [Idle EXCEPT !.pc = "cancel", !.uri = u]]
  /\ UNCHANGED <<edits, mode, ignored, shutdown, pending, task, diags, shown,
                 orphan>>

(* Mutant: the timer is stopped but its token stays in the map.            *)
CloseCancel_KeepsToken(u) ==
  /\ job[Main].pc = "cancel" /\ job[Main].uri = u
  /\ task' = StopTimers({pending[u]})
  /\ job' = [job EXCEPT ![Main].pc = "uncache"]
  /\ UNCHANGED <<docs, edits, mode, ignored, shutdown, pending, diags, shown,
                 settled, orphan>>

CloseCancel(u) ==
  /\ job[Main].pc = "cancel" /\ job[Main].uri = u
  /\ pending' = [pending EXCEPT ![u] = NoTask]
  /\ task' = StopTimers({pending[u]})
  /\ job' = [job EXCEPT ![Main].pc = "uncache"]
  /\ UNCHANGED <<docs, edits, mode, ignored, shutdown, diags, shown, settled,
                 orphan>>

CloseUncache(u) ==
  /\ job[Main].pc = "uncache" /\ job[Main].uri = u
  /\ diags' = [diags EXCEPT ![u] = 0]
  /\ job' = [job EXCEPT ![Main].pc = "unpublish"]
  /\ UNCHANGED <<docs, edits, mode, ignored, shutdown, pending, task, shown,
                 settled, orphan>>

ClosePublish(u) ==
  /\ job[Main].pc = "unpublish" /\ job[Main].uri = u
  /\ shown' = [shown EXCEPT ![u] = 0]
  /\ orphan' = orphan \ {u}
  /\ job' = [job EXCEPT ![Main] = Idle]
  /\ UNCHANGED <<docs, edits, mode, ignored, shutdown, pending, task, diags,
                 settled>>

(* A watched .mdsmith.yml changed: reload it, then schedule every open     *)
(* document.                                                               *)
DidChangeConfigFile(S) ==
  /\ Accepts
  /\ ignored' = S
  /\ settled' = {}
  /\ job' = [job EXCEPT ![Main] = Schedule(Open, "config")]
  /\ UNCHANGED <<docs, edits, mode, shutdown, pending, task, diags, shown,
                 orphan>>

-----------------------------------------------------------------------------
(* scheduleLint, by the dispatch goroutine or a fetcher: the gates, then   *)
(* the swap of the URI's token.  The previous timer is stopped after the   *)
(* lock is released; one that fires first finds another token in its place *)
(* and does nothing, which is where stopping it would have left it.        *)

Gated(trig) ==
  \/ shutdown
  \/ mode = "off"
  \/ mode = "onSave" /\ trig = "change"

ScheduleGate(t, u) ==
  /\ job[t].pc = "schedule"
  /\ u \in job[t].todo
  /\ LET left == job[t].todo \ {u} IN
     job' = [job EXCEPT ![t] =
               IF Gated(job[t].trig)
               THEN Rest(job[t], "schedule", left)
               ELSE [job[t] EXCEPT !.pc = "arm", !.uri = u, !.todo = left]]
  /\ UNCHANGED <<docs, edits, mode, ignored, shutdown, pending, task, diags,
                 shown, settled, orphan>>

(* Mutant: the loop over the open documents ends with the first.           *)
ScheduleArm_FirstOnly(t, l) ==
  /\ job[t].pc = "arm"
  /\ task[l].pc = "free"
  /\ LET u == job[t].uri IN
     /\ pending' = [pending EXCEPT ![u] = l]
     /\ task' = [StopTimers({pending[u]}) EXCEPT
                   ![l] = [pc |-> "armed", uri |-> u, gen |-> 0]]
  /\ job' = [job EXCEPT ![t] = Idle]
  /\ UNCHANGED <<docs, edits, mode, ignored, shutdown, diags, shown, settled,
                 orphan>>

ScheduleArm(t, l) ==
  /\ job[t].pc = "arm"
  /\ task[l].pc = "free"
  /\ LET u == job[t].uri IN
     /\ pending' = [pending EXCEPT ![u] = l]
     /\ task' = [StopTimers({pending[u]}) EXCEPT
                   ![l] = [pc |-> "armed", uri |-> u, gen |-> 0]]
  /\ job' = [job EXCEPT ![t] = Rest(@, "schedule", @.todo)]
  /\ UNCHANGED <<docs, edits, mode, ignored, shutdown, diags, shown, settled,
                 orphan>>

-----------------------------------------------------------------------------
(* A lint goroutine: the timer fires, runLintIfCurrent claims the token,   *)
(* runLint copies the document, checks it and publishes.                   *)

Fire(l) ==
  /\ task[l].pc = "armed"
  /\ task' = [task EXCEPT ![l].pc = "fired"]
  /\ UNCHANGED <<docs, edits, mode, ignored, shutdown, pending, job, diags,
                 shown, settled, orphan>>

(* Mutant: the map entry is deleted before its identity is compared.       *)
RunLintIfCurrent_DeletesFirst(l) ==
  /\ task[l].pc = "fired"
  /\ LET live == pending[task[l].uri] = l /\ ~shutdown IN
     /\ pending' = [pending EXCEPT ![task[l].uri] = NoTask]
     /\ task' = [task EXCEPT ![l] = IF live THEN [@ EXCEPT !.pc = "start"]
                                            ELSE Free]
  /\ UNCHANGED <<docs, edits, mode, ignored, shutdown, job, diags, shown,
                 settled, orphan>>

RunLintIfCurrent(l) ==
  /\ task[l].pc = "fired"
  /\ LET live == pending[task[l].uri] = l /\ ~shutdown IN
     /\ pending' = IF live THEN [pending EXCEPT ![task[l].uri] = NoTask]
                           ELSE pending
     /\ task' = [task EXCEPT ![l] = IF live THEN [@ EXCEPT !.pc = "start"]
                                            ELSE Free]
  /\ UNCHANGED <<docs, edits, mode, ignored, shutdown, job, diags, shown,
                 settled, orphan>>

(* Mutant: the version is taken one past the document's.                   *)
LintStart_OffByOne(l) ==
  /\ task[l].pc = "start"
  /\ LET u == task[l].uri IN
     task' = [task EXCEPT ![l] =
                IF docs[u] = 0 THEN Free
                ELSE [@ EXCEPT !.gen = docs[u] + 1,
                       !.pc = IF u \in ignored THEN "ignored" ELSE "check"]]
  /\ UNCHANGED <<docs, edits, mode, ignored, shutdown, pending, job, diags,
                 shown, settled, orphan>>

(* docs.get and snapshotConfig.                                            *)
LintStart(l) ==
  /\ task[l].pc = "start"
  /\ LET u == task[l].uri IN
     task' = [task EXCEPT ![l] =
                IF docs[u] = 0 THEN Free
                ELSE [@ EXCEPT !.gen = docs[u],
                       !.pc = IF u \in ignored THEN "ignored" ELSE "check"]]
  /\ UNCHANGED <<docs, edits, mode, ignored, shutdown, pending, job, diags,
                 shown, settled, orphan>>

Settle(l) ==
  settled' = IF task[l].gen = docs[task[l].uri]
             THEN settled \cup {task[l].uri} ELSE settled

(* An ignored document: forget its diagnostics, and only then, outside the *)
(* lock and whatever the mode, publish the empty set.                      *)
IgnoredUncache(l) ==
  /\ task[l].pc = "ignored"
  /\ diags' = [diags EXCEPT ![task[l].uri] = 0]
  /\ task' = [task EXCEPT ![l].pc = "unshow"]
  /\ UNCHANGED <<docs, edits, mode, ignored, shutdown, pending, job, shown,
                 settled, orphan>>

IgnoredPublish(l) ==
  /\ task[l].pc = "unshow"
  /\ shown' = [shown EXCEPT ![task[l].uri] = 0]
  /\ orphan' = orphan \ {task[l].uri}
  /\ Settle(l)
  /\ task' = [task EXCEPT ![l] = Free]
  /\ UNCHANGED <<docs, edits, mode, ignored, shutdown, pending, job, diags>>

(* CheckVersion, then the two checks that drop a result nobody wants.  A   *)
(* panic in a rule is recovered and publishes nothing.                     *)
LintCheck(l) ==
  /\ task[l].pc = "check"
  /\ task' = [task EXCEPT ![l] =
                IF task[l].gen \in Poison \/ shutdown \/ docs[task[l].uri] = 0
                THEN Free ELSE [@ EXCEPT !.pc = "publish"]]
  /\ UNCHANGED <<docs, edits, mode, ignored, shutdown, pending, job, diags,
                 shown, settled, orphan>>

(* didClose of u has begun and its empty publish is still to come.         *)
Closing(u) ==
  job[Main].pc \in {"cancel", "uncache", "unpublish"} /\ job[Main].uri = u

(* Mutant: the mode is not looked at again under diagsMu.                  *)
LintPublish_NoModeCheck(l) ==
  /\ task[l].pc = "publish"
  /\ LET u == task[l].uri IN
     /\ diags' = [diags EXCEPT ![u] = task[l].gen]
     /\ shown' = [shown EXCEPT ![u] = task[l].gen]
     /\ Settle(l)
     /\ orphan' = IF docs[u] = 0 /\ ~Closing(u) THEN orphan \cup {u}
                                               ELSE orphan \ {u}
  /\ task' = [task EXCEPT ![l] = Free]
  /\ UNCHANGED <<docs, edits, mode, ignored, shutdown, pending, job>>

(* Under diagsMu: the mode, the cache and the write to the client.         *)
LintPublish(l) ==
  /\ task[l].pc = "publish"
  /\ LET u == task[l].uri IN
     IF mode = "off"
     THEN UNCHANGED <<diags, shown, settled, orphan>>
     ELSE /\ diags' = [diags EXCEPT ![u] = task[l].gen]
          /\ shown' = [shown EXCEPT ![u] = task[l].gen]
          /\ Settle(l)
          /\ orphan' = IF docs[u] = 0 /\ ~Closing(u) THEN orphan \cup {u}
                                                    ELSE orphan \ {u}
  /\ task' = [task EXCEPT ![l] = Free]
  /\ UNCHANGED <<docs, edits, mode, ignored, shutdown, pending, job>>

-----------------------------------------------------------------------------
(* workspace/didChangeConfiguration starts a goroutine that asks the       *)
(* client for its settings, applies them, reloads the configuration and    *)
(* then clears or reschedules every open document.                         *)

DidChangeConfiguration(f) ==
  /\ Accepts
  /\ job[f].pc = "idle"
  /\ job' = [job EXCEPT ![f].pc = "waiting"]
  /\ UNCHANGED <<docs, edits, mode, ignored, shutdown, pending, task, diags,
                 shown, settled, orphan>>

(* The two-second timer, a cancelled context or an unusable answer.        *)
FetchGiveUp(f) ==
  /\ job[f].pc = "waiting"
  /\ job' = [job EXCEPT ![f] = Idle]
  /\ UNCHANGED <<docs, edits, mode, ignored, shutdown, pending, task, diags,
                 shown, settled, orphan>>

FetchApply(f, m) ==
  /\ job[f].pc = "waiting"
  /\ mode' = m
  /\ job' = [job EXCEPT ![f].pc = "reload"]
  /\ UNCHANGED <<docs, edits, ignored, shutdown, pending, task, diags, shown,
                 settled, orphan>>

FetchReload(f, S) ==
  /\ job[f].pc = "reload"
  /\ ignored' = S
  /\ settled' = {}
  /\ job' = [job EXCEPT ![f].pc = "decide"]
  /\ UNCHANGED <<docs, edits, mode, shutdown, pending, task, diags, shown,
                 orphan>>

(* Mutant: new settings clear what must go, and reschedule nothing.        *)
FetchDecide_OnlyClears(f) ==
  /\ job[f].pc = "decide"
  /\ job' = [job EXCEPT ![f] =
               IF mode = "off" THEN Rest(@, "clear", Open) ELSE Idle]
  /\ UNCHANGED <<docs, edits, mode, ignored, shutdown, pending, task, diags,
                 shown, settled, orphan>>

FetchDecide(f) ==
  /\ job[f].pc = "decide"
  /\ job' = [job EXCEPT ![f] =
               IF mode = "off" THEN Rest(@, "clear", Open)
                               ELSE Schedule(Open, "config")]
  /\ UNCHANGED <<docs, edits, mode, ignored, shutdown, pending, task, diags,
                 shown, settled, orphan>>

(* clearOpenDiagnostics, per document: cancel the timer; then, under       *)
(* diagsMu, forget the diagnostics and publish the empty set.              *)
ClearCancel(f, u) ==
  /\ job[f].pc = "clear"
  /\ u \in job[f].todo
  /\ pending' = [pending EXCEPT ![u] = NoTask]
  /\ task' = StopTimers({pending[u]})
  /\ job' = [job EXCEPT ![f].pc = "unshow", ![f].uri = u,
                        ![f].todo = @ \ {u}]
  /\ UNCHANGED <<docs, edits, mode, ignored, shutdown, diags, shown, settled,
                 orphan>>

(* Mutant: the loop over the open documents ends with the first.           *)
ClearPublish_FirstOnly(f) ==
  /\ job[f].pc = "unshow"
  /\ LET u == job[f].uri IN
     /\ diags' = [diags EXCEPT ![u] = 0]
     /\ shown' = [shown EXCEPT ![u] = 0]
     /\ settled' = settled \ {u}
     /\ orphan' = orphan \ {u}
  /\ job' = [job EXCEPT ![f] = Idle]
  /\ UNCHANGED <<docs, edits, mode, ignored, shutdown, pending, task>>

ClearPublish(f) ==
  /\ job[f].pc = "unshow"
  /\ LET u == job[f].uri IN
     /\ diags' = [diags EXCEPT ![u] = 0]
     /\ shown' = [shown EXCEPT ![u] = 0]
     /\ settled' = settled \ {u}
     /\ orphan' = orphan \ {u}
  /\ job' = [job EXCEPT ![f] = Rest(@, "clear", @.todo)]
  /\ UNCHANGED <<docs, edits, mode, ignored, shutdown, pending, task>>

-----------------------------------------------------------------------------
(* shutdown, exit, or the input stream ending: raise the flag, then cancel *)
(* every armed timer before answering.                                     *)

Shutdown ==
  /\ Accepts
  /\ shutdown' = TRUE
  /\ job' = [job EXCEPT ![Main].pc = "stop"]
  /\ UNCHANGED <<docs, edits, mode, ignored, pending, task, diags, shown,
                 settled, orphan>>

StopPendingLints ==
  /\ job[Main].pc = "stop"
  /\ pending' = [u \in Uri |-> NoTask]
  /\ task' = StopTimers({pending[u] : u \in Uri})
  /\ job' = [job EXCEPT ![Main] = Idle]
  /\ UNCHANGED <<docs, edits, mode, ignored, shutdown, diags, shown, settled,
                 orphan>>

-----------------------------------------------------------------------------
Dispatch ==
  \/ \E u \in Uri : \/ DidOpen(u) \/ DidChange(u) \/ DidSave(u) \/ DidClose(u)
  \/ \E S \in SUBSET Ignorable : DidChangeConfigFile(S)
  \/ \E f \in Fetcher : DidChangeConfiguration(f)
  \/ Shutdown

MainStep ==
  \/ \E u \in Uri : CloseCancel(u) \/ CloseUncache(u) \/ ClosePublish(u)
  \/ StopPendingLints

ScheduleStep(t) ==
  \/ \E u \in Uri : ScheduleGate(t, u)
  \/ \E l \in Task : ScheduleArm(t, l)

FetchStep(f) ==
  \/ FetchGiveUp(f)
  \/ \E m \in Mode : FetchApply(f, m)
  \/ \E S \in SUBSET Ignorable : FetchReload(f, S)
  \/ FetchDecide(f)
  \/ \E u \in Uri : ClearCancel(f, u)
  \/ ClearPublish(f)

LintStep(l) ==
  \/ Fire(l) \/ RunLintIfCurrent(l) \/ LintStart(l)
  \/ IgnoredUncache(l) \/ IgnoredPublish(l)
  \/ LintCheck(l) \/ LintPublish(l)

Next ==
  \/ Dispatch
  \/ MainStep
  \/ \E t \in Thread : ScheduleStep(t)
  \/ \E f \in Fetcher : FetchStep(f)
  \/ \E l \in Task : LintStep(l)

(* The Go scheduler runs every goroutine that can run, and the runtime     *)
(* fires every timer that is not stopped.  Nothing obliges the client to   *)
(* send anything.                                                          *)
Fairness ==
  /\ WF_vars(MainStep)
  /\ \A t \in Thread : WF_vars(ScheduleStep(t))
  /\ \A f \in Fetcher : WF_vars(FetchStep(f))
  /\ \A l \in Task : WF_vars(LintStep(l))

Spec == Init /\ [][Next]_vars

FairSpec == Spec /\ Fairness

-----------------------------------------------------------------------------
(* The variables hold what their declarations say.                         *)
TypeOK ==
  /\ docs \in [Uri -> Gen]
  /\ edits \in [Uri -> Gen]
  /\ mode \in Mode
  /\ ignored \in SUBSET Ignorable
  /\ shutdown \in BOOLEAN
  /\ pending \in [Uri -> Task \cup {NoTask}]
  /\ task \in [Task -> TaskRec]
  /\ job \in [Thread -> JobRec]
  /\ diags \in [Uri -> Gen]
  /\ shown \in [Uri -> Gen]
  /\ settled \in SUBSET Uri
  /\ orphan \in SUBSET Uri

(* Until shutdown, every token in the pending map belongs to a timer that  *)
(* is armed or has fired and not yet looked: no path leaves behind a token *)
(* whose timer it stopped, and whose lint would therefore never run.       *)
PendingIsLive ==
  \A u \in Uri : pending[u] # NoTask /\ ~shutdown =>
    /\ task[pending[u]].pc \in {"armed", "fired"}
    /\ task[pending[u]].uri = u

(* A fetcher that has applied settings will still clear u if the mode is   *)
(* off when it looks.                                                      *)
ClearDue(f, u) ==
  \/ job[f].pc \in {"reload", "decide"}
  \/ job[f].pc \in {"clear", "unshow"} /\ u \in job[f].todo
  \/ job[f].pc = "unshow" /\ job[f].uri = u

(* mdsmith.run = off is a master switch: while it holds, nothing is shown  *)
(* for any document except what a clear still under way is about to take   *)
(* down, however lints in flight, other settings changes and closes        *)
(* interleave with it (diagsMu in runLint and clearOpenDiagnostics).  The  *)
(* one exception is what a lint published for a document already closed.   *)
OffIsLastWord ==
  \A u \in Uri :
    mode = "off" /\ shown[u] # 0 =>
      u \in orphan \/ Closing(u) \/ \E f \in Fetcher : ClearDue(f, u)

(* A lint of u is on its way that will see the open generation.            *)
LintComing(u) ==
  \/ pending[u] # NoTask
  \/ \E l \in Task :
       /\ task[l].uri = u
       /\ \/ task[l].pc = "start"
          \/ /\ task[l].pc \in {"ignored", "unshow", "check", "publish"}
             /\ task[l].gen = docs[u]
  \/ \E t \in Thread :
       \/ job[t].pc \in {"reload", "decide"}
       \/ job[t].pc \in {"schedule", "arm"} /\ u \in job[t].todo
       \/ job[t].pc = "arm" /\ job[t].uri = u

(* No edit is lost: in onType mode the open generation of a document       *)
(* has had its outcome published, or a lint that will read it is on its    *)
(* way, whatever timers were replaced, stopped or fired late and whatever  *)
(* the settings did meanwhile (scheduleLint, runLintIfCurrent,             *)
(* fetchClientSettings).  A generation on which a rule panics is excused.  *)
(* It needs settings answers to be applied one at a time (one Fetcher):    *)
(* SettingsReachEveryBuffer shows what two of them do.                     *)
EditCovered ==
  mode = "onType" /\ ~shutdown =>
    \A u \in Open : u \in settled \/ docs[u] \in Poison \/ LintComing(u)

(* If the client eventually stops sending (every event may replace the     *)
(* pending lint, so one that never stops can postpone it for ever), an     *)
(* edit made in onType mode is published, or superseded by another edit, a *)
(* close, a change of mode or a shutdown.                                  *)
ClientRests == <>[][~Dispatch]_vars

EditIsAnswered ==
  ClientRests =>
    \A u \in Uri : \A g \in (1..MaxGen) \ Poison :
      docs[u] = g ~> \/ u \in settled
                     \/ docs[u] # g
                     \/ mode # "onType"
                     \/ shutdown

Quiet == \A l \in Task : task[l].pc = "free"

(* What the server's comments promise and a race breaks.                   *)

(* "discard results to avoid re-publishing stale diagnostics over          *)
(* didClose's empty notification": a closed document shows nothing.        *)
ClosedShowsNothing ==
  \A u \in Uri : docs[u] = 0 /\ shown[u] # 0 => Closing(u)

(* "without this guard the editor would see back-to-back lints with the    *)
(* older one flashing stale diagnostics": what is shown for an open        *)
(* document never goes back to an older generation.                        *)
NeverOlder ==
  [][\A u \in Uri : docs[u] # 0 /\ shown'[u] # 0 => shown'[u] >= shown[u]]_vars

(* "so we do not publish diagnostics after the client asked us to stop":   *)
(* nothing is published once shutdown has been answered.                   *)
SilentAfterShutdown ==
  [][shutdown /\ job[Main].pc = "idle" => shown' = shown]_vars

(* fetchClientSettings "reschedules a lint pass for every open document so *)
(* the diagnostics reflect the new run mode and config": with nothing left *)
(* to do in onType mode, every open document has its own outcome.          *)
SettingsReachEveryBuffer ==
  mode = "onType" /\ ~shutdown /\ Quiet /\ (\A t \in Thread : job[t].pc = "idle")
    => \A u \in Open : u \in settled \/ docs[u] \in Poison

(* "Caching before the write also keeps hover consistent with what the     *)
(* client just received": outside the close and the ignored branch, the    *)
(* cache and the client agree about an open document.                      *)
HoverAgrees ==
  \A u \in Open :
    \/ diags[u] = shown[u]
    \/ \E l \in Task : task[l].uri = u /\ task[l].pc = "unshow"
=============================================================================
