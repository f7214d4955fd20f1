------------------------------ MODULE LspSession ------------------------------
(***************************************************************************)
(* The language server's session: the configuration, the session compiled  *)
(* from it with its overlay of open buffers, and the goroutines that        *)
(* rebuild it (reloads on the handler goroutine and on those that fetch    *)
(* settings, and whoever finds no session yet) while the document handlers *)
(* push edits into it.                                                     *)
(*                                                                         *)
(* Every locked region and file read is a step.  A goroutine keeps the     *)
(* session it was handed after another has been published; what a handler  *)
(* then writes to it reaches only the checks that still hold it, and is    *)
(* left out.  The caches are Session's subject: here cross-file rules read *)
(* a document through the overlay or from the disk.  Building a session    *)
(* never fails (its configuration is compiled already).                    *)
(***************************************************************************)
EXTENDS Naturals

CONSTANTS
  Doc,      \* documents
  Text,     \* their texts
  Place,    \* configuration files
  Home,     \* the one discovered from the workspace folder
  Written,  \* the versions of each: 0 is a file that is missing or broken
  Root,     \* project roots
  RootOf,   \* the root of a configuration, or of none
  Inside,   \* the documents below each root
  Name,     \* relative and absolute paths
  Key,      \* workspaceRelative: the name of each document for each root
  Fetcher,  \* goroutines that fetch settings
  Lint,     \* goroutines that lint, and may find no session
  Answers,  \* what the client sets mdsmith.config to; Nil clears it
  Main,     \* the handler goroutine
  Nil       \* no file, no session, no document, no text

Thread == {Main} \cup Fetcher \cup Lint
Config == [place : Place \cup {Nil}, ver : (UNION {Written[p] : p \in Place}) \cup {0}]

ASSUME LspAssumption ==
  /\ Home \in Place
  /\ Written \in [Place -> SUBSET Nat]
  /\ RootOf \in [Place \cup {Nil} -> Root]
  /\ Inside \in [Root -> SUBSET Doc]
  /\ Key \in [Root -> [Doc -> Name]]
  /\ Answers \subseteq Place \cup {Nil}
  /\ Main \notin Fetcher \cup Lint
  /\ Fetcher \cap Lint = {}
  /\ Nil \notin Doc \cup Text \cup Place

(* One root gives two documents below it two names.                        *)
ASSUME KeyAssumption ==
  \A r \in Root : \A d \in Inside[r], e \in Doc : Key[r][d] = Key[r][e] => d = e

VARIABLES
  doc,      \* the documents in the store
  disk,     \* the files
  found,    \* the version of each configuration file
  override, \* settings.ConfigPath
  config,   \* the configuration in force, and where it comes from
  reported, \* the path OnConfigReload was last called with
  session,  \* the published session
  job,      \* where each goroutine stands
  crossed,  \* history: the last rebuild to end ran while another one did
  torn      \* history: documents whose last handler overlapped a rebuild, and
            \* that no rebuild and no handler has set right since

lspVars == <<doc, disk, found, override, config, reported, session, job, crossed, torn>>

DocRec == [open : BOOLEAN, text : Text \cup {Nil}, dirty : BOOLEAN]

NotOpen == [open |-> FALSE, text |-> Nil, dirty |-> FALSE]

SessRec == [config : Config, root : Root, overlay : [Name -> Text \cup {Nil}]]

ASSUME NilAssumption == Nil \notin SessRec

JobRec ==
  [pc : {"idle", "session", "lookup", "root", "sync", "waiting", "override",
         "resolve", "store", "build", "seed", "notify", "again"},
   doc : Doc \cup {Nil},        \* the document being handled
   text : Text \cup {Nil},      \* its text, or Nil to drop it
   held : BOOLEAN,               \* the session handed out is the published one
   new : SessRec \cup {Nil},    \* the session being built
   root : Root \cup {Nil},
   over : Place \cup {Nil},
   config : Config,              \* the configuration resolved
   changed : BOOLEAN,            \* its path differs from the one before
   lazy : BOOLEAN,               \* called from currentSession
   todo : SUBSET Doc,            \* open documents left to seed
   alone : BOOLEAN,              \* history: no other rebuild since it began
   met : SUBSET Doc]             \* history: handlers it overlapped

NoConfig == [place |-> Nil, ver |-> 0]

Idle == [pc |-> "idle", doc |-> Nil, text |-> Nil, held |-> FALSE, new |-> Nil,
         root |-> Nil,
         over |-> Nil, config |-> NoConfig, changed |-> FALSE, lazy |-> FALSE,
         todo |-> {}, alone |-> FALSE, met |-> {}]

Empty == [n \in Name |-> Nil]

(* initialize has been answered.                                           *)
LspInit ==
  /\ doc = [d \in Doc |-> NotOpen]
  /\ disk \in [Doc -> Text]
  /\ found \in [Place -> UNION {Written[p] : p \in Place}]
  /\ \A p \in Place : found[p] \in Written[p]
  /\ override = Nil
  /\ config = NoConfig
  /\ reported = Nil
  /\ session = Nil
  /\ job = [t \in Thread |-> Idle]
  /\ crossed = FALSE
  /\ torn = {}

-----------------------------------------------------------------------------
(* Rebuilds.                                                               *)

Rebuilding(t) ==
  job[t].pc \in {"resolve", "store", "lookup", "build", "seed", "notify"}

NoRebuild == \A t \in Thread : ~Rebuilding(t)

(* A rebuild begins on t: those under way are no longer alone.             *)
Begins(t, first) ==
  [u \in Thread |->
    IF u = t
    THEN [first EXCEPT !.alone = NoRebuild,
            !.met = IF job[Main].doc = Nil \/ t = Main THEN {} ELSE {job[Main].doc}]
    ELSE [job[u] EXCEPT !.alone = FALSE]]

(* A rebuild ends: what it met decides what can be wrong from now on.      *)
Ends(t) ==
  /\ crossed' = ~job[t].alone
  /\ torn' = job[t].met

At(t, pc) == job[t].pc = pc

Step(t, next) == job' = [job EXCEPT ![t] = next]

(* reloadConfig, on whatever goroutine, first reads the setting.           *)
BeginReload(t) == job' = Begins(t, [Idle EXCEPT !.pc = "resolve", !.over = override])

(* resolveConfig.                                                          *)
Resolve(t) ==
  LET p == IF job[t].over # Nil THEN job[t].over ELSE Home IN
  /\ At(t, "resolve")
  /\ Step(t, [job[t] EXCEPT !.pc = "store", !.over = Nil,
       !.config = IF found[p] = 0 THEN NoConfig ELSE [place |-> p, ver |-> found[p]]])
  /\ UNCHANGED <<doc, disk, found, override, config, reported, session, crossed, torn>>

Store(t) ==
  /\ At(t, "store")
  /\ config' = job[t].config
  /\ Step(t, [job[t] EXCEPT !.pc = "build",
                !.changed = config.place # job[t].config.place])
  /\ UNCHANGED <<doc, disk, found, override, reported, session, crossed, torn>>

OpenDocs == {d \in Doc : doc[d].open}

NewSession(t, r) == [config |-> job[t].config, root |-> r, overlay |-> Empty]

(* Mutant: the session is rooted at the workspace folder.                  *)
Build_AtHome(t) ==
  /\ At(t, "build")
  /\ Step(t, [job[t] EXCEPT !.pc = "seed", !.todo = OpenDocs,
                           !.new = NewSession(t, RootOf[Nil])])
  /\ UNCHANGED <<doc, disk, found, override, config, reported, session, crossed, torn>>

(* rebuildSession: a new session over an empty overlay, and the list of    *)
(* the open documents.                                                     *)
Build(t) ==
  /\ At(t, "build")
  /\ Step(t, [job[t] EXCEPT !.pc = "seed", !.todo = OpenDocs,
                           !.new = NewSession(t, RootOf[job[t].config.place])])
  /\ UNCHANGED <<doc, disk, found, override, config, reported, session, crossed, torn>>

(* Mutant: the overlay is seeded under the names of the workspace folder.  *)
Seed_AtHome(t, d) ==
  LET n == Key[RootOf[Nil]][d] IN
  /\ At(t, "seed")
  /\ d \in job[t].todo
  /\ Step(t, [job[t] EXCEPT !.todo = @ \ {d},
       !.new.overlay[n] = IF doc[d].open THEN doc[d].text ELSE @])
  /\ UNCHANGED <<doc, disk, found, override, config, reported, session, crossed, torn>>

Seed(t, d) ==
  LET n == Key[job[t].new.root][d] IN
  /\ At(t, "seed")
  /\ d \in job[t].todo
  /\ Step(t, [job[t] EXCEPT !.todo = @ \ {d},
       !.new.overlay[n] = IF doc[d].open THEN doc[d].text ELSE @])
  /\ UNCHANGED <<doc, disk, found, override, config, reported, session, crossed, torn>>

(* What t does when its session is published.  On the handler goroutine,   *)
(* currentSession looks for it again.                                      *)
Published(t) ==
  CASE job[t].changed -> [job[t] EXCEPT !.pc = "notify", !.new = Nil]
    [] job[t].lazy /\ t = Main ->
         [Idle EXCEPT !.pc = "again", !.doc = job[t].doc, !.text = job[t].text]
    [] OTHER -> Idle

(* A session handed out before is superseded.                              *)
Publish(t) ==
  /\ At(t, "seed")
  /\ job[t].todo = {}
  /\ session' = job[t].new
  /\ job' = [u \in Thread |->
       IF u = t THEN Published(t) ELSE [job[u] EXCEPT !.held = FALSE]]
  /\ IF job[t].changed THEN UNCHANGED <<crossed, torn>> ELSE Ends(t)
  /\ UNCHANGED <<doc, disk, found, override, config, reported>>

(* OnConfigReload, when the path has changed.                              *)
Notify(t) ==
  /\ At(t, "notify")
  /\ reported' = job[t].config.place
  /\ Ends(t)
  /\ Step(t, Idle)
  /\ UNCHANGED <<doc, disk, found, override, config, session>>

-----------------------------------------------------------------------------
(* currentSession: the published session, or one built on demand.          *)

FindSession(t) ==
  /\ At(t, "session")
  /\ job' = IF session # Nil
            THEN [job EXCEPT ![t] = IF t = Main
                    THEN [job[t] EXCEPT !.pc = "root", !.held = TRUE] ELSE Idle]
            ELSE Begins(t, [job[t] EXCEPT !.pc = "lookup", !.lazy = TRUE])
  /\ UNCHANGED <<doc, disk, found, override, config, reported, session, crossed, torn>>

(* snapshotConfig.                                                         *)
Lookup(t) ==
  /\ At(t, "lookup")
  /\ Step(t, [job[t] EXCEPT !.pc = "build", !.config = config])
  /\ UNCHANGED <<doc, disk, found, override, config, reported, session, crossed, torn>>

FindAgain ==
  /\ At(Main, "again")
  /\ Step(Main, [job[Main] EXCEPT !.pc = "root", !.held = TRUE])
  /\ UNCHANGED <<doc, disk, found, override, config, reported, session, crossed, torn>>

(* A lint that finds a session goes its way, which is LspDiagnostics'.     *)
LintBegins(l) ==
  /\ At(l, "idle")
  /\ OpenDocs # {}
  /\ session = Nil
  /\ Step(l, [Idle EXCEPT !.pc = "session"])
  /\ UNCHANGED <<doc, disk, found, override, config, reported, session, crossed, torn>>

-----------------------------------------------------------------------------
(* The document handlers, on the handler goroutine: the store, and then    *)
(* syncBuffer or dropPath.                                                 *)

(* The handler of d begins, to overlay d with text or to drop its overlay. *)
Handle(d, text) ==
  /\ At(Main, "idle")
  /\ job' = [u \in Thread |->
       IF u = Main THEN [Idle EXCEPT !.pc = "session", !.doc = d, !.text = text]
       ELSE IF Rebuilding(u) THEN [job[u] EXCEPT !.met = @ \cup {d}] ELSE job[u]]
  /\ torn' = IF NoRebuild THEN torn \ {d} ELSE torn

DidOpen(d) ==
  /\ ~doc[d].open
  /\ \E v \in Text : /\ doc' = [doc EXCEPT ![d] = [open |-> TRUE, text |-> v, dirty |-> TRUE]]
                     /\ Handle(d, v)
  /\ UNCHANGED <<disk, found, override, config, reported, session, crossed>>

DidChange(d) ==
  /\ doc[d].open
  /\ \E v \in Text \ {doc[d].text} :
       /\ doc' = [doc EXCEPT ![d] = [open |-> TRUE, text |-> v, dirty |-> TRUE]]
       /\ Handle(d, v)
  /\ UNCHANGED <<disk, found, override, config, reported, session, crossed>>

(* The client has written the buffer to the file.                          *)
DidSave(d) ==
  /\ doc[d].open
  /\ disk' = [disk EXCEPT ![d] = doc[d].text]
  /\ doc' = [doc EXCEPT ![d].dirty = FALSE]
  /\ Handle(d, Nil)
  /\ UNCHANGED <<found, override, config, reported, session, crossed>>

DidClose(d) ==
  /\ doc[d].open
  /\ doc' = [doc EXCEPT ![d] = NotOpen]
  /\ Handle(d, Nil)
  /\ UNCHANGED <<disk, found, override, config, reported, session, crossed>>

(* didChangeWatchedFiles leaves the open documents alone.                  *)
DidChangeWatched(d) ==
  /\ ~doc[d].open
  /\ Handle(d, Nil)
  /\ UNCHANGED <<doc, disk, found, override, config, reported, session, crossed>>

(* Mutant: the configuration file itself, not the folder it is in.         *)
ReadRoot_NoDir ==
  /\ At(Main, "root")
  /\ Step(Main, [job[Main] EXCEPT !.pc = "sync",
       !.root = IF config.place = Nil THEN RootOf[Nil] ELSE config.place])
  /\ UNCHANGED <<doc, disk, found, override, config, reported, session, crossed, torn>>

(* snapshotConfig: the key is made with the root of the configuration in   *)
(* force.                                                                  *)
ReadRoot ==
  /\ At(Main, "root")
  /\ Step(Main, [job[Main] EXCEPT !.pc = "sync", !.root = RootOf[config.place]])
  /\ UNCHANGED <<doc, disk, found, override, config, reported, session, crossed, torn>>

(* Mutant: dropPath leaves the overlay.                                    *)
Sync_NeverDrops ==
  LET me == job[Main] IN
  /\ At(Main, "sync")
  /\ session' = IF me.held /\ me.text # Nil
                THEN [session EXCEPT !.overlay[Key[me.root][me.doc]] = me.text]
                ELSE session
  /\ Step(Main, Idle)
  /\ UNCHANGED <<doc, disk, found, override, config, reported, crossed, torn>>

(* Session.Invalidate reaches the overlay of the session handed out.       *)
Sync ==
  LET me == job[Main] IN
  /\ At(Main, "sync")
  /\ session' = IF me.held
                THEN [session EXCEPT !.overlay[Key[me.root][me.doc]] = me.text]
                ELSE session
  /\ Step(Main, Idle)
  /\ UNCHANGED <<doc, disk, found, override, config, reported, crossed, torn>>

-----------------------------------------------------------------------------
(* The configuration.                                                      *)

(* handleInitialized, and didChangeWatchedFiles for a .mdsmith.yml.        *)
Reload ==
  /\ At(Main, "idle")
  /\ BeginReload(Main)
  /\ UNCHANGED <<doc, disk, found, override, config, reported, session, crossed, torn>>

DidChangeConfiguration(f) ==
  /\ At(Main, "idle")
  /\ At(f, "idle")
  /\ Step(f, [Idle EXCEPT !.pc = "waiting"])
  /\ UNCHANGED <<doc, disk, found, override, config, reported, session, crossed, torn>>

(* fetchClientSettings: no answer within the time, an error, or an answer  *)
(* that says something of mdsmith.config or nothing, and then a reload.    *)
FetchGiveUp(f) ==
  /\ At(f, "waiting")
  /\ Step(f, Idle)
  /\ UNCHANGED <<doc, disk, found, override, config, reported, session, crossed, torn>>

FetchApply(f) ==
  /\ At(f, "waiting")
  /\ override' \in Answers \cup {override}
  /\ Step(f, [Idle EXCEPT !.pc = "override"])
  /\ UNCHANGED <<doc, disk, found, config, reported, session, crossed, torn>>

FetchReload(f) ==
  /\ At(f, "override")
  /\ BeginReload(f)
  /\ UNCHANGED <<doc, disk, found, override, config, reported, session, crossed, torn>>

-----------------------------------------------------------------------------
(* Other programs write the files.                                         *)

EditFile(d) ==
  /\ \E v \in Text \ {disk[d]} : disk' = [disk EXCEPT ![d] = v]
  /\ UNCHANGED <<doc, found, override, config, reported, session, job, crossed, torn>>

EditConfig(p) ==
  /\ \E v \in Written[p] \ {found[p]} : found' = [found EXCEPT ![p] = v]
  /\ UNCHANGED <<doc, disk, override, config, reported, session, job, crossed, torn>>

-----------------------------------------------------------------------------
Rebuild(t) ==
  \/ Resolve(t) \/ Store(t) \/ Build(t)
  \/ \E d \in Doc : Seed(t, d)
  \/ Publish(t) \/ Notify(t)
  \/ FindSession(t) \/ Lookup(t)

Handler ==
  \/ \E d \in Doc : \/ DidOpen(d) \/ DidChange(d) \/ DidSave(d) \/ DidClose(d)
                    \/ DidChangeWatched(d)
  \/ FindAgain \/ ReadRoot \/ Sync \/ Reload

LspNext ==
  \/ Handler
  \/ \E t \in Thread : Rebuild(t)
  \/ \E l \in Lint : LintBegins(l)
  \/ \E f \in Fetcher : \/ DidChangeConfiguration(f) \/ FetchGiveUp(f)
                        \/ FetchApply(f) \/ FetchReload(f)
  \/ \E d \in Doc : EditFile(d)
  \/ \E p \in Place : EditConfig(p)

LspSpec == LspInit /\ [][LspNext]_lspVars

-----------------------------------------------------------------------------
(* The variables hold what their declarations say.                         *)
LspTypeOK ==
  /\ doc \in [Doc -> DocRec]
  /\ disk \in [Doc -> Text]
  /\ \A p \in Place : found[p] \in Written[p]
  /\ override \in Place \cup {Nil}
  /\ config \in Config
  /\ reported \in Place \cup {Nil}
  /\ session \in SessRec \cup {Nil}
  /\ job \in [Thread -> JobRec]
  /\ crossed \in BOOLEAN
  /\ torn \subseteq Doc

Matched ==
  session # Nil =>
    /\ session.config = config
    /\ session.root = RootOf[config.place]

(* The published session is compiled from the configuration in force and   *)
(* rooted where that one is, whatever reloads, settings answers and        *)
(* sessions built on demand came before, unless the last rebuild to end    *)
(* ran while another one did: one that runs alone repairs what they left.  *)
OnlyCrossedDiffer == NoRebuild /\ ~crossed => Matched

Handled == {job[Main].doc}

Overlay(d) == session.overlay[Key[session.root][d]]

(* A changed document is read from its buffer, a closed one from its file. *)
BufferIsRead(d) ==
  /\ doc[d].open => Overlay(d) = doc[d].text \/ (~doc[d].dirty /\ Overlay(d) = Nil)
  /\ ~doc[d].open => Overlay(d) = Nil

(* Cross-file rules read every document below the root from where its      *)
(* newest text is, through moves of the root, reloads in the middle of     *)
(* edits, saves, closes and reopenings, unless its last handler overlapped *)
(* a rebuild and nothing has set it right since.                           *)
OnlyTornMislead ==
  NoRebuild /\ ~crossed /\ session # Nil =>
    \A d \in Inside[session.root] \ (torn \cup Handled) : BufferIsRead(d)

(* What the comments promise and a race, or a save, breaks.                *)

(* OnConfigReload is "used by cmd/mdsmith to keep the include-extract      *)
(* projector pointing at the active config".                               *)
HostFollows == NoRebuild => reported = config.place

(* The same when only the last rebuild ran alone: it does not repair this. *)
HostRecovers == NoRebuild /\ ~crossed => reported = config.place

(* "so any reload (config or settings change) needs a new one": reloads    *)
(* that are over leave the session of the configuration in force.          *)
SessionFollows == NoRebuild => Matched

(* "Seed the overlay with every open buffer before publishing the new      *)
(* session, so the first cross-file Check after a reload already sees      *)
(* unsaved bytes."                                                         *)
ReloadSeesBuffers ==
  NoRebuild /\ ~crossed /\ session # Nil =>
    \A d \in Inside[session.root] \ Handled : BufferIsRead(d)

(* An open buffer is "authoritative", and "an external on-disk edit does   *)
(* not change what we lint": the bytes cross-file rules read of it.        *)
BufferIsAuthoritative ==
  NoRebuild /\ ~crossed /\ session # Nil =>
    \A d \in Inside[session.root] \ (torn \cup Handled) :
      doc[d].open => doc[d].text = IF Overlay(d) # Nil THEN Overlay(d) ELSE disk[d]
=============================================================================
