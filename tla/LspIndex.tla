------------------------------ MODULE LspIndex ------------------------------
(***************************************************************************)
(* The symbol index of the language server.  The first symbol request       *)
(* builds it from the files on disk and lays the open buffers over them;    *)
(* document and watched-file notifications then keep it current one file at *)
(* a time, and a changed configuration file drops it.                       *)
(*                                                                         *)
(* The dispatch goroutine handles one message at a time, but the disk       *)
(* changes while it builds, and a settings reload, which runs on a          *)
(* goroutine of its own, changes the configuration under it.  Settings      *)
(* reloads come one at a time: module LspSession has them overlap.         *)
(***************************************************************************)
EXTENDS Naturals, FiniteSets

CONSTANTS
  Path,      \* Markdown files
  Text,      \* texts that are not empty
  Empty,     \* the empty text, and that of a file that is not there
  Place,     \* where a configuration file may be
  Home,      \* the place that discovery finds
  Version,   \* contents of a configuration file
  Root,      \* directories
  RootOf,    \* the project root that the place of the configuration gives
  Name,      \* names the index keys files by
  Rel,       \* the name of a file relative to a root
  Under,     \* the files under a root
  Ignores,   \* the files that a version's ignore list matches
  KindsOf,   \* the kinds that a version gives a file
  MaxEvents, \* how often the user or another program acts (a bound)
  None       \* no place, no version, not open, no index

ASSUME ConstantsAssumption ==
  /\ Empty \notin Text
  /\ Home \in Place
  /\ RootOf \in [Place \cup {None} -> Root]
  /\ Rel \in [Root -> [Path -> Name]]
  /\ \A r \in Root : \A p, q \in Path : Rel[r][p] = Rel[r][q] => p = q
  /\ Under \in [Root -> SUBSET Path]
  /\ Ignores \in [Version \cup {None} -> SUBSET Path]
  /\ DOMAIN KindsOf = Version \cup {None}
  /\ \A v \in DOMAIN KindsOf : DOMAIN KindsOf[v] = Path
  /\ MaxEvents \in Nat
  /\ None \notin Text \cup {Empty} \cup Place \cup Version

VARIABLES
  disk,      \* the text of each file
  confDisk,  \* the version of each configuration file
  wish,      \* mdsmith.config as the client has it
  docs,      \* the text of each open buffer
  changed,   \* watched files whose change the server has not been told of
  events,    \* how often the user or another program acted
  config,    \* the configuration in force
  override,  \* s.settings.ConfigPath
  settings,  \* what the settings reload resolved and has not stored
  main,      \* the dispatch goroutine
  idx,       \* s.idx
  switched   \* whether a settings reload changed the configuration of the index

vars == <<disk, confDisk, wish, docs, changed, events, config, override,
          settings, main, idx, switched>>

Config == [place : Place \cup {None}, version : Version \cup {None}]

Kinds == UNION {{KindsOf[v][p] : p \in Path} : v \in Version \cup {None}}

Entry == [text : Text, kinds : Kinds]

Index == [Name -> Entry \cup {None}]

Idle == [pc |-> "idle"]

(* Discovery looks at the home place, an override at its own; what cannot   *)
(* be loaded gives the defaults.                                           *)
resolveConfig(over) ==
  LET place == IF over = None THEN Home ELSE over
  IN  IF confDisk[place] = None
        THEN [place |-> None, version |-> None]
        ELSE [place |-> place, version |-> confDisk[place]]

RootUnder(cfg) == RootOf[cfg.place]

(* Mutant: an empty text makes an entry.                                   *)
UpdateWithKinds_Always(index, cfg, p, t) ==
  [index EXCEPT ![Rel[RootUnder(cfg)][p]] =
     [text |-> t, kinds |-> KindsOf[cfg.version][p]]]

(* The index with a file's text put in: an empty one removes the entry.     *)
UpdateWithKinds(index, cfg, p, t) ==
  [index EXCEPT ![Rel[RootUnder(cfg)][p]] =
     IF t = Empty THEN None ELSE [text |-> t, kinds |-> KindsOf[cfg.version][p]]]

OpenPaths == {p \in Path : docs[p] # None}

Init ==
  /\ disk \in [Path -> Text \cup {Empty}]
  /\ confDisk \in [Place -> Version \cup {None}]
  /\ wish = None
  /\ docs = [p \in Path |-> None]
  /\ changed = {}
  /\ events = 0
  /\ config = resolveConfig(None)
  /\ override = None
  /\ settings = None
  /\ main = Idle
  /\ idx = None
  /\ switched = FALSE

-----------------------------------------------------------------------------
(* The world: other programs, and the user's settings.                     *)

Act == events < MaxEvents /\ events' = events + 1

WriteFile(p, t) ==
  /\ Act
  /\ disk[p] # t
  /\ disk' = [disk EXCEPT ![p] = t]
  /\ changed' = changed \cup {p}
  /\ UNCHANGED <<confDisk, wish, docs, config, override, settings, main, idx, switched>>

WriteConfig(c, v) ==
  /\ Act
  /\ confDisk[c] # v
  /\ confDisk' = [confDisk EXCEPT ![c] = v]
  /\ changed' = changed \cup {c}
  /\ UNCHANGED <<disk, wish, docs, config, override, settings, main, idx, switched>>

SetOverride(o) ==
  /\ Act
  /\ wish # o
  /\ wish' = o
  /\ UNCHANGED <<disk, confDisk, docs, changed, config, override, settings, main,
                 idx, switched>>

-----------------------------------------------------------------------------
(* fetchClientSettings: take the client's value and resolve, then store.    *)
(* Nothing is done about the index.                                        *)

ResolveSettings ==
  /\ settings = None
  /\ wish # override
  /\ override' = wish
  /\ settings' = resolveConfig(wish)
  /\ UNCHANGED <<disk, confDisk, wish, docs, changed, events, config, main, idx,
                 switched>>

StoreSettings ==
  /\ settings # None
  /\ config' = settings
  /\ settings' = None
  /\ switched' = (switched \/ (config # settings /\ (idx # None \/ main.pc = "build")))
  /\ UNCHANGED <<disk, confDisk, wish, docs, changed, events, override, main, idx>>

-----------------------------------------------------------------------------
(* The dispatch goroutine.                                                 *)

indexUpdate(p, t) ==
  idx' = IF idx = None THEN None ELSE UpdateWithKinds(idx, config, p, t)

(* The text of the file; outside the root it is not read, and the entry is  *)
(* removed.                                                                *)
OnDisk(cfg, p) == IF p \in Under[RootUnder(cfg)] THEN disk[p] ELSE Empty

indexReloadFromDisk(index, p) ==
  IF index = None THEN None
  ELSE UpdateWithKinds(index, config, p, OnDisk(config, p))

handleDidOpen(p, t) ==
  /\ main = Idle /\ Act
  /\ docs[p] = None
  /\ docs' = [docs EXCEPT ![p] = t]
  /\ indexUpdate(p, t)
  /\ UNCHANGED <<disk, confDisk, wish, changed, config, override, settings, main,
                 switched>>

handleDidChange(p, t) ==
  /\ main = Idle /\ Act
  /\ docs[p] \notin {None, t}
  /\ docs' = [docs EXCEPT ![p] = t]
  /\ indexUpdate(p, t)
  /\ UNCHANGED <<disk, confDisk, wish, changed, config, override, settings, main,
                 switched>>

(* The user saves: the file changes, and didSave leaves the index alone.    *)
handleDidSave(p) ==
  /\ main = Idle /\ Act
  /\ docs[p] \notin {None, disk[p]}
  /\ disk' = [disk EXCEPT ![p] = docs[p]]
  /\ changed' = changed \cup {p}
  /\ UNCHANGED <<confDisk, wish, docs, config, override, settings, main, idx, switched>>

(* Mutant: the buffer's last text stays in the index.                      *)
handleDidClose_NoReload(p) ==
  /\ main = Idle /\ Act
  /\ docs[p] # None
  /\ docs' = [docs EXCEPT ![p] = None]
  /\ UNCHANGED <<disk, confDisk, wish, changed, config, override, settings, main,
                 idx, switched>>

handleDidClose(p) ==
  /\ main = Idle /\ Act
  /\ docs[p] # None
  /\ docs' = [docs EXCEPT ![p] = None]
  /\ idx' = indexReloadFromDisk(idx, p)
  /\ UNCHANGED <<disk, confDisk, wish, changed, config, override, settings, main,
                 switched>>

(* The index with the files of a batch read again.                         *)
Reloaded(files) ==
  [n \in Name |->
     LET hit == {p \in files : Rel[RootUnder(config)][p] = n}
     IN  IF hit = {} THEN idx[n]
         ELSE indexReloadFromDisk(idx, CHOOSE p \in hit : TRUE)[n]]

(* Mutant: those that are open are read again too.                         *)
Watched_OpenToo(batch) == Reloaded(batch)

Watched(batch) == Reloaded(batch \ OpenPaths)

(* A batch of file changes without a configuration file.                    *)
handleWatchedFiles(batch) ==
  /\ main = Idle
  /\ batch # {} /\ batch \subseteq changed \cap Path
  /\ changed' = changed \ batch
  /\ idx' = IF idx = None THEN None ELSE Watched(batch)
  /\ UNCHANGED <<disk, confDisk, wish, docs, events, config, override, settings,
                 main, switched>>

(* One with a configuration file: the rest of the batch is not looked at.   *)
handleWatchedConfig(batch) ==
  /\ main = Idle
  /\ batch \subseteq changed /\ batch \cap Place # {}
  /\ changed' = changed \ batch
  /\ main' = [pc |-> "reload", found |-> resolveConfig(override)]
  /\ UNCHANGED <<disk, confDisk, wish, docs, events, config, override, settings,
                 idx, switched>>

(* reloadConfig stores, invalidateIndex drops the index.                   *)
StoreConfig ==
  /\ main.pc = "reload"
  /\ config' = main.found
  /\ idx' = None
  /\ switched' = FALSE
  /\ main' = Idle
  /\ UNCHANGED <<disk, confDisk, wish, docs, changed, events, override, settings>>

filterIgnored(cfg, files) == files \ Ignores[cfg.version]

(* A symbol request that finds no index: ensureIndex takes a snapshot of    *)
(* the configuration and discovers the files that are there.               *)
ensureIndex ==
  /\ main = Idle
  /\ idx = None
  /\ main' = [pc |-> "build", cfg |-> config, built |-> [n \in Name |-> None],
              todo |-> {p \in filterIgnored(config, Under[RootUnder(config)]) :
                          disk[p] # Empty}]
  /\ switched' = FALSE
  /\ UNCHANGED <<disk, confDisk, wish, docs, changed, events, config, override,
                 settings, idx>>

buildIndexFromDisk(p) ==
  /\ main.pc = "build"
  /\ p \in main.todo
  /\ main' = [main EXCEPT !.todo = @ \ {p},
                          !.built = UpdateWithKinds(@, main.cfg, p, disk[p])]
  /\ UNCHANGED <<disk, confDisk, wish, docs, changed, events, config, override,
                 settings, idx, switched>>

(* Open buffers are layered in, ignored or not.                            *)
Layered(index, cfg) ==
  [n \in Name |->
     LET hit == {p \in OpenPaths : Rel[RootUnder(cfg)][p] = n}
     IN  IF hit = {} THEN index[n]
         ELSE LET p == CHOOSE p \in hit : TRUE
              IN  UpdateWithKinds(index, cfg, p, docs[p])[n]]

publishIndex ==
  /\ main.pc = "build"
  /\ main.todo = {}
  /\ idx' = Layered(main.built, main.cfg)
  /\ main' = Idle
  /\ UNCHANGED <<disk, confDisk, wish, docs, changed, events, config, override,
                 settings, switched>>

Dispatch ==
  \/ \E batch \in SUBSET changed :
       handleWatchedFiles(batch) \/ handleWatchedConfig(batch)
  \/ StoreConfig
  \/ ensureIndex
  \/ \E p \in Path : buildIndexFromDisk(p)
  \/ publishIndex

User ==
  \/ \E p \in Path, t \in Text \cup {Empty} :
       WriteFile(p, t) \/ handleDidOpen(p, t) \/ handleDidChange(p, t)
  \/ \E p \in Path : handleDidSave(p) \/ handleDidClose(p)
  \/ \E c \in Place, v \in Version \cup {None} : WriteConfig(c, v)
  \/ \E o \in Place \cup {None} : SetOverride(o)

Next == ResolveSettings \/ StoreSettings \/ Dispatch \/ User

Spec == Init /\ [][Next]_vars

-----------------------------------------------------------------------------
(* Properties.                                                             *)

Main ==
  {Idle}
  \cup [pc : {"reload"}, found : Config]
  \cup [pc : {"build"}, cfg : Config, built : Index, todo : SUBSET Path]

TypeOK ==
  /\ disk \in [Path -> Text \cup {Empty}]
  /\ confDisk \in [Place -> Version \cup {None}]
  /\ wish \in Place \cup {None}
  /\ docs \in [Path -> Text \cup {Empty, None}]
  /\ changed \subseteq Path \cup Place
  /\ events \in 0..MaxEvents
  /\ config \in Config
  /\ override \in Place \cup {None}
  /\ settings \in Config \cup {None}
  /\ main \in Main
  /\ idx \in Index \cup {None}
  /\ switched \in BOOLEAN

Answers == idx # None /\ main = Idle

EntryFor(p, t) ==
  IF t = Empty THEN None ELSE [text |-> t, kinds |-> KindsOf[config.version][p]]

(* The entries that open documents, or files on disk, should have.         *)
Live == {<<Rel[RootUnder(config)][p], EntryFor(p, docs[p])>> : p \in OpenPaths}

Saved(files) ==
  {<<Rel[RootUnder(config)][p], EntryFor(p, OnDisk(config, p))>> :
     p \in files \ OpenPaths}

Entries == {<<n, idx[n]>> : n \in Name}

(* Whatever is still to come from the watcher, the index answers for an     *)
(* open document with the text the editor shows, under the name and with    *)
(* the kinds of the configuration in force: a build that overlaps a save, a *)
(* change of the file on disk, a batch that names it never win over the     *)
(* buffer.                                                                 *)
BuffersAreLive == Answers /\ ~switched => Live \subseteq Entries

(* Once the server has been told of every change, the index is what a       *)
(* build from nothing would make, except that a closed file that the        *)
(* configuration ignores may be in it; and that one is up to date.          *)
OnlyIgnoredLinger ==
  Answers /\ ~switched /\ changed = {} =>
    LET ignored == Ignores[config.version]
        full == Live \cup Saved(Path \ ignored)
    IN  /\ full \subseteq Entries
        /\ \A e \in Entries \ full : e[2] = None \/ e \in Saved(ignored)

(* "Ignored trees stay out of document outlines and symbol search": the     *)
(* index is what a build from nothing would make.                          *)
IgnoredStayOut ==
  Answers /\ ~switched /\ changed = {} =>
    \A e \in Entries : e[2] = None \/ e \in Live \cup Saved(Path \ Ignores[config.version])

(* "Callers rebuild the whole index when the configuration changes": the    *)
(* entries of open documents follow the configuration in force.            *)
FollowsConfig == Answers /\ changed = {} => Live \subseteq Entries

=============================================================================
