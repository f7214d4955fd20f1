--------------------------- MODULE LspIndex_proofs ---------------------------
(***************************************************************************)
(* What LspIndex keeps true for any files, texts, configurations, roots     *)
(* and numbers of events: its types, that open buffers win, and that the    *)
(* index is what a build would make, but for ignored files.                 *)
(***************************************************************************)
EXTENDS LspIndex, TLAPS

-----------------------------------------------------------------------------
(* Names and entries.                                                      *)

NameUnder(cfg, p) == Rel[RootUnder(cfg)][p]

EntryUnder(cfg, p, t) ==
  IF t = Empty THEN None ELSE [text |-> t, kinds |-> KindsOf[cfg.version][p]]

LEMMA NamesAndEntries ==
  ASSUME NEW cfg \in Config, NEW p \in Path
  PROVE  /\ RootUnder(cfg) \in Root
         /\ NameUnder(cfg, p) \in Name
         /\ \A q \in Path : NameUnder(cfg, q) = NameUnder(cfg, p) => q = p
         /\ \A t \in Text \cup {Empty} : EntryUnder(cfg, p, t) \in Entry \cup {None}
<1>1. RootUnder(cfg) \in Root
  BY ConstantsAssumption DEF RootUnder, Config
<1>2. NameUnder(cfg, p) \in Name
  BY <1>1, ConstantsAssumption DEF NameUnder
<1>3. \A q \in Path : NameUnder(cfg, q) = NameUnder(cfg, p) => q = p
  BY <1>1, ConstantsAssumption DEF NameUnder
<1>4. KindsOf[cfg.version][p] \in Kinds
  BY DEF Kinds, Config
<1>5. \A t \in Text \cup {Empty} : EntryUnder(cfg, p, t) \in Entry \cup {None}
  BY <1>4 DEF EntryUnder, Entry
<1> QED BY <1>1, <1>2, <1>3, <1>5

LEMMA Updates ==
  ASSUME NEW index \in Index, NEW cfg \in Config, NEW p \in Path,
         NEW t \in Text \cup {Empty}
  PROVE  /\ UpdateWithKinds(index, cfg, p, t) \in Index
         /\ UpdateWithKinds(index, cfg, p, t)[NameUnder(cfg, p)] = EntryUnder(cfg, p, t)
         /\ \A n \in Name : n # NameUnder(cfg, p) =>
              UpdateWithKinds(index, cfg, p, t)[n] = index[n]
<1>1. UpdateWithKinds(index, cfg, p, t)
        = [index EXCEPT ![NameUnder(cfg, p)] = EntryUnder(cfg, p, t)]
  BY Zenon DEF UpdateWithKinds, NameUnder, EntryUnder
<1>2. NameUnder(cfg, p) \in Name /\ EntryUnder(cfg, p, t) \in Entry \cup {None}
  BY NamesAndEntries
<1> QED BY <1>1, <1>2 DEF Index

LEMMA DiskIsTyped ==
  ASSUME TypeOK, NEW cfg \in Config, NEW p \in Path
  PROVE  OnDisk(cfg, p) \in Text \cup {Empty}
BY DEF OnDisk, TypeOK

LEMMA ResolveIsTyped ==
  ASSUME TypeOK, NEW over \in Place \cup {None}
  PROVE  resolveConfig(over) \in Config
<1>1. Home \in Place
  BY ConstantsAssumption
<1> DEFINE place == IF over = None THEN Home ELSE over
<1>2. place \in Place
  BY <1>1
<1>3. confDisk[place] \in Version \cup {None}
  BY <1>2 DEF TypeOK
<1>4. resolveConfig(over) = IF confDisk[place] = None THEN [place |-> None, version |-> None]
                            ELSE [place |-> place, version |-> confDisk[place]]
  BY DEF resolveConfig
<1> HIDE DEF place
<1> QED BY <1>2, <1>3, <1>4 DEF Config

(* Reading files of a batch again, or laying the buffers over a build,      *)
(* changes their entries and no others: one name is that of one file.       *)
LEMMA ReloadsThose ==
  ASSUME TypeOK, idx # None, NEW files \in SUBSET Path
  PROVE  /\ Reloaded(files) \in Index
         /\ \A p \in files :
              Reloaded(files)[NameUnder(config, p)] = EntryUnder(config, p, OnDisk(config, p))
         /\ \A n \in Name : (\A p \in files : NameUnder(config, p) # n)
              => Reloaded(files)[n] = idx[n]
<1> DEFINE hit(n) == {p \in files : Rel[RootUnder(config)][p] = n}
           new(n) == IF hit(n) = {} THEN idx[n]
                     ELSE indexReloadFromDisk(idx, CHOOSE p \in hit(n) : TRUE)[n]
<1>1. config \in Config /\ idx \in Index
  BY DEF TypeOK
<1>2. Reloaded(files) = [n \in Name |-> new(n)]
  BY Zenon DEF Reloaded
<1>3. ASSUME NEW p \in files
      PROVE  /\ NameUnder(config, p) \in Name
             /\ new(NameUnder(config, p)) = EntryUnder(config, p, OnDisk(config, p))
             /\ EntryUnder(config, p, OnDisk(config, p)) \in Entry \cup {None}
  <2>1. NameUnder(config, p) \in Name
    BY <1>1, NamesAndEntries
  <2>2. hit(NameUnder(config, p)) = {p}
    BY <1>1, NamesAndEntries DEF NameUnder
  <2>3. (CHOOSE q \in {p} : TRUE) = p
    OBVIOUS
  <2>4. OnDisk(config, p) \in Text \cup {Empty}
    BY <1>1, DiskIsTyped
  <2>5. indexReloadFromDisk(idx, p) = UpdateWithKinds(idx, config, p, OnDisk(config, p))
    BY DEF indexReloadFromDisk
  <2>6. indexReloadFromDisk(idx, p)[NameUnder(config, p)]
          = EntryUnder(config, p, OnDisk(config, p))
    BY <1>1, <2>4, <2>5, Updates
  <2>7. EntryUnder(config, p, OnDisk(config, p)) \in Entry \cup {None}
    BY <1>1, <2>4, NamesAndEntries
  <2>8. new(NameUnder(config, p)) = indexReloadFromDisk(idx, p)[NameUnder(config, p)]
    BY <2>2, <2>3
  <2> QED BY <2>1, <2>6, <2>7, <2>8
<1>4. ASSUME NEW n \in Name, \A p \in files : NameUnder(config, p) # n
      PROVE  new(n) = idx[n]
  <2>1. hit(n) = {}
    BY <1>4 DEF NameUnder
  <2> QED BY <2>1
<1>5. \A n \in Name : new(n) \in Entry \cup {None}
  <2> TAKE n \in Name
  <2>1. CASE \E p \in files : NameUnder(config, p) = n
    BY <1>3, <2>1
  <2>2. CASE \A p \in files : NameUnder(config, p) # n
    BY <1>1, <1>4, <2>2 DEF Index
  <2> QED BY <2>1, <2>2
<1> HIDE DEF new
<1> QED BY <1>2, <1>3, <1>4, <1>5 DEF Index

LEMMA LaysBuffers ==
  ASSUME TypeOK, NEW index \in Index, NEW cfg \in Config
  PROVE  /\ Layered(index, cfg) \in Index
         /\ \A p \in OpenPaths :
              Layered(index, cfg)[NameUnder(cfg, p)] = EntryUnder(cfg, p, docs[p])
         /\ \A n \in Name : (\A p \in OpenPaths : NameUnder(cfg, p) # n)
              => Layered(index, cfg)[n] = index[n]
<1> DEFINE hit(n) == {p \in OpenPaths : Rel[RootUnder(cfg)][p] = n}
           laid(p, n) == UpdateWithKinds(index, cfg, p, docs[p])[n]
           new(n) == IF hit(n) = {} THEN index[n] ELSE laid(CHOOSE p \in hit(n) : TRUE, n)
<1>1. OpenPaths \subseteq Path /\ \A p \in OpenPaths : docs[p] \in Text \cup {Empty}
  BY DEF OpenPaths, TypeOK
<1>2. Layered(index, cfg) = [n \in Name |-> new(n)]
  BY Zenon DEF Layered
<1>3. ASSUME NEW p \in OpenPaths
      PROVE  /\ NameUnder(cfg, p) \in Name
             /\ new(NameUnder(cfg, p)) = EntryUnder(cfg, p, docs[p])
             /\ EntryUnder(cfg, p, docs[p]) \in Entry \cup {None}
  <2>1. NameUnder(cfg, p) \in Name
    BY <1>1, NamesAndEntries
  <2>2. hit(NameUnder(cfg, p)) = {p}
    BY <1>1, NamesAndEntries DEF NameUnder
  <2>3. (CHOOSE q \in {p} : TRUE) = p
    OBVIOUS
  <2>4. laid(p, NameUnder(cfg, p)) = EntryUnder(cfg, p, docs[p])
    BY <1>1, Updates
  <2>5. EntryUnder(cfg, p, docs[p]) \in Entry \cup {None}
    BY <1>1, NamesAndEntries
  <2> HIDE DEF laid
  <2>6. new(NameUnder(cfg, p)) = laid(p, NameUnder(cfg, p))
    BY <2>2, <2>3
  <2> QED BY <2>1, <2>4, <2>5, <2>6
<1>4. ASSUME NEW n \in Name, \A p \in OpenPaths : NameUnder(cfg, p) # n
      PROVE  new(n) = index[n]
  <2>1. hit(n) = {}
    BY <1>4 DEF NameUnder
  <2> QED BY <2>1
<1>5. \A n \in Name : new(n) \in Entry \cup {None}
  <2> TAKE n \in Name
  <2>1. CASE \E p \in OpenPaths : NameUnder(cfg, p) = n
    BY <1>3, <2>1
  <2>2. CASE \A p \in OpenPaths : NameUnder(cfg, p) # n
    BY <1>4, <2>2 DEF Index
  <2> QED BY <2>1, <2>2
<1> HIDE DEF new
<1> QED BY <1>2, <1>3, <1>4, <1>5 DEF Index

-----------------------------------------------------------------------------
(* Types.                                                                  *)

LEMMA InitTyped == Init => TypeOK
<1> SUFFICES ASSUME Init PROVE TypeOK
  OBVIOUS
<1>1. config \in Config
  <2>1. confDisk \in [Place -> Version \cup {None}] /\ config = resolveConfig(None)
    BY DEF Init
  <2>2. Home \in Place
    BY ConstantsAssumption
  <2> QED BY <2>1, <2>2 DEF resolveConfig, Config
<1>2. events \in 0..MaxEvents /\ main \in Main
  BY ConstantsAssumption DEF Init, Main
<1> QED BY <1>1, <1>2 DEF Init, TypeOK

LEMMA UserTyped == TypeOK /\ User => TypeOK'
<1> SUFFICES ASSUME TypeOK, User PROVE TypeOK'
  OBVIOUS
<1>1. events < MaxEvents /\ events' = events + 1 => events' \in 0..MaxEvents
  BY ConstantsAssumption DEF TypeOK
<1>2. ASSUME NEW p \in Path, NEW t \in Text \cup {Empty}, WriteFile(p, t) PROVE TypeOK'
  BY <1>1, <1>2 DEF WriteFile, Act, TypeOK
<1>3. ASSUME NEW p \in Path, NEW t \in Text \cup {Empty},
             handleDidOpen(p, t) \/ handleDidChange(p, t)
      PROVE  TypeOK'
  <2>1. idx' \in Index \cup {None}
    <3>1. idx' = IF idx = None THEN None ELSE UpdateWithKinds(idx, config, p, t)
      BY <1>3 DEF handleDidOpen, handleDidChange, indexUpdate
    <3>2. idx # None => UpdateWithKinds(idx, config, p, t) \in Index
      BY Updates DEF TypeOK
    <3> QED BY <3>1, <3>2
  <2> QED BY <1>1, <1>3, <2>1 DEF handleDidOpen, handleDidChange, Act, TypeOK
<1>4. ASSUME NEW p \in Path, handleDidSave(p) PROVE TypeOK'
  BY <1>1, <1>4 DEF handleDidSave, Act, TypeOK
<1>5. ASSUME NEW p \in Path, handleDidClose(p) PROVE TypeOK'
  <2>1. idx' \in Index \cup {None}
    <3>1. OnDisk(config, p) \in Text \cup {Empty}
      BY DiskIsTyped DEF TypeOK
    <3>2. idx # None => UpdateWithKinds(idx, config, p, OnDisk(config, p)) \in Index
      BY <3>1, Updates DEF TypeOK
    <3>3. idx' = IF idx = None THEN None
                 ELSE UpdateWithKinds(idx, config, p, OnDisk(config, p))
      BY <1>5, Zenon DEF handleDidClose, indexReloadFromDisk
    <3> QED BY <3>2, <3>3
  <2> QED BY <1>1, <1>5, <2>1 DEF handleDidClose, Act, TypeOK
<1>6. ASSUME NEW c \in Place, NEW v \in Version \cup {None}, WriteConfig(c, v) PROVE TypeOK'
  BY <1>1, <1>6 DEF WriteConfig, Act, TypeOK
<1>7. ASSUME NEW o \in Place \cup {None}, SetOverride(o) PROVE TypeOK'
  BY <1>1, <1>7 DEF SetOverride, Act, TypeOK
<1> QED BY <1>2, <1>3, <1>4, <1>5, <1>6, <1>7 DEF User

LEMMA SettingsTyped == TypeOK /\ (ResolveSettings \/ StoreSettings) => TypeOK'
<1> SUFFICES ASSUME TypeOK, ResolveSettings \/ StoreSettings PROVE TypeOK'
  OBVIOUS
<1>1. CASE ResolveSettings
  <2>1. resolveConfig(wish) \in Config
    BY ResolveIsTyped DEF TypeOK
  <2> QED BY <1>1, <2>1 DEF ResolveSettings, TypeOK
<1>2. CASE StoreSettings
  BY <1>2 DEF StoreSettings, TypeOK
<1> QED BY <1>1, <1>2

LEMMA DispatchTyped == TypeOK /\ Dispatch => TypeOK'
<1> SUFFICES ASSUME TypeOK, Dispatch PROVE TypeOK'
  OBVIOUS
<1>1. ASSUME NEW batch \in SUBSET changed, handleWatchedFiles(batch) PROVE TypeOK'
  <2>1. batch \ OpenPaths \in SUBSET Path
    BY <1>1 DEF handleWatchedFiles
  <2>2. idx # None => Watched(batch) \in Index
    BY <2>1, ReloadsThose DEF Watched
  <2>3. idx' \in Index \cup {None}
    BY <1>1, <2>2 DEF handleWatchedFiles
  <2> QED BY <1>1, <2>3 DEF handleWatchedFiles, TypeOK
<1>2. ASSUME NEW batch \in SUBSET changed, handleWatchedConfig(batch) PROVE TypeOK'
  <2>1. resolveConfig(override) \in Config
    BY ResolveIsTyped DEF TypeOK
  <2>2. main' \in Main
    BY <1>2, <2>1 DEF handleWatchedConfig, Main
  <2> QED BY <1>2, <2>2 DEF handleWatchedConfig, TypeOK
<1>3. CASE StoreConfig
  <2>1. main.found \in Config
    BY <1>3 DEF StoreConfig, TypeOK, Main, Idle
  <2> QED BY <1>3, <2>1 DEF StoreConfig, TypeOK, Main
<1>4. CASE ensureIndex
  <2>1. main' \in Main
    <3>1. [n \in Name |-> None] \in Index
      BY DEF Index
    <3>2. {p \in filterIgnored(config, Under[RootUnder(config)]) : disk[p] # Empty}
            \in SUBSET Path
      <4>1. RootUnder(config) \in Root
        BY ConstantsAssumption DEF RootUnder, Config, TypeOK
      <4> QED BY <4>1, ConstantsAssumption DEF filterIgnored
    <3> QED BY <1>4, <3>1, <3>2 DEF ensureIndex, Main, TypeOK
  <2> QED BY <1>4, <2>1 DEF ensureIndex, TypeOK
<1>5. ASSUME NEW p \in Path, buildIndexFromDisk(p) PROVE TypeOK'
  <2>1. main \in [pc : {"build"}, cfg : Config, built : Index, todo : SUBSET Path]
    BY <1>5 DEF buildIndexFromDisk, TypeOK, Main, Idle
  <2>2. UpdateWithKinds(main.built, main.cfg, p, disk[p]) \in Index
    BY <2>1, Updates DEF TypeOK
  <2>3. main' \in Main
    BY <1>5, <2>1, <2>2 DEF buildIndexFromDisk, Main
  <2> QED BY <1>5, <2>3 DEF buildIndexFromDisk, TypeOK
<1>6. CASE publishIndex
  <2>1. main.built \in Index /\ main.cfg \in Config
    BY <1>6 DEF publishIndex, TypeOK, Main, Idle
  <2>2. Layered(main.built, main.cfg) \in Index
    BY <2>1, LaysBuffers
  <2> QED BY <1>6, <2>2 DEF publishIndex, TypeOK, Main
<1> QED BY <1>1, <1>2, <1>3, <1>4, <1>5, <1>6 DEF Dispatch

LEMMA StepTyped == TypeOK /\ [Next]_vars => TypeOK'
<1>1. TypeOK /\ UNCHANGED vars => TypeOK'
  BY DEF vars, TypeOK
<1> QED BY <1>1, UserTyped, SettingsTyped, DispatchTyped DEF Next

(* The disk, the settings, the dispatch goroutine and the index keep their  *)
(* types.                                                                  *)
THEOREM TypeCorrect == Spec => []TypeOK
BY InitTyped, StepTyped, PTL DEF Spec

-----------------------------------------------------------------------------
(* The invariant.                                                          *)

(* An entry of a closed file is that of its text on disk, unless the        *)
(* watcher is still to tell of a change or a build left the file out.       *)
Settled(cfg, index, p) ==
  \/ p \in changed
  \/ index[NameUnder(cfg, p)] = EntryUnder(cfg, p, OnDisk(cfg, p))
  \/ p \in Ignores[cfg.version] /\ index[NameUnder(cfg, p)] = None

(* Nothing else is in an index.                                            *)
NoStrangers(cfg, index) ==
  \A n \in Name : (\A p \in Path : NameUnder(cfg, p) # n) => index[n] = None

(* A build under the configuration in force, so far.                        *)
BuildIsSound ==
  main.pc = "build" =>
    /\ idx = None
    /\ ~switched =>
         /\ main.cfg = config
         /\ main.todo \subseteq Under[RootUnder(config)]
         /\ \A p \in Path \ main.todo : Settled(config, main.built, p)
         /\ NoStrangers(config, main.built)

(* An index that is not about to be dropped, and was not built or updated   *)
(* under two configurations.                                               *)
Reliable == idx # None /\ ~switched /\ main.pc # "reload"

IndexIsSound ==
  Reliable =>
    /\ \A p \in OpenPaths : idx[NameUnder(config, p)] = EntryUnder(config, p, docs[p])
    /\ \A p \in Path \ OpenPaths : Settled(config, idx, p)
    /\ NoStrangers(config, idx)

IInv == TypeOK /\ BuildIsSound /\ IndexIsSound

LEMMA InitInv == Init => IInv
BY InitTyped DEF Init, IInv, BuildIsSound, IndexIsSound, Reliable, Idle

(* A file whose change on disk is still to be told stays excused, and one   *)
(* whose text and entry are the same as before is as settled as before.     *)
LEMMA StaysSettled ==
  ASSUME NEW cfg, NEW index, NEW p \in Path, Settled(cfg, index, p),
         changed \subseteq changed', disk'[p] = disk[p] \/ p \in changed'
  PROVE  Settled(cfg, index, p)'
<1>1. CASE p \in changed'
  BY <1>1 DEF Settled
<1>2. CASE p \notin changed'
  <2>1. p \notin changed /\ OnDisk(cfg, p)' = OnDisk(cfg, p)
    BY <1>2 DEF OnDisk
  <2> QED BY <2>1 DEF Settled
<1> QED BY <1>1, <1>2

-----------------------------------------------------------------------------
(* Steps.                                                                  *)

(* What the world and settings do, to the server that knows of it later.    *)
LEMMA WorldKeeps ==
  ASSUME IInv, TypeOK', UNCHANGED <<config, main, idx, switched, docs>>,
         changed \subseteq changed', \A p \in Path : disk'[p] = disk[p] \/ p \in changed'
  PROVE  IInv'
<1>1. BuildIsSound'
  <2> SUFFICES ASSUME main.pc = "build", ~switched
               PROVE  /\ idx = None
                      /\ main.cfg = config
                      /\ main.todo \subseteq Under[RootUnder(config)]
                      /\ \A p \in Path \ main.todo : Settled(config, main.built, p)'
                      /\ NoStrangers(config, main.built)
    BY DEF BuildIsSound, IInv, NoStrangers, RootUnder, NameUnder
  <2> QED BY StaysSettled DEF IInv, BuildIsSound
<1>2. IndexIsSound'
  <2> SUFFICES ASSUME Reliable
               PROVE  /\ \A p \in OpenPaths :
                           idx[NameUnder(config, p)] = EntryUnder(config, p, docs[p])
                      /\ \A p \in Path \ OpenPaths : Settled(config, idx, p)'
                      /\ NoStrangers(config, idx)
    BY DEF IndexIsSound, Reliable, NoStrangers, OpenPaths, NameUnder, EntryUnder, RootUnder
  <2> QED BY StaysSettled DEF IInv, IndexIsSound
<1> QED BY <1>1, <1>2 DEF IInv

LEMMA StoreSettingsKeeps ==
  ASSUME IInv, TypeOK', StoreSettings
  PROVE  IInv'
<1>1. UNCHANGED <<disk, docs, changed, main, idx>>
  BY DEF StoreSettings
<1>2. CASE config' = config
  <2>1. CASE switched' = switched
    BY <1>1, <1>2, <2>1, WorldKeeps
  <2>2. CASE switched' # switched
    <3>1. switched'
      BY <2>2 DEF StoreSettings, IInv, TypeOK
    <3> QED BY <1>1, <3>1 DEF IInv, BuildIsSound, IndexIsSound, Reliable
  <2> QED BY <2>1, <2>2
<1>3. CASE config' # config
  <2>1. switched' \/ (idx = None /\ main.pc # "build")
    BY <1>3 DEF StoreSettings
  <2> QED BY <1>1, <2>1 DEF IInv, BuildIsSound, IndexIsSound, Reliable
<1> QED BY <1>2, <1>3

(* A handler of one document, on an idle server.                           *)
LEMMA DocumentKeeps ==
  ASSUME IInv, TypeOK', main.pc = "idle", NEW p \in Path,
         UNCHANGED <<disk, changed, config, main, switched>>,
         \A q \in Path \ {p} : docs'[q] = docs[q],
         NEW t \in Text \cup {Empty},
         idx' = IF idx = None THEN None ELSE UpdateWithKinds(idx, config, p, t),
         t = IF docs'[p] = None THEN OnDisk(config, p) ELSE docs'[p]
  PROVE  IInv'
<1>1. BuildIsSound'
  BY DEF BuildIsSound
<1>2. ASSUME Reliable'
      PROVE  /\ \A q \in OpenPaths' : idx'[NameUnder(config, q)] = EntryUnder(config, q, docs'[q])
             /\ \A q \in Path \ OpenPaths' : Settled(config, idx', q)
             /\ NoStrangers(config, idx')
  <2>1. idx # None /\ Reliable
    BY <1>2 DEF Reliable
  <2>2. idx \in Index /\ config \in Config
    BY <2>1 DEF IInv, TypeOK
  <2>3. /\ idx'[NameUnder(config, p)] = EntryUnder(config, p, t)
        /\ \A n \in Name : n # NameUnder(config, p) => idx'[n] = idx[n]
    BY <2>1, <2>2, Updates
  <2>4. \A q \in Path \ {p} : idx'[NameUnder(config, q)] = idx[NameUnder(config, q)]
    BY <2>2, <2>3, NamesAndEntries
  <2>5. ASSUME NEW q \in OpenPaths'
        PROVE  idx'[NameUnder(config, q)] = EntryUnder(config, q, docs'[q])
    <3>1. CASE q = p
      BY <2>3, <2>5, <3>1 DEF OpenPaths
    <3>2. CASE q # p
      <4>1. q \in OpenPaths /\ docs'[q] = docs[q]
        BY <3>2 DEF OpenPaths
      <4> QED BY <2>1, <2>4, <3>2, <4>1 DEF IInv, IndexIsSound, OpenPaths
    <3> QED BY <3>1, <3>2
  <2>6. ASSUME NEW q \in Path \ OpenPaths'
        PROVE  Settled(config, idx', q)
    <3>1. CASE q = p
      BY <2>3, <2>6, <3>1 DEF OpenPaths, Settled
    <3>2. CASE q # p
      <4>1. q \in Path \ OpenPaths
        BY <3>2 DEF OpenPaths
      <4> QED BY <2>1, <2>4, <3>2, <4>1 DEF IInv, IndexIsSound, Settled
    <3> QED BY <3>1, <3>2
  <2>7. NoStrangers(config, idx')
    BY <2>1, <2>3 DEF IInv, IndexIsSound, NoStrangers
  <2> QED BY <2>5, <2>6, <2>7
<1>3. IndexIsSound'
  BY <1>2 DEF IndexIsSound, Settled, NoStrangers, NameUnder, EntryUnder, RootUnder, OnDisk
<1> QED BY <1>1, <1>3 DEF IInv

LEMMA UserKeeps ==
  ASSUME IInv, TypeOK', User
  PROVE  IInv'
<1>1. TypeOK
  BY DEF IInv
<1>2. ASSUME NEW p \in Path, NEW t \in Text \cup {Empty}, WriteFile(p, t) PROVE IInv'
  <2>1. \A q \in Path : disk'[q] = disk[q] \/ q \in changed'
    BY <1>1, <1>2 DEF WriteFile, TypeOK
  <2> QED BY <1>2, <2>1, WorldKeeps DEF WriteFile
<1>3. ASSUME NEW p \in Path, NEW t \in Text \cup {Empty},
             handleDidOpen(p, t) \/ handleDidChange(p, t)
      PROVE  IInv'
  <2>1. /\ main.pc = "idle"
        /\ UNCHANGED <<disk, changed, config, main, switched>>
        /\ docs' = [docs EXCEPT ![p] = t]
        /\ idx' = IF idx = None THEN None ELSE UpdateWithKinds(idx, config, p, t)
    BY <1>3 DEF handleDidOpen, handleDidChange, indexUpdate, Idle
  <2>2. docs'[p] = t /\ \A q \in Path \ {p} : docs'[q] = docs[q]
    BY <1>1, <2>1 DEF TypeOK
  <2>3. t # None
    BY ConstantsAssumption
  <2> QED BY <2>1, <2>2, <2>3, DocumentKeeps
<1>4. ASSUME NEW p \in Path, handleDidSave(p) PROVE IInv'
  <2>1. \A q \in Path : disk'[q] = disk[q] \/ q \in changed'
    BY <1>1, <1>4 DEF handleDidSave, TypeOK
  <2> QED BY <1>4, <2>1, WorldKeeps DEF handleDidSave
<1>5. ASSUME NEW p \in Path, handleDidClose(p) PROVE IInv'
  <2> DEFINE t == OnDisk(config, p)
  <2>1. /\ main.pc = "idle"
        /\ UNCHANGED <<disk, changed, config, main, switched>>
        /\ docs' = [docs EXCEPT ![p] = None]
        /\ idx' = IF idx = None THEN None ELSE UpdateWithKinds(idx, config, p, t)
    BY <1>5, Zenon DEF handleDidClose, indexReloadFromDisk, Idle
  <2>2. docs'[p] = None /\ \A q \in Path \ {p} : docs'[q] = docs[q]
    BY <1>1, <2>1 DEF TypeOK
  <2>3. t \in Text \cup {Empty}
    BY <1>1, DiskIsTyped DEF TypeOK
  <2> HIDE DEF t
  <2>4. t = IF docs'[p] = None THEN OnDisk(config, p) ELSE docs'[p]
    BY <2>2 DEF t
  <2> QED BY <2>1, <2>2, <2>3, <2>4, DocumentKeeps
<1>6. ASSUME NEW c \in Place, NEW v \in Version \cup {None}, WriteConfig(c, v) PROVE IInv'
  BY <1>6, WorldKeeps DEF WriteConfig
<1>7. ASSUME NEW o \in Place \cup {None}, SetOverride(o) PROVE IInv'
  BY <1>7, WorldKeeps DEF SetOverride
<1> QED BY <1>2, <1>3, <1>4, <1>5, <1>6, <1>7 DEF User

(* A batch of watched changes: what it names is read again or open.         *)
LEMMA WatchedKeeps ==
  ASSUME IInv, TypeOK', NEW batch \in SUBSET changed, handleWatchedFiles(batch)
  PROVE  IInv'
<1>1. /\ main.pc = "idle" /\ batch \subseteq Path /\ changed' = changed \ batch
      /\ idx' = IF idx = None THEN None ELSE Reloaded(batch \ OpenPaths)
      /\ UNCHANGED <<disk, docs, config, main, switched>>
  BY DEF handleWatchedFiles, Watched, Idle
<1>2. BuildIsSound'
  BY <1>1 DEF BuildIsSound
<1>3. ASSUME Reliable'
      PROVE  /\ \A q \in OpenPaths : idx'[NameUnder(config, q)] = EntryUnder(config, q, docs[q])
             /\ \A q \in Path \ OpenPaths :
                  \/ q \in changed'
                  \/ idx'[NameUnder(config, q)] = EntryUnder(config, q, OnDisk(config, q))
                  \/ q \in Ignores[config.version] /\ idx'[NameUnder(config, q)] = None
             /\ NoStrangers(config, idx')
  <2> DEFINE files == batch \ OpenPaths
  <2>1. idx # None /\ Reliable /\ idx' = Reloaded(files)
    BY <1>1, <1>3 DEF Reliable
  <2>2. config \in Config /\ files \in SUBSET Path
    BY <1>1 DEF IInv, TypeOK
  <2>3. /\ \A p \in files :
             idx'[NameUnder(config, p)] = EntryUnder(config, p, OnDisk(config, p))
        /\ \A n \in Name : (\A p \in files : NameUnder(config, p) # n) => idx'[n] = idx[n]
    BY <2>1, <2>2, ReloadsThose DEF IInv
  <2>4. \A q \in Path \ files : idx'[NameUnder(config, q)] = idx[NameUnder(config, q)]
    BY <2>2, <2>3, NamesAndEntries
  <2>5. OpenPaths \subseteq Path \ files
    BY DEF OpenPaths
  <2>6. \A q \in OpenPaths : idx'[NameUnder(config, q)] = EntryUnder(config, q, docs[q])
    BY <2>1, <2>4, <2>5 DEF IInv, IndexIsSound
  <2>7. ASSUME NEW q \in Path \ OpenPaths
        PROVE  \/ q \in changed'
               \/ idx'[NameUnder(config, q)] = EntryUnder(config, q, OnDisk(config, q))
               \/ q \in Ignores[config.version] /\ idx'[NameUnder(config, q)] = None
    <3>1. CASE q \in batch
      BY <2>3, <3>1
    <3>2. CASE q \notin batch
      BY <1>1, <2>1, <2>4, <3>2 DEF IInv, IndexIsSound, Settled
    <3> QED BY <3>1, <3>2
  <2>8. NoStrangers(config, idx')
    BY <2>1, <2>2, <2>3 DEF IInv, IndexIsSound, NoStrangers
  <2> QED BY <2>6, <2>7, <2>8
<1>4. IndexIsSound'
  BY <1>1, <1>3
  DEF IndexIsSound, Settled, NoStrangers, NameUnder, EntryUnder, RootUnder, OnDisk, OpenPaths
<1> QED BY <1>2, <1>4 DEF IInv

(* The build: one file after another is settled, then buffers are laid over. *)
LEMMA EnsureKeeps ==
  ASSUME IInv, TypeOK', ensureIndex
  PROVE  IInv'
<1> DEFINE none == [n \in Name |-> None]
           todo == {p \in filterIgnored(config, Under[RootUnder(config)]) : disk[p] # Empty}
<1>1. /\ idx = None /\ main' = [pc |-> "build", cfg |-> config, built |-> none, todo |-> todo]
      /\ UNCHANGED <<disk, docs, changed, config, idx>>
  BY DEF ensureIndex
<1>2. IndexIsSound'
  BY <1>1 DEF IndexIsSound, Reliable
<1>3. config \in Config
  BY DEF IInv, TypeOK
<1>4. todo \subseteq Under[RootUnder(config)]
  BY DEF filterIgnored
<1>5. \A p \in Path \ todo : Settled(config, none, p)
  <2> TAKE p \in Path \ todo
  <2>1. none[NameUnder(config, p)] = None
    BY <1>3, NamesAndEntries
  <2>2. CASE p \in Ignores[config.version]
    BY <2>1, <2>2 DEF Settled
  <2>3. CASE p \notin Ignores[config.version]
    <3>1. OnDisk(config, p) = Empty
      BY <2>3 DEF filterIgnored, OnDisk
    <3> QED BY <2>1, <3>1 DEF Settled, EntryUnder
  <2> QED BY <2>2, <2>3
<1>6. NoStrangers(config, none)
  BY DEF NoStrangers
<1> HIDE DEF none, todo
<1>7. BuildIsSound'
  BY <1>1, <1>4, <1>5, <1>6
  DEF BuildIsSound, Settled, NoStrangers, NameUnder, EntryUnder, RootUnder, OnDisk
<1> QED BY <1>2, <1>7 DEF IInv

LEMMA BuildKeeps ==
  ASSUME IInv, TypeOK', NEW p \in Path, buildIndexFromDisk(p)
  PROVE  IInv'
<1> DEFINE built == UpdateWithKinds(main.built, main.cfg, p, disk[p])
           todo == main.todo \ {p}
<1>1. main \in [pc : {"build"}, cfg : Config, built : Index, todo : SUBSET Path]
  BY DEF buildIndexFromDisk, IInv, TypeOK, Main, Idle
<1>2. /\ main' = [main EXCEPT !.todo = todo, !.built = built]
      /\ p \in main.todo
      /\ UNCHANGED <<disk, docs, changed, config, idx, switched>>
  BY DEF buildIndexFromDisk
<1>3. idx = None
  BY <1>1 DEF IInv, BuildIsSound
<1>4. IndexIsSound'
  BY <1>2, <1>3 DEF IndexIsSound, Reliable
<1>5. ASSUME ~switched
      PROVE  /\ main.cfg = config
             /\ todo \subseteq Under[RootUnder(config)]
             /\ \A q \in Path \ todo : Settled(config, built, q)
             /\ NoStrangers(config, built)
  <2>1. /\ main.cfg = config
        /\ main.todo \subseteq Under[RootUnder(config)]
        /\ \A q \in Path \ main.todo : Settled(config, main.built, q)
        /\ NoStrangers(config, main.built)
    BY <1>1, <1>5 DEF IInv, BuildIsSound
  <2>2. config \in Config /\ disk[p] \in Text \cup {Empty} /\ main.built \in Index
    BY <1>1 DEF IInv, TypeOK
  <2>3. /\ built[NameUnder(config, p)] = EntryUnder(config, p, disk[p])
        /\ \A n \in Name : n # NameUnder(config, p) => built[n] = main.built[n]
    BY <2>1, <2>2, Updates
  <2> HIDE DEF built
  <2>4. OnDisk(config, p) = disk[p]
    BY <1>2, <2>1 DEF OnDisk
  <2>5. ASSUME NEW q \in Path \ todo PROVE Settled(config, built, q)
    <3>1. CASE q = p
      BY <2>3, <2>4, <3>1 DEF Settled
    <3>2. CASE q # p
      <4>1. NameUnder(config, q) # NameUnder(config, p) /\ NameUnder(config, q) \in Name
        BY <2>2, <3>2, NamesAndEntries
      <4>2. q \in Path \ main.todo
        BY <3>2
      <4> QED BY <2>1, <2>3, <4>1, <4>2 DEF Settled
    <3> QED BY <3>1, <3>2
  <2>6. NoStrangers(config, built)
    BY <2>1, <2>3 DEF NoStrangers
  <2> QED BY <2>1, <2>5, <2>6
<1> HIDE DEF built, todo
<1>6. main'.pc = "build" /\ main'.cfg = main.cfg /\ main'.todo = todo /\ main'.built = built
  BY <1>1, <1>2
<1>7. BuildIsSound'
  BY <1>2, <1>3, <1>5, <1>6
  DEF BuildIsSound, Settled, NoStrangers, NameUnder, EntryUnder, RootUnder, OnDisk
<1> QED BY <1>4, <1>7 DEF IInv

LEMMA PublishKeeps ==
  ASSUME IInv, TypeOK', publishIndex
  PROVE  IInv'
<1>1. main \in [pc : {"build"}, cfg : Config, built : Index, todo : SUBSET Path]
  BY DEF publishIndex, IInv, TypeOK, Main, Idle
<1>2. /\ main.todo = {} /\ main'.pc = "idle"
      /\ idx' = Layered(main.built, main.cfg)
      /\ UNCHANGED <<disk, docs, changed, config, switched>>
  BY DEF publishIndex, Idle
<1>3. BuildIsSound'
  BY <1>2 DEF BuildIsSound
<1>4. ASSUME ~switched
      PROVE  /\ \A p \in OpenPaths : idx'[NameUnder(config, p)] = EntryUnder(config, p, docs[p])
             /\ \A p \in Path \ OpenPaths : Settled(config, idx', p)
             /\ NoStrangers(config, idx')
  <2>1. /\ main.cfg = config
        /\ \A p \in Path : Settled(config, main.built, p)
        /\ NoStrangers(config, main.built)
    BY <1>1, <1>2, <1>4 DEF IInv, BuildIsSound
  <2>2. config \in Config /\ OpenPaths \subseteq Path
    BY DEF IInv, TypeOK, OpenPaths
  <2>3. /\ \A p \in OpenPaths : idx'[NameUnder(config, p)] = EntryUnder(config, p, docs[p])
        /\ \A n \in Name : (\A p \in OpenPaths : NameUnder(config, p) # n)
             => idx'[n] = main.built[n]
    BY <1>1, <1>2, <2>1, LaysBuffers DEF IInv
  <2>4. \A p \in Path \ OpenPaths :
          idx'[NameUnder(config, p)] = main.built[NameUnder(config, p)]
    BY <2>2, <2>3, NamesAndEntries
  <2>5. \A p \in Path \ OpenPaths : Settled(config, idx', p)
    BY <2>1, <2>4 DEF Settled
  <2>6. NoStrangers(config, idx')
    BY <2>1, <2>2, <2>3 DEF NoStrangers
  <2> QED BY <2>3, <2>5, <2>6
<1>5. IndexIsSound'
  BY <1>2, <1>4
  DEF IndexIsSound, Reliable, Settled, NoStrangers, NameUnder, EntryUnder, RootUnder, OnDisk,
      OpenPaths
<1> QED BY <1>3, <1>5 DEF IInv

LEMMA DispatchKeeps ==
  ASSUME IInv, TypeOK', Dispatch
  PROVE  IInv'
<1>1. ASSUME NEW batch \in SUBSET changed, handleWatchedConfig(batch) PROVE IInv'
  BY <1>1 DEF handleWatchedConfig, IInv, BuildIsSound, IndexIsSound, Reliable
<1>2. CASE StoreConfig
  BY <1>2 DEF StoreConfig, Idle, IInv, BuildIsSound, IndexIsSound, Reliable
<1> QED BY <1>1, <1>2, WatchedKeeps, EnsureKeeps, BuildKeeps, PublishKeeps DEF Dispatch

LEMMA StepInv == IInv /\ [Next]_vars => IInv'
<1> SUFFICES ASSUME IInv, [Next]_vars PROVE IInv'
  OBVIOUS
<1>1. TypeOK'
  BY StepTyped DEF IInv
<1>2. CASE ResolveSettings
  BY <1>1, <1>2, WorldKeeps DEF ResolveSettings
<1>3. CASE UNCHANGED vars
  BY <1>1, <1>3, WorldKeeps DEF vars
<1> QED BY <1>1, <1>2, <1>3, StoreSettingsKeeps, UserKeeps, DispatchKeeps DEF Next

LEMMA Invariant == Spec => []IInv
BY InitInv, StepInv, PTL DEF Spec

-----------------------------------------------------------------------------
(* Theorems.                                                               *)

LEMMA SoundMeans ==
  ASSUME IInv, Answers, ~switched
  PROVE  /\ config \in Config /\ OpenPaths \subseteq Path
         /\ \A p \in OpenPaths : idx[NameUnder(config, p)] = EntryFor(p, docs[p])
         /\ \A p \in Path \ OpenPaths :
              \/ p \in changed
              \/ idx[NameUnder(config, p)] = EntryFor(p, OnDisk(config, p))
              \/ p \in Ignores[config.version] /\ idx[NameUnder(config, p)] = None
         /\ NoStrangers(config, idx)
<1>1. Reliable
  BY DEF Answers, Reliable, Idle
<1> QED BY <1>1 DEF IInv, TypeOK, IndexIsSound, Settled, EntryFor, EntryUnder, OpenPaths

(* An index answers for an open document with its buffer, whatever the      *)
(* watcher has still to tell: symbols.go, ensureIndex and indexUpdate.      *)
THEOREM BuffersWin == Spec => []BuffersAreLive
<1>1. IInv => BuffersAreLive
  <2> SUFFICES ASSUME IInv, Answers, ~switched, NEW p \in OpenPaths
               PROVE  <<Rel[RootUnder(config)][p], EntryFor(p, docs[p])>> \in Entries
    BY DEF BuffersAreLive, Live
  <2>1. NameUnder(config, p) \in Name /\ idx[NameUnder(config, p)] = EntryFor(p, docs[p])
    BY SoundMeans, NamesAndEntries
  <2> QED BY <2>1 DEF Entries, NameUnder
<1> QED BY <1>1, Invariant, PTL

(* With every change told, an index is what a build would make, but for     *)
(* ignored files that are in it all the same, and those are up to date.     *)
THEOREM OnlyIgnoredStay == Spec => []OnlyIgnoredLinger
<1>1. IInv => OnlyIgnoredLinger
  <2> SUFFICES ASSUME IInv, Answers, ~switched, changed = {}
               PROVE  LET ignored == Ignores[config.version]
                          full == Live \cup Saved(Path \ ignored)
                      IN  /\ full \subseteq Entries
                          /\ \A e \in Entries \ full : e[2] = None \/ e \in Saved(ignored)
    BY DEF OnlyIgnoredLinger
  <2> DEFINE ignored == Ignores[config.version]
             full == Live \cup Saved(Path \ ignored)
  <2>1. /\ config \in Config /\ OpenPaths \subseteq Path
        /\ \A p \in OpenPaths : idx[NameUnder(config, p)] = EntryFor(p, docs[p])
        /\ \A p \in Path \ OpenPaths :
             \/ idx[NameUnder(config, p)] = EntryFor(p, OnDisk(config, p))
             \/ p \in ignored /\ idx[NameUnder(config, p)] = None
        /\ NoStrangers(config, idx)
    BY SoundMeans
  <2>2. /\ Live = {<<NameUnder(config, p), EntryFor(p, docs[p])>> : p \in OpenPaths}
        /\ \A files \in SUBSET Path :
             Saved(files) = {<<NameUnder(config, p), EntryFor(p, OnDisk(config, p))>> :
                               p \in files \ OpenPaths}
    BY DEF Live, Saved, NameUnder
  <2>3. \A p \in Path : NameUnder(config, p) \in Name
    BY <2>1, NamesAndEntries
  <2>4. ignored \in SUBSET Path
    BY <2>1, ConstantsAssumption DEF Config
  <2> HIDE DEF ignored
  <2>5. Live \subseteq Entries
    BY <2>1, <2>2, <2>3 DEF Entries
  <2>6. Saved(Path \ ignored) \subseteq Entries
    BY <2>1, <2>2, <2>3 DEF Entries
  <2>7. ASSUME NEW e \in Entries \ full PROVE e[2] = None \/ e \in Saved(ignored)
    <3>1. PICK n \in Name : e = <<n, idx[n]>>
      BY <2>7 DEF Entries
    <3>2. CASE \A p \in Path : NameUnder(config, p) # n
      BY <2>1, <3>1, <3>2 DEF NoStrangers
    <3>3. ASSUME NEW p \in Path, NameUnder(config, p) = n
          PROVE  e[2] = None \/ e \in Saved(ignored)
      <4>1. p \notin OpenPaths
        BY <2>1, <2>2, <2>7, <3>1, <3>3
      <4>2. CASE p \in ignored
        BY <2>1, <2>2, <2>4, <3>1, <3>3, <4>1, <4>2
      <4>3. CASE p \notin ignored
        BY <2>1, <2>2, <2>7, <3>1, <3>3, <4>1, <4>3
      <4> QED BY <4>2, <4>3
    <3> QED BY <3>2, <3>3
  <2> QED BY <2>5, <2>6, <2>7 DEF ignored
<1> QED BY <1>1, Invariant, PTL
=============================================================================
