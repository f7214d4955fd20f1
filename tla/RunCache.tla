------------------------------ MODULE RunCache ------------------------------
(***************************************************************************)
(* lint.RunCache: per-file slots (front matter, raw schema files, include  *)
(* lists, anchors, a file's paragraph fingerprints) and an aggregate slot  *)
(* built from them (the corpus index), filled at most once per entry by    *)
(* concurrent lints and emptied by Invalidate.                             *)
(*                                                                         *)
(* Every map operation, lock and file read is a step of its own.  An entry *)
(* is an object: a goroutine keeps the one it found after Invalidate has   *)
(* taken it out of the map.  The content of a file is its version.         *)
(***************************************************************************)
EXTENDS Naturals, FiniteSets

CONSTANTS
  Path,      \* absolute paths
  Reader,    \* goroutines that read through the cache
  Editor,    \* goroutines that call Invalidate
  Entry,     \* cache entries (a bound: dropped ones are reused)
  MaxVer,    \* bound on the versions of a file
  Snapshots, \* readers see the files as they were when they began
  None       \* no entry, no reader, no path

ASSUME ConstantsAssumption ==
  /\ MaxVer \in Nat
  /\ Snapshots \in BOOLEAN
  /\ None \notin Path \cup Reader \cup Entry

VARIABLES
  disk,      \* the current version of each file
  floor,     \* history: the version vouched for by the last Invalidate
  leaf,      \* the per-file map: each path's entry
  agg,       \* the corpusIndex map: its one key's entry
  entry,     \* the entries: value, done flag, mutex holder
  reader,    \* where each reading goroutine stands
  editor     \* where each invalidating goroutine stands

vars == <<disk, floor, leaf, agg, entry, reader, editor>>

Ver == 0..MaxVer
Vers == [Path -> Ver]
Zero == [p \in Path |-> 0]

EntryRec == [val : Vers, done : BOOLEAN, lock : Reader \cup {None}]

ReaderPc == {"idle", "agg", "lockAgg", "next", "leaf", "lock", "read",
             "store", "storeAgg", "done"}

ReaderRec ==
  [pc : ReaderPc,
   scope : SUBSET Path,        \* the paths the answer is about
   todo : SUBSET Path,         \* those an aggregate build has yet to visit
   cur : Path \cup {None},     \* the path being looked up
   ref : Entry \cup {None},    \* its entry
   aggRef : Entry \cup {None}, \* the aggregate entry, when reading that
   view : Vers,                \* the files when the reader began
   from : Vers,                \* history: floor when the reader began
   seen : Ver,                 \* what the build read
   got : Vers]                 \* the answer, path by path

EditorRec == [pc : {"idle", "leaf", "agg"}, path : Path \cup {None}, ver : Ver]

Idle == [pc |-> "idle", scope |-> {}, todo |-> {}, cur |-> None, ref |-> None,
         aggRef |-> None, view |-> Zero, from |-> Zero, seen |-> 0, got |-> Zero]

Resting == [pc |-> "idle", path |-> None, ver |-> 0]

Init ==
  /\ disk = Zero
  /\ floor = Zero
  /\ leaf = [p \in Path |-> None]
  /\ agg = None
  /\ entry = [x \in Entry |-> [val |-> Zero, done |-> FALSE, lock |-> None]]
  /\ reader = [r \in Reader |-> Idle]
  /\ editor = [e \in Editor |-> Resting]

-----------------------------------------------------------------------------
(* load: find the key's entry, or put a new empty one in the map.  The     *)
(* entry is in the map before it is built, so an Invalidate during the     *)
(* build takes it out.                                                     *)

Unused == {x \in Entry : /\ x # agg
                         /\ \A p \in Path : x # leaf[p]
                         /\ \A r \in Reader : x # reader[r].ref
                                           /\ x # reader[r].aggRef}

Fresh == CHOOSE x \in Unused : TRUE

New == [val |-> Zero, done |-> FALSE, lock |-> None]

(* A lookup of the slots of the paths S, beginning at pc.                   *)
Start(r, S, pc, cur) ==
  /\ reader[r].pc = "idle"
  /\ reader' = [reader EXCEPT ![r] =
       [Idle EXCEPT !.scope = S,
                    !.view = IF Snapshots THEN disk ELSE Zero,
                    !.from = [p \in Path |-> IF p \in S THEN floor[p] ELSE 0],
                    !.pc = pc,
                    !.cur = cur]]
  /\ UNCHANGED <<disk, floor, leaf, agg, entry, editor>>

(* A lookup of one file's slot, or of the aggregate.                       *)
ReadFile(r, p) == Start(r, {p}, "leaf", p)

ReadCorpus(r) == Start(r, Path, "agg", None)

LeafLoad(r) ==
  /\ reader[r].pc = "leaf"
  /\ LET p == reader[r].cur IN
     IF leaf[p] # None
     THEN /\ reader' = [reader EXCEPT ![r].pc = "lock", ![r].ref = leaf[p]]
          /\ UNCHANGED <<leaf, entry>>
     ELSE /\ Unused # {}
          /\ leaf' = [leaf EXCEPT ![p] = Fresh]
          /\ entry' = [entry EXCEPT ![Fresh] = New]
          /\ reader' = [reader EXCEPT ![r].pc = "lock", ![r].ref = Fresh]
  /\ UNCHANGED <<disk, floor, agg, editor>>

AggLoad(r) ==
  /\ reader[r].pc = "agg"
  /\ IF agg # None
     THEN /\ reader' = [reader EXCEPT ![r].pc = "lockAgg", ![r].aggRef = agg]
          /\ UNCHANGED <<agg, entry>>
     ELSE /\ Unused # {}
          /\ agg' = Fresh
          /\ entry' = [entry EXCEPT ![Fresh] = New]
          /\ reader' = [reader EXCEPT ![r].pc = "lockAgg", ![r].aggRef = Fresh]
  /\ UNCHANGED <<disk, floor, leaf, editor>>

-----------------------------------------------------------------------------
(* loadEntry: a done entry is read at once; otherwise the first to take    *)
(* the entry's mutex builds it and the others wait, then read it.          *)

(* After a file's value v is known: the end of a plain lookup, or the next *)
(* file of an aggregate build.                                             *)
WithValue(rec, v) ==
  LET left == rec.todo \ {rec.cur} IN
  [rec EXCEPT !.got = [rec.got EXCEPT ![rec.cur] = v],
              !.todo = left, !.cur = None, !.ref = None, !.seen = 0,
              !.pc = IF rec.aggRef = None THEN "done"
                     ELSE IF left = {} THEN "storeAgg" ELSE "next"]

LeafHit(r) ==
  /\ reader[r].pc = "lock"
  /\ LET x == reader[r].ref IN
     /\ entry[x].done
     /\ reader' = [reader EXCEPT ![r] =
                     WithValue(reader[r], entry[x].val[reader[r].cur])]
  /\ UNCHANGED <<disk, floor, leaf, agg, entry, editor>>

(* Mutant: the entry's mutex is not taken.                                 *)
LeafLock_NoMutex(r) ==
  /\ reader[r].pc = "lock"
  /\ LET x == reader[r].ref IN
     /\ ~entry[x].done
     /\ entry' = [entry EXCEPT ![x].lock = r]
  /\ reader' = [reader EXCEPT ![r].pc = "read"]
  /\ UNCHANGED <<disk, floor, leaf, agg, editor>>

LeafLock(r) ==
  /\ reader[r].pc = "lock"
  /\ LET x == reader[r].ref IN
     /\ ~entry[x].done
     /\ entry[x].lock = None
     /\ entry' = [entry EXCEPT ![x].lock = r]
  /\ reader' = [reader EXCEPT ![r].pc = "read"]
  /\ UNCHANGED <<disk, floor, leaf, agg, editor>>

(* Mutant: the build counts an edit nobody made.                           *)
LeafRead_OffByOne(r) ==
  /\ reader[r].pc = "read"
  /\ LET p == reader[r].cur IN
     reader' = [reader EXCEPT ![r].pc = "store", ![r].seen = disk[p] + 1]
  /\ UNCHANGED <<disk, floor, leaf, agg, entry, editor>>

(* build reads the file: from the disk, or from the overlay snapshot its   *)
(* Check took when it began.                                               *)
LeafRead(r) ==
  /\ reader[r].pc = "read"
  /\ LET p == reader[r].cur IN
     reader' = [reader EXCEPT ![r].pc = "store",
                  ![r].seen = IF Snapshots THEN reader[r].view[p] ELSE disk[p]]
  /\ UNCHANGED <<disk, floor, leaf, agg, entry, editor>>

(* Mutant: the build's failure leaves the mutex held and the flag down.    *)
LeafStore_KeepsMutex(r) ==
  /\ reader[r].pc = "store"
  /\ LET v == reader[r].seen IN
     reader' = [reader EXCEPT ![r] = WithValue(reader[r], v)]
  /\ UNCHANGED <<disk, floor, leaf, agg, entry, editor>>

LeafStore(r) ==
  /\ reader[r].pc = "store"
  /\ LET x == reader[r].ref
         v == reader[r].seen IN
     /\ entry' = [entry EXCEPT ![x] =
                    [val |-> [Zero EXCEPT ![reader[r].cur] = v],
                     done |-> TRUE, lock |-> None]]
     /\ reader' = [reader EXCEPT ![r] = WithValue(reader[r], v)]
  /\ UNCHANGED <<disk, floor, leaf, agg, editor>>

(* Mutant: the value is returned without a look at the done flag.          *)
AggHit_NotDone(r) ==
  /\ reader[r].pc = "lockAgg"
  /\ LET x == reader[r].aggRef IN
     reader' = [reader EXCEPT ![r].pc = "done", ![r].aggRef = None,
                              ![r].got = entry[x].val]
  /\ UNCHANGED <<disk, floor, leaf, agg, entry, editor>>

AggHit(r) ==
  /\ reader[r].pc = "lockAgg"
  /\ LET x == reader[r].aggRef IN
     /\ entry[x].done
     /\ reader' = [reader EXCEPT ![r].pc = "done", ![r].aggRef = None,
                                 ![r].got = entry[x].val]
  /\ UNCHANGED <<disk, floor, leaf, agg, entry, editor>>

AggLock(r) ==
  /\ reader[r].pc = "lockAgg"
  /\ LET x == reader[r].aggRef IN
     /\ ~entry[x].done
     /\ entry[x].lock = None
     /\ entry' = [entry EXCEPT ![x].lock = r]
  /\ reader' = [reader EXCEPT ![r].pc = "next", ![r].todo = Path]
  /\ UNCHANGED <<disk, floor, leaf, agg, editor>>

(* The corpus walk looks each file up in its own slot, one at a time.      *)
AggNext(r, p) ==
  /\ reader[r].pc = "next"
  /\ p \in reader[r].todo
  /\ reader' = [reader EXCEPT ![r].pc = "leaf", ![r].cur = p]
  /\ UNCHANGED <<disk, floor, leaf, agg, entry, editor>>

AggStore(r) ==
  /\ reader[r].pc = "storeAgg"
  /\ LET x == reader[r].aggRef IN
     entry' = [entry EXCEPT ![x] =
                 [val |-> reader[r].got, done |-> TRUE, lock |-> None]]
  /\ reader' = [reader EXCEPT ![r].pc = "done", ![r].aggRef = None]
  /\ UNCHANGED <<disk, floor, leaf, agg, editor>>

Finish(r) ==
  /\ reader[r].pc = "done"
  /\ reader' = [reader EXCEPT ![r] = Idle]
  /\ UNCHANGED <<disk, floor, leaf, agg, entry, editor>>

-----------------------------------------------------------------------------
(* A file changes, and its Invalidate follows in a goroutine of its own    *)
(* time: the per-file slots first, then the aggregate.                     *)

Edit(p) ==
  /\ disk[p] < MaxVer
  /\ disk' = [disk EXCEPT ![p] = @ + 1]
  /\ UNCHANGED <<floor, leaf, agg, entry, reader, editor>>

Invalidate(e, p) ==
  /\ editor[e].pc = "idle"
  /\ editor' = [editor EXCEPT ![e] = [pc |-> "leaf", path |-> p, ver |-> disk[p]]]
  /\ UNCHANGED <<disk, floor, leaf, agg, entry, reader>>

DropLeaf(e) ==
  /\ editor[e].pc = "leaf"
  /\ leaf' = [leaf EXCEPT ![editor[e].path] = None]
  /\ editor' = [editor EXCEPT ![e].pc = "agg"]
  /\ UNCHANGED <<disk, floor, agg, entry, reader>>

(* dropCorpusIndex, the last store of the call, which then returns.        *)
DropAgg(e) ==
  /\ editor[e].pc = "agg"
  /\ agg' = None
  /\ LET p == editor[e].path IN
     floor' = [floor EXCEPT ![p] = IF @ < editor[e].ver THEN editor[e].ver ELSE @]
  /\ editor' = [editor EXCEPT ![e] = Resting]
  /\ UNCHANGED <<disk, leaf, entry, reader>>

-----------------------------------------------------------------------------
ReaderStep(r) ==
  \/ LeafLoad(r) \/ LeafHit(r) \/ LeafLock(r) \/ LeafRead(r) \/ LeafStore(r)
  \/ AggLoad(r) \/ AggHit(r) \/ AggLock(r) \/ AggStore(r)
  \/ \E p \in Path : AggNext(r, p)
  \/ Finish(r)

(* Mutant: the aggregate is dropped first and the file's slot last, so the *)
(* aggregate can be rebuilt from the old slot in between.                  *)
EditorStep_AggFirst(e) ==
  LET p == editor[e].path IN
  \/ /\ editor[e].pc = "leaf"
     /\ agg' = None
     /\ editor' = [editor EXCEPT ![e].pc = "agg"]
     /\ UNCHANGED <<disk, floor, leaf, entry, reader>>
  \/ /\ editor[e].pc = "agg"
     /\ leaf' = [leaf EXCEPT ![p] = None]
     /\ floor' = [floor EXCEPT ![p] = IF @ < editor[e].ver THEN editor[e].ver ELSE @]
     /\ editor' = [editor EXCEPT ![e] = Resting]
     /\ UNCHANGED <<disk, agg, entry, reader>>

(* invalidate.                                                             *)
EditorStep(e) == DropLeaf(e) \/ DropAgg(e)

Next ==
  \/ \E p \in Path : Edit(p)
  \/ \E e \in Editor : EditorStep(e) \/ \E p \in Path : Invalidate(e, p)
  \/ \E r \in Reader : \/ ReaderStep(r)
                       \/ ReadCorpus(r)
                       \/ \E p \in Path : ReadFile(r, p)

(* The Go scheduler runs every goroutine that can run.                     *)
Fairness ==
  /\ \A r \in Reader : WF_vars(ReaderStep(r))
  /\ \A e \in Editor : WF_vars(EditorStep(e))

Spec == Init /\ [][Next]_vars

FairSpec == Spec /\ Fairness

-----------------------------------------------------------------------------
(* The variables hold what their declarations say.                         *)
TypeOK ==
  /\ disk \in Vers
  /\ floor \in Vers
  /\ leaf \in [Path -> Entry \cup {None}]
  /\ agg \in Entry \cup {None}
  /\ entry \in [Entry -> EntryRec]
  /\ reader \in [Reader -> ReaderRec]
  /\ editor \in [Editor -> EditorRec]

(* No read answers with content older than what an Invalidate that         *)
(* returned before the read began had vouched for: neither a file's own    *)
(* slot nor an aggregate that another goroutine was building from slots    *)
(* filled before the edit ("so the next Check that crosses absPath         *)
(* re-reads from disk").                                                   *)
ReadIsFresh ==
  \A r \in Reader : reader[r].pc = "done" =>
    \A p \in reader[r].scope : reader[r].got[p] >= reader[r].from[p]

(* An entry is built by one goroutine: the one that holds its mutex.       *)
Building(r, x) ==
  \/ reader[r].pc \in {"read", "store"} /\ reader[r].ref = x
  \/ reader[r].aggRef = x /\ reader[r].pc \notin {"lockAgg", "done"}

OneBuilder ==
  \A x \in Entry : \A r \in Reader :
    Building(r, x) <=> entry[x].lock = r

(* Every read that begins is answered: goroutines that wait for an entry   *)
(* another is building, itself waiting for the entries it is built from,   *)
(* never wait for each other.                                              *)
ReadsFinish == \A r \in Reader : reader[r].pc # "idle" ~> reader[r].pc = "idle"

(* The cache implements FreshReads: a goroutine that is neither idle nor   *)
(* done is busy.                                                           *)
reqBar ==
  [r \in Reader |->
     [st |-> IF reader[r].pc \in {"idle", "done"} THEN reader[r].pc ELSE "busy",
      scope |-> reader[r].scope,
      from |-> reader[r].from,
      got |-> IF reader[r].pc = "done" THEN reader[r].got ELSE Zero]]

Promise == INSTANCE FreshReads WITH req <- reqBar

ImplementsFreshReads == Promise!Spec
=============================================================================
