----------------------------- MODULE SchemaCache -----------------------------
(***************************************************************************)
(* The schema slots of lint.RunCache: the raw bytes of a schema file, its  *)
(* parse, and the reverse-include index through which an Invalidate of a   *)
(* fragment evicts every schema whose parse reached it.                    *)
(*                                                                         *)
(* Every map operation, locked region and file read is a step of its own.  *)
(* How a slot is filled once is RunCache's subject; here the raw slot is   *)
(* looked up or filled in one step.  A file's content is its version, and  *)
(* says which fragments it includes.  A schema that extends another takes  *)
(* another path (schema.ParseFile) and is left out, and so are the compiled*)
(* CUE sources: their key is the whole input of their build.               *)
(***************************************************************************)
EXTENDS Naturals, FiniteSets

CONSTANTS
  Path,     \* absolute paths
  Schema,   \* those a host document names as its schema
  Reader,   \* goroutines that check a host document
  Entry,    \* parsed-schema entries (a bound: dropped ones are reused)
  MaxVer,   \* bound on the versions of a file
  Content,  \* what each version of each file says
  Nil       \* no entry, no path, no version

Ver == 0..MaxVer

ASSUME SchemaAssumption ==
  /\ MaxVer \in Nat
  /\ Schema \subseteq Path
  /\ Content \in [Path -> [Ver -> [incl : SUBSET Path, ok : BOOLEAN]]]
  /\ Nil \notin Path \cup Reader \cup Entry \cup Ver

VARIABLES
  disk,       \* the current version of each file
  floor,      \* history: the version vouched for by the last Invalidate
  raw,        \* rawSchemaFile: the bytes of each schema file, and whether an
              \* Invalidate overlapped the check that read them (history)
  parsed,     \* parsedSchema: each schema's entry
  entry,      \* the entries
  includes,   \* schemaIncludes: the fragments each schema's parse reached
  dependents, \* schemaDependents: the schemas that reached each fragment
  reader,     \* where each reading goroutine stands
  inv,        \* the Invalidate call under way, on the one handler goroutine
  overlap     \* history: some check has overlapped some Invalidate

schemaVars == <<disk, floor, raw, parsed, entry, includes, dependents, reader, inv,
                overlap>>

Vers == [Path -> Ver]
Zero == [p \in Path |-> 0]

(* The versions a parse has read, Nil of the files it has not.             *)
Read == [Path -> Ver \cup {Nil}]
Unread == [p \in Path |-> Nil]

(* A parse: the fragments reached, and the version read of each file.      *)
EntryRec == [deps : SUBSET Path, got : Read, done : BOOLEAN,
             lock : Reader \cup {Nil},
             raced : BOOLEAN] \* history: an Invalidate overlapped its build, or
                              \* the check that read the bytes it was built from

ReaderRec ==
  [pc : {"idle", "raw", "load", "lock", "walk", "meta", "register", "done"},
   schema : Path \cup {Nil},
   view : Vers,                          \* the files when the check began
   from : Vers,                          \* history: floor when it began
   raced : BOOLEAN,                      \* history: an Invalidate overlapped it
   data : Ver,                           \* the schema's bytes
   ref : Entry \cup {Nil},               \* its entry
   todo : SUBSET (Path \X SUBSET Path),  \* includes to expand, with their chains
   deps : SUBSET Path,                   \* fragments reached, or left to register
   got : Read]                           \* the oldest version read of each file

Idle == [pc |-> "idle", schema |-> Nil, view |-> Zero, from |-> Zero,
         raced |-> FALSE, data |-> 0, ref |-> Nil, todo |-> {}, deps |-> {},
         got |-> Unread]

(* A frame of the recursion.  A call visits a path once, so the frames of  *)
(* a call are one per path, linked by up.                                  *)
FrameRec ==
  [pc : {"none", "raw", "read", "drain", "walk", "parsed", "includes", "back"},
   incs : SUBSET Path,       \* the fragments to take the path off
   todo : SUBSET Path,       \* the drained dependents
   up : Path \cup {Nil}]

NoFrame == [pc |-> "none", incs |-> {}, todo |-> {}, up |-> Nil]

InvRec == [at : Path \cup {Nil}, visited : SUBSET Path,
           frame : [Path -> FrameRec], ver : Ver]

Quiet == [at |-> Nil, visited |-> {}, frame |-> [p \in Path |-> NoFrame],
          ver |-> 0]

Blank == [deps |-> {}, got |-> Unread, done |-> FALSE, lock |-> Nil,
          raced |-> FALSE]

SchemaInit ==
  /\ disk = Zero
  /\ floor = Zero
  /\ raw = [p \in Path |-> Nil]
  /\ parsed = [p \in Path |-> Nil]
  /\ entry = [x \in Entry |-> Blank]
  /\ includes = [p \in Path |-> {}]
  /\ dependents = [p \in Path |-> {}]
  /\ reader = [r \in Reader |-> Idle]
  /\ inv = Quiet
  /\ overlap = FALSE

-----------------------------------------------------------------------------
(* A check of a host document whose schema is s (dispatchSingleFileSchema). *)

(* A file is read as it is when it is read, or, when it is open in the     *)
(* editor, as it was when the check took its snapshot of the buffers.      *)
Readable(r, p) == {disk[p], reader[r].view[p]}

BeginCheck(r, s) ==
  /\ reader[r].pc = "idle"
  /\ reader' = [reader EXCEPT ![r] =
       [Idle EXCEPT !.pc = "raw", !.schema = s, !.view = disk, !.from = floor,
                    !.raced = inv.at # Nil]]
  /\ overlap' = (overlap \/ inv.at # Nil)
  /\ UNCHANGED <<disk, floor, raw, parsed, entry, includes, dependents, inv>>

(* cachedRawSchema.                                                        *)
ReadRaw(r) ==
  LET s == reader[r].schema
      read == [ver : Readable(r, s), raced : {reader[r].raced}] IN
  /\ reader[r].pc = "raw"
  /\ \E b \in IF raw[s] # Nil THEN {raw[s]} ELSE read :
       /\ raw' = [raw EXCEPT ![s] = b]
       /\ reader' = [reader EXCEPT ![r].pc = "load", ![r].data = b.ver,
                                   ![r].raced = @ \/ b.raced]
  /\ UNCHANGED <<disk, floor, parsed, entry, includes, dependents, inv, overlap>>

Unused == {x \in Entry : /\ \A p \in Path : x # parsed[p]
                         /\ \A r \in Reader : x # reader[r].ref}

Fresh == CHOOSE x \in Unused : TRUE

(* load: the schema's entry, or a new one put in the map.                  *)
Load(r) ==
  LET s == reader[r].schema IN
  /\ reader[r].pc = "load"
  /\ IF parsed[s] # Nil
     THEN /\ reader' = [reader EXCEPT ![r].pc = "lock", ![r].ref = parsed[s]]
          /\ UNCHANGED <<parsed, entry>>
     ELSE /\ Unused # {}
          /\ parsed' = [parsed EXCEPT ![s] = Fresh]
          /\ entry' = [entry EXCEPT ![Fresh] = Blank]
          /\ reader' = [reader EXCEPT ![r].pc = "lock", ![r].ref = Fresh]
  /\ UNCHANGED <<disk, floor, raw, includes, dependents, inv, overlap>>

(* loadEntry: the first to take the entry's mutex parses the bytes its own *)
(* check read; the others wait and take its result.                        *)
Hit(r) ==
  /\ reader[r].pc = "lock"
  /\ entry[reader[r].ref].done
  /\ reader' = [reader EXCEPT ![r].pc = "meta", ![r].data = 0, ![r].view = Zero]
  /\ UNCHANGED <<disk, floor, raw, parsed, entry, includes, dependents, inv, overlap>>

(* A schema whose own text is broken is cached as an error, and no include *)
(* of it has been reached.                                                 *)
BeginParse(r) ==
  LET s == reader[r].schema
      c == Content[s][reader[r].data] IN
  /\ reader[r].pc = "lock"
  /\ ~entry[reader[r].ref].done
  /\ entry[reader[r].ref].lock = Nil
  /\ entry' = [entry EXCEPT ![reader[r].ref].lock = r]
  /\ reader' = [reader EXCEPT ![r].pc = "walk",
                  ![r].got = [Unread EXCEPT ![s] = reader[r].data],
                  ![r].todo = IF c.ok THEN c.incl \X {{s}} ELSE {}]
  /\ UNCHANGED <<disk, floor, raw, parsed, includes, dependents, inv, overlap>>

(* The include being expanded is a deepest one: the walk is depth first.   *)
Deepest(r, t) ==
  /\ t \in reader[r].todo
  /\ \A u \in reader[r].todo : Cardinality(u[2]) <= Cardinality(t[2])

(* Mutant: a walk that ends in an error forgets the fragment it ended at.  *)
Expand_ForgetsBroken(r, t) ==
  LET p == t[1]
      chain == t[2]
      me == reader[r] IN
  /\ me.pc = "walk"
  /\ Deepest(r, t)
  /\ \E v \in IF p \in chain THEN {me.got[p]} ELSE Readable(r, p) :
     LET c == Content[p][v]
         broken == p \in chain \/ ~c.ok
         deeper == {<<q, chain \cup {p}>> : q \in c.incl} IN
     reader' = [reader EXCEPT ![r] =
       [me EXCEPT !.deps = IF broken THEN me.deps ELSE me.deps \cup {p},
                  !.got = [me.got EXCEPT ![p] = v],
                  !.todo = IF broken THEN {} ELSE (me.todo \ {t}) \cup deeper]]
  /\ UNCHANGED <<disk, floor, raw, parsed, entry, includes, dependents, inv, overlap>>

(* Mutant: an include whose path does not resolve is recorded as well.     *)
Expand_Unresolved(r, t) ==
  LET p == t[1]
      me == reader[r] IN
  /\ me.pc = "walk"
  /\ Deepest(r, t)
  /\ \E v \in Readable(r, p) :
     reader' = [reader EXCEPT ![r] =
       [me EXCEPT !.deps = me.deps \cup {IF Content[p][v].ok THEN p ELSE Nil},
                  !.got = [me.got EXCEPT ![p] = v],
                  !.todo = me.todo \ {t}]]
  /\ UNCHANGED <<disk, floor, raw, parsed, entry, includes, dependents, inv, overlap>>

(* expandSchemaInclude: a fragment already on the chain, or one that is    *)
(* missing or broken, ends the walk with an error; it has been reached all *)
(* the same.                                                               *)
Expand(r, t) ==
  LET p == t[1]
      chain == t[2]
      me == reader[r] IN
  /\ me.pc = "walk"
  /\ Deepest(r, t)
  /\ \E v \in IF p \in chain THEN {me.got[p]} ELSE Readable(r, p) :
     LET c == Content[p][v]
         deeper == {<<q, chain \cup {p}>> : q \in c.incl} IN
     reader' = [reader EXCEPT ![r] =
       [me EXCEPT !.deps = me.deps \cup {p},
                  !.got = [me.got EXCEPT ![p] =
                    IF me.got[p] # Nil /\ me.got[p] < v THEN me.got[p] ELSE v],
                  !.todo = IF p \in chain \/ ~c.ok THEN {}
                           ELSE (me.todo \ {t}) \cup deeper]]
  /\ UNCHANGED <<disk, floor, raw, parsed, entry, includes, dependents, inv, overlap>>

EndParse(r) ==
  /\ reader[r].pc = "walk"
  /\ reader[r].todo = {}
  /\ entry' = [entry EXCEPT ![reader[r].ref] =
                 [deps |-> reader[r].deps, got |-> reader[r].got, done |-> TRUE,
                  lock |-> Nil, raced |-> reader[r].raced]]
  /\ reader' = [reader EXCEPT ![r].pc = "meta", ![r].deps = {}, ![r].got = Unread,
                              ![r].data = 0, ![r].view = Zero]
  /\ UNCHANGED <<disk, floor, raw, parsed, includes, dependents, inv, overlap>>

(* registerSchemaMetadata, after every lookup, hit or miss.                *)
StoreIncludes(r) ==
  /\ reader[r].pc = "meta"
  /\ LET deps == entry[reader[r].ref].deps IN
     /\ includes' = [includes EXCEPT ![reader[r].schema] = deps]
     /\ reader' = [reader EXCEPT ![r].pc = "register", ![r].deps = deps]
  /\ UNCHANGED <<disk, floor, raw, parsed, entry, dependents, inv, overlap>>

(* registerSchemaIncludes: one fragment, under depsMu.                     *)
Register(r, f) ==
  /\ reader[r].pc = "register"
  /\ f \in reader[r].deps
  /\ dependents' = [dependents EXCEPT ![f] = @ \cup {reader[r].schema}]
  /\ reader' = [reader EXCEPT ![r].deps = @ \ {f}]
  /\ UNCHANGED <<disk, floor, raw, parsed, entry, includes, inv, overlap>>

Registered(r) ==
  /\ reader[r].pc = "register"
  /\ reader[r].deps = {}
  /\ reader' = [reader EXCEPT ![r].pc = "done"]
  /\ UNCHANGED <<disk, floor, raw, parsed, entry, includes, dependents, inv, overlap>>

EndCheck(r) ==
  /\ reader[r].pc = "done"
  /\ reader' = [reader EXCEPT ![r] = Idle]
  /\ UNCHANGED <<disk, floor, raw, parsed, entry, includes, dependents, inv, overlap>>

-----------------------------------------------------------------------------
(* A file changes, and the handler that learns of it calls Invalidate.     *)

Edit(p) ==
  /\ disk[p] < MaxVer
  /\ disk' = [disk EXCEPT ![p] = @ + 1]
  /\ UNCHANGED <<floor, raw, parsed, entry, includes, dependents, reader, inv,
                overlap>>

BeginInvalidate(p) ==
  /\ inv.at = Nil
  /\ inv' = [at |-> p, visited |-> {p}, ver |-> disk[p],
             frame |-> [Quiet.frame EXCEPT ![p].pc = "raw"]]
  /\ reader' = [r \in Reader |->
       IF reader[r].pc = "idle" THEN Idle ELSE [reader[r] EXCEPT !.raced = TRUE]]
  /\ entry' = [x \in Entry |->
       IF \E r \in Reader : reader[r].ref = x
       THEN [entry[x] EXCEPT !.raced = TRUE] ELSE entry[x]]
  /\ overlap' = (overlap \/ \E r \in Reader : reader[r].pc # "idle")
  /\ UNCHANGED <<disk, floor, raw, parsed, includes, dependents>>

At(pc) == inv.at # Nil /\ inv.frame[inv.at].pc = pc

Here == inv.frame[inv.at]

(* The frame of the running invalidate becomes f.                          *)
Goto(f) == inv' = [inv EXCEPT !.frame[inv.at] = f]

(* Mutant: the raw bytes stay.                                             *)
DropRaw_Keeps ==
  /\ At("raw")
  /\ Goto([Here EXCEPT !.pc = "read"])
  /\ UNCHANGED <<disk, floor, raw, parsed, entry, includes, dependents, reader, overlap>>

DropRaw ==
  /\ At("raw")
  /\ raw' = [raw EXCEPT ![inv.at] = Nil]
  /\ Goto([Here EXCEPT !.pc = "read"])
  /\ UNCHANGED <<disk, floor, parsed, entry, includes, dependents, reader, overlap>>

(* Mutant: the metadata is looked for after it has been dropped.           *)
ReadIncludes_TooLate ==
  /\ At("read")
  /\ Goto([Here EXCEPT !.pc = "drain"])
  /\ UNCHANGED <<disk, floor, raw, parsed, entry, includes, dependents, reader, overlap>>

(* evictSchemaArtifacts.                                                   *)
ReadIncludes ==
  /\ At("read")
  /\ Goto([Here EXCEPT !.pc = "drain", !.incs = includes[inv.at]])
  /\ UNCHANGED <<disk, floor, raw, parsed, entry, includes, dependents, reader, overlap>>

(* invalidateDependents: a fragment nobody registered with has no set.     *)
Drain ==
  /\ At("drain")
  /\ LET deps == dependents[inv.at] IN
     Goto([Here EXCEPT !.todo = deps, !.pc = IF deps = {} THEN "parsed" ELSE "walk"])
  /\ UNCHANGED <<disk, floor, raw, parsed, entry, includes, dependents, reader, overlap>>

(* Mutant: no visited set.                                                 *)
Recurse_NotVisited(d) ==
  /\ At("walk")
  /\ d \in Here.todo
  /\ LET rest == [inv.frame EXCEPT ![inv.at].todo = @ \ {d}] IN
     inv' = [inv EXCEPT !.at = d,
               !.frame = [rest EXCEPT ![d] =
                            [NoFrame EXCEPT !.pc = "raw", !.up = inv.at]]]
  /\ UNCHANGED <<disk, floor, raw, parsed, entry, includes, dependents, reader, overlap>>

(* The recursive call on one drained dependent, unless it was visited.     *)
Recurse(d) ==
  /\ At("walk")
  /\ d \in Here.todo
  /\ LET rest == [inv.frame EXCEPT ![inv.at].todo = @ \ {d}] IN
     inv' = IF d \in inv.visited THEN [inv EXCEPT !.frame = rest]
            ELSE [inv EXCEPT !.at = d, !.visited = @ \cup {d},
                    !.frame = [rest EXCEPT ![d] =
                                 [NoFrame EXCEPT !.pc = "raw", !.up = inv.at]]]
  /\ UNCHANGED <<disk, floor, raw, parsed, entry, includes, dependents, reader, overlap>>

DropDependents ==
  /\ At("walk")
  /\ Here.todo = {}
  /\ dependents' = [dependents EXCEPT ![inv.at] = {}]
  /\ Goto([Here EXCEPT !.pc = "parsed"])
  /\ UNCHANGED <<disk, floor, raw, parsed, entry, includes, reader, overlap>>

DropParsed ==
  /\ At("parsed")
  /\ parsed' = [parsed EXCEPT ![inv.at] = Nil]
  /\ Goto([Here EXCEPT !.pc = "includes"])
  /\ UNCHANGED <<disk, floor, raw, entry, includes, dependents, reader, overlap>>

DropIncludes ==
  /\ At("includes")
  /\ includes' = [includes EXCEPT ![inv.at] = {}]
  /\ Goto([Here EXCEPT !.pc = "back"])
  /\ UNCHANGED <<disk, floor, raw, parsed, entry, dependents, reader, overlap>>

(* dropDependentBackPointers: one fragment, under depsMu.                  *)
DropBackPointer(f) ==
  /\ At("back")
  /\ f \in Here.incs
  /\ dependents' = [dependents EXCEPT ![f] = @ \ {inv.at}]
  /\ Goto([Here EXCEPT !.incs = @ \ {f}])
  /\ UNCHANGED <<disk, floor, raw, parsed, entry, includes, reader, overlap>>

(* invalidate returns, to the call that made it or out of Invalidate.      *)
Return ==
  /\ At("back")
  /\ Here.incs = {}
  /\ LET p == inv.at IN
     IF Here.up # Nil
     THEN /\ inv' = [inv EXCEPT !.at = Here.up, !.frame[p] = NoFrame]
          /\ UNCHANGED floor
     ELSE /\ inv' = Quiet
          /\ floor' = [floor EXCEPT ![p] = IF @ < inv.ver THEN inv.ver ELSE @]
  /\ UNCHANGED <<disk, raw, parsed, entry, includes, dependents, reader, overlap>>

-----------------------------------------------------------------------------
ReaderStep(r) ==
  \/ ReadRaw(r) \/ Load(r) \/ Hit(r) \/ BeginParse(r)
  \/ \E t \in reader[r].todo : Expand(r, t)
  \/ EndParse(r) \/ StoreIncludes(r)
  \/ \E f \in Path : Register(r, f)
  \/ Registered(r) \/ EndCheck(r)

DropStep ==
  \/ DropRaw \/ ReadIncludes \/ Drain
  \/ \E d \in Path : Recurse(d)
  \/ DropDependents \/ DropParsed \/ DropIncludes
  \/ \E f \in Path : DropBackPointer(f)
  \/ Return

SchemaNext ==
  \/ \E r \in Reader : ReaderStep(r) \/ \E s \in Schema : BeginCheck(r, s)
  \/ \E p \in Path : Edit(p) \/ BeginInvalidate(p)
  \/ DropStep

SchemaSpec == SchemaInit /\ [][SchemaNext]_schemaVars

(* The goroutine of the handler runs when it can.                          *)
FairSpec == SchemaSpec /\ WF_schemaVars(DropStep)

-----------------------------------------------------------------------------
(* The variables hold what their declarations say.                         *)
SchemaTypeOK ==
  /\ disk \in Vers
  /\ floor \in Vers
  /\ raw \in [Path -> [ver : Ver, raced : BOOLEAN] \cup {Nil}]
  /\ parsed \in [Path -> Entry \cup {Nil}]
  /\ entry \in [Entry -> EntryRec]
  /\ includes \in [Path -> SUBSET Path]
  /\ dependents \in [Path -> SUBSET Path]
  /\ reader \in [Reader -> ReaderRec]
  /\ inv \in InvRec
  /\ overlap \in BOOLEAN

(* No file was read for the answer in a version older than the last        *)
(* Invalidate of it before the check began.                                *)
AnswerIsFresh(r) ==
  LET got == entry[reader[r].ref].got IN
  \A p \in Path : got[p] # Nil => got[p] >= reader[r].from[p]

(* A parse is never served past the Invalidate of any file it was made     *)
(* from, however deep in the include graph, on whatever path through other *)
(* schemas, and though the parse ended in an error, unless some Invalidate *)
(* overlapped the check that made it or read its bytes.                    *)
OnlyRacesAreStale ==
  \A r \in Reader :
    reader[r].pc = "done" /\ ~entry[reader[r].ref].raced => AnswerIsFresh(r)

AtRest == inv = Quiet /\ \A r \in Reader : reader[r].pc = "idle"

Cached(s) == parsed[s] # Nil /\ entry[parsed[s]].done

(* While no check has been overlapped by an Invalidate, the index says     *)
(* exactly which cached schemas reached which fragments: no back-pointer   *)
(* of an evicted schema is left behind, and none is missing.               *)
IndexIsExact ==
  AtRest /\ ~overlap =>
    \A f \in Path :
      dependents[f] = {s \in Path : Cached(s) /\ f \in entry[parsed[s]].deps}

(* The claim of ParsedSchema's comment that the Invalidate of a fragment   *)
(* evicts every schema that reached it, closing the stale-fragment gap: no *)
(* check that begins after it sees the old fragment.                       *)
FragmentEvicts == \A r \in Reader : reader[r].pc = "done" => AnswerIsFresh(r)

(* The claim of TestRunCache_RegisterInvalidateRaceDoesNotLoseDependents:  *)
(* a schema that is cached, its registration over, is in the dependent set *)
(* of every fragment it reached.                                           *)
NoDependentIsLost ==
  AtRest => \A s \in Path : Cached(s) =>
    \A f \in entry[parsed[s]].deps : s \in dependents[f]

(* An Invalidate returns, though the include graph has a cycle.            *)
InvalidateReturns == inv.at # Nil ~> inv.at = Nil
=============================================================================
