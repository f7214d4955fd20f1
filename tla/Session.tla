------------------------------- MODULE Session -------------------------------
(***************************************************************************)
(* mdsmith.Session: the workspace's open buffers, and the three caches a   *)
(* check goes through (results by content, parses by version, cross-file   *)
(* reads), under concurrent checks and the Invalidate that follows an      *)
(* edit.                                                                   *)
(*                                                                         *)
(* The content of a document is its number.  A check of one document reads *)
(* every other one.  A slot of the read cache is looked up or filled in    *)
(* one step (RunCache has its steps), and so is the parse cache, whose     *)
(* operations hold its mutex.                                              *)
(***************************************************************************)
EXTENDS ParseCache

CONSTANTS
  Doc,     \* documents
  Caller,  \* goroutines that check
  Method,  \* the entry points they use: "Check", "CheckVersion"
  MaxVer   \* bound on the contents of a document

ASSUME SessionAssumption ==
  /\ Method \subseteq {"Check", "CheckVersion"}
  /\ MaxVer \in Nat
  /\ None \notin Doc

VARIABLES
  buffer,     \* the workspace: each document's bytes
  slots,      \* runCache: what cross-file rules have read of each document
  parses,     \* parseCache: each document's slot
  checkCache, \* the last result of each document's Check
  disposed,   \* checkCache is nil
  call,       \* where each caller stands
  inv,        \* the Invalidate under way
  floor,      \* history: the content vouched for by the last Invalidate
  overlapped, \* history: documents whose last Invalidate a check overlapped
  pinned      \* history: documents whose last Invalidate left a parse that
              \* holds an older snapshot of them

sessionVars == <<buffer, slots, parses, checkCache, disposed, call, inv, floor,
          overlapped, pinned>>

Ver == 0..MaxVer
Vers == [Doc -> Ver]
Zero == [d \in Doc |-> 0]

(* A parsed file holds the snapshot of the workspace its rules read by.    *)
File == [src : Ver, fs : Vers]

ResultRec == [hash : Ver, got : Vers]

CallRec ==
  [pc : {"idle", "cache", "snapshot", "parse", "put", "read", "store", "done"},
   method : Method \cup {None},
   host : Doc \cup {None},
   src : Ver,              \* the bytes to check
   fs : Vers,              \* the workspace as its rules see it
   todo : SUBSET Doc,      \* documents yet to read
   got : Vers,             \* what was read of each
   from : Vers]            \* history: floor when the call began

NoCall == [pc |-> "idle", method |-> None, host |-> None, src |-> 0, fs |-> Zero,
           todo |-> {}, got |-> Zero, from |-> Zero]

Resting == [pc |-> "idle", doc |-> None]

SessionInit ==
  /\ buffer = Zero
  /\ slots = [d \in Doc |-> None]
  /\ parses = [d \in Doc |-> NoSlot]
  /\ checkCache = [d \in Doc |-> None]
  /\ disposed = FALSE
  /\ call = [c \in Caller |-> NoCall]
  /\ inv = Resting
  /\ floor = Zero
  /\ overlapped = {}
  /\ pinned = {}

-----------------------------------------------------------------------------
(* Check and CheckVersion, on a document's current bytes.                  *)

Begin(c, h, method) ==
  /\ call[c].pc = "idle"
  /\ call' = [call EXCEPT ![c] =
       [NoCall EXCEPT !.pc = IF method = "Check" THEN "cache" ELSE "snapshot",
          !.method = method, !.host = h, !.src = buffer[h],
          !.todo = Doc \ {h}, !.got = [Zero EXCEPT ![h] = buffer[h]],
          !.from = [floor EXCEPT ![h] = 0]]]
  /\ overlapped' = IF inv.pc = "idle" THEN overlapped ELSE overlapped \cup {inv.doc}
  /\ UNCHANGED <<buffer, slots, parses, checkCache, disposed, inv, floor, pinned>>

(* Check looks for a result for the same bytes.                            *)
LookInCache(c) ==
  LET h == call[c].host
      old == checkCache[h] IN
  /\ call[c].pc = "cache"
  /\ call' = [call EXCEPT ![c] =
       IF ~disposed /\ old # None /\ old.hash = call[c].src
       THEN [call[c] EXCEPT !.pc = "done", !.got = old.got, !.todo = {}]
       ELSE [call[c] EXCEPT !.pc = "snapshot"]]
  /\ UNCHANGED <<buffer, slots, parses, checkCache, disposed, inv, floor, overlapped,
                 pinned>>

(* newRunner; Check then parses without the parse cache.                   *)
Snapshot(c) ==
  /\ call[c].pc = "snapshot"
  /\ call' = [call EXCEPT ![c].fs = buffer,
       ![c].pc = IF call[c].method = "Check" THEN "read" ELSE "parse"]
  /\ UNCHANGED <<buffer, slots, parses, checkCache, disposed, inv, floor, overlapped,
                 pinned>>

(* parseForSource: contents are numbered as the editor's versions are.     *)
Parse(c) ==
  LET hit == Get(parses[call[c].host], call[c].src) IN
  /\ call[c].pc = "parse"
  /\ call' = [call EXCEPT ![c].pc = IF hit # None THEN "read" ELSE "put",
                          ![c].fs = IF hit # None THEN hit.fs ELSE @]
  /\ UNCHANGED <<buffer, slots, parses, checkCache, disposed, inv, floor, overlapped,
                 pinned>>

PutParse(c) ==
  LET h == call[c].host
      file == [src |-> call[c].src, fs |-> call[c].fs] IN
  /\ call[c].pc = "put"
  /\ parses' = [parses EXCEPT ![h] = Put(@, call[c].src, file)]
  /\ call' = [call EXCEPT ![c].pc = "read"]
  /\ UNCHANGED <<buffer, slots, checkCache, disposed, inv, floor, overlapped,
                 pinned>>

(* A cross-file rule reads another document through the read cache, which  *)
(* a miss fills through the file's own view of the workspace.              *)
Read(c, d) ==
  LET v == IF slots[d] # None THEN slots[d] ELSE call[c].fs[d] IN
  /\ call[c].pc = "read"
  /\ d \in call[c].todo
  /\ slots' = [slots EXCEPT ![d] = v]
  /\ call' = [call EXCEPT ![c].todo = @ \ {d}, ![c].got[d] = v]
  /\ UNCHANGED <<buffer, parses, checkCache, disposed, inv, floor, overlapped,
                 pinned>>

EndRead(c) ==
  /\ call[c].pc = "read"
  /\ call[c].todo = {}
  /\ call' = [call EXCEPT ![c].fs = Zero,
       ![c].pc = IF call[c].method = "Check" THEN "store" ELSE "done"]
  /\ UNCHANGED <<buffer, slots, parses, checkCache, disposed, inv, floor, overlapped,
                 pinned>>

StoreResult(c) ==
  LET h == call[c].host IN
  /\ call[c].pc = "store"
  /\ checkCache' = IF disposed THEN checkCache
                   ELSE [checkCache EXCEPT ![h] =
                           [hash |-> call[c].src, got |-> call[c].got]]
  /\ call' = [call EXCEPT ![c].pc = "done"]
  /\ UNCHANGED <<buffer, slots, parses, disposed, inv, floor, overlapped,
                 pinned>>

Return(c) ==
  /\ call[c].pc = "done"
  /\ call' = [call EXCEPT ![c] = NoCall]
  /\ UNCHANGED <<buffer, slots, parses, checkCache, disposed, inv, floor, overlapped,
                 pinned>>

-----------------------------------------------------------------------------
(* Invalidate with content, on the handler goroutine: the buffer, then the *)
(* read cache, the parse cache, and every cached result.                   *)

SetBuffer(d) ==
  /\ inv.pc = "idle"
  /\ buffer[d] < MaxVer
  /\ buffer' = [buffer EXCEPT ![d] = @ + 1]
  /\ inv' = [pc |-> "slots", doc |-> d]
  /\ overlapped' = IF \E c \in Caller : call[c].pc # "idle"
                   THEN overlapped \cup {d} ELSE overlapped \ {d}
  /\ UNCHANGED <<slots, parses, checkCache, disposed, call, floor, pinned>>

DropSlots ==
  /\ inv.pc = "slots"
  /\ slots' = [slots EXCEPT ![inv.doc] = None]
  /\ inv' = [inv EXCEPT !.pc = "parses"]
  /\ UNCHANGED <<buffer, parses, checkCache, disposed, call, floor, overlapped,
                 pinned>>

DropParse ==
  /\ inv.pc = "parses"
  /\ parses' = [parses EXCEPT ![inv.doc] = Clear(@)]
  /\ inv' = [inv EXCEPT !.pc = "checks"]
  /\ UNCHANGED <<buffer, slots, checkCache, disposed, call, floor, overlapped,
                 pinned>>

(* Some parse in the cache holds an older snapshot of d.                   *)
Pins(d) ==
  \E h \in Doc : parses[h].file # None /\ parses[h].file.fs[d] < buffer[d]

(* Mutant: only the document's own result is dropped.                      *)
DropChecks_OwnOnly ==
  /\ inv.pc = "checks"
  /\ checkCache' = [checkCache EXCEPT ![inv.doc] = None]
  /\ inv' = Resting
  /\ floor' = [floor EXCEPT ![inv.doc] = buffer[inv.doc]]
  /\ pinned' = IF Pins(inv.doc) THEN pinned \cup {inv.doc} ELSE pinned \ {inv.doc}
  /\ UNCHANGED <<buffer, slots, parses, disposed, call, overlapped>>

DropChecks ==
  /\ inv.pc = "checks"
  /\ checkCache' = [d \in Doc |-> None]
  /\ inv' = Resting
  /\ floor' = [floor EXCEPT ![inv.doc] = buffer[inv.doc]]
  /\ pinned' = IF Pins(inv.doc) THEN pinned \cup {inv.doc} ELSE pinned \ {inv.doc}
  /\ UNCHANGED <<buffer, slots, parses, disposed, call, overlapped>>

Dispose ==
  /\ disposed' = TRUE
  /\ checkCache' = [d \in Doc |-> None]
  /\ UNCHANGED <<buffer, slots, parses, call, inv, floor, overlapped,
                 pinned>>

SessionNext ==
  \/ \E c \in Caller :
       \/ \E h \in Doc, method \in Method : Begin(c, h, method)
       \/ LookInCache(c) \/ Snapshot(c) \/ Parse(c) \/ PutParse(c)
       \/ \E d \in Doc : Read(c, d)
       \/ EndRead(c) \/ StoreResult(c) \/ Return(c)
  \/ \E d \in Doc : SetBuffer(d)
  \/ DropSlots \/ DropParse \/ DropChecks \/ Dispose

SessionSpec == SessionInit /\ [][SessionNext]_sessionVars

-----------------------------------------------------------------------------
(* The variables hold what their declarations say.                         *)
SessionTypeOK ==
  /\ buffer \in Vers
  /\ slots \in [Doc -> Ver \cup {None}]
  /\ parses \in [Doc -> SlotRec(File, 0..MaxVer + 1)]
  /\ checkCache \in [Doc -> ResultRec \cup {None}]
  /\ disposed \in BOOLEAN
  /\ call \in [Caller -> CallRec]
  /\ inv \in [pc : {"idle", "slots", "parses", "checks"}, doc : Doc \cup {None}]
  /\ floor \in Vers
  /\ overlapped \subseteq Doc
  /\ pinned \subseteq Doc

Fresh(c, D) ==
  call[c].pc = "done" => \A d \in D : call[c].got[d] >= call[c].from[d]

(* What a check says about a document is never older than the Invalidate   *)
(* that returned before it began, through all three caches and whatever    *)
(* went wrong before, once the document's last Invalidate ran with no      *)
(* check in flight and left no parse that holds an older snapshot of it:   *)
(* such an Invalidate heals the session.                                   *)
QuietInvalidateHeals == \A c \in Caller : Fresh(c, Doc \ (overlapped \cup pinned))

(* The claim of Invalidate's comment that the next cross-file Check reads  *)
(* the new bytes and correctness after an edit wins over reuse.            *)
CheckIsFresh == \A c \in Caller : call[c].method = "Check" => Fresh(c, Doc)

(* The claim of newRunner's comment that the snapshot is taken per call,   *)
(* so that an edit applied through Invalidate is visible to the next       *)
(* operation; here, with no call in flight during the Invalidate.          *)
NextOperationSees ==
  \A c \in Caller : call[c].method = "CheckVersion" => Fresh(c, Doc \ overlapped)
=============================================================================
