--------------------------- MODULE DocumentParses ---------------------------
(***************************************************************************)
(* The life of one document in the language server, as its parse cache     *)
(* sees it: the handlers open, change, save and close it on one goroutine, *)
(* and lints on goroutines of their own look its parse up, or parse and    *)
(* put, at the version they read when they began.                          *)
(*                                                                         *)
(* The client numbers the versions of a document upwards from 1 while it   *)
(* is open, and from 1 again when it is reopened, so a text is an opening  *)
(* and a version.                                                          *)
(***************************************************************************)
EXTENDS ParseCache

CONSTANTS
  Lint,        \* lint goroutines
  MaxVersion,  \* bound on the versions of one opening
  MaxOpens     \* bound on the openings

ASSUME ConstantsAssumption ==
  /\ MaxVersion \in Nat \ {0}
  /\ MaxOpens \in Nat
  /\ None \notin [opening : 1..MaxOpens, version : 1..MaxVersion]

VARIABLES
  doc,     \* the document in the store
  slot,    \* the document's slot in the cache
  hand,    \* the handler goroutine: idle, or about to invalidate
  lint,    \* where each lint stands
  cleared, \* history: the highest version of a parse an Invalidate cleared
  stored,  \* history: the version last put by a lint no Invalidate overlapped,
           \* since the last Invalidate
  late     \* history: a lint has put its parse after its document was closed

vars == <<doc, slot, hand, lint, cleared, stored, late>>

Version == 0..MaxVersion + 1
Text == [opening : 1..MaxOpens, version : 1..MaxVersion]

LintRec ==
  [pc : {"idle", "get", "put", "check"},
   text : Text \cup {None},  \* what it read from the store
   file : Text \cup {None},  \* the text its parse is of
   alone : BOOLEAN,          \* history: no Invalidate since it began
   again : BOOLEAN]          \* history: it missed a parse that had been put

NoLint == [pc |-> "idle", text |-> None, file |-> None, alone |-> FALSE,
           again |-> FALSE]

Init ==
  /\ doc = [open |-> FALSE, opening |-> 0, version |-> 0]
  /\ slot = NoSlot
  /\ hand = "idle"
  /\ lint = [l \in Lint |-> NoLint]
  /\ cleared = 0
  /\ stored = 0
  /\ late = FALSE

-----------------------------------------------------------------------------
(* The handlers.  Each changes the store first and invalidates afterwards. *)

DidOpen ==
  /\ hand = "idle"
  /\ ~doc.open
  /\ doc.opening < MaxOpens
  /\ doc' = [open |-> TRUE, opening |-> doc.opening + 1, version |-> 1]
  /\ hand' = "invalidate"
  /\ UNCHANGED <<slot, lint, cleared, stored, late>>

DidChange ==
  /\ hand = "idle"
  /\ doc.open
  /\ \E v \in doc.version + 1..MaxVersion : doc' = [doc EXCEPT !.version = v]
  /\ hand' = "invalidate"
  /\ UNCHANGED <<slot, lint, cleared, stored, late>>

DidClose ==
  /\ hand = "idle"
  /\ doc.open
  /\ doc' = [doc EXCEPT !.open = FALSE]
  /\ hand' = "invalidate"
  /\ UNCHANGED <<slot, lint, cleared, stored, late>>

(* didSave of the open document, or a change on the disk of a closed one.  *)
DidSave ==
  /\ hand = "idle"
  /\ hand' = "invalidate"
  /\ UNCHANGED <<doc, slot, lint, cleared, stored, late>>

(* Session.Invalidate reaches the parse cache.                             *)
Invalidate ==
  /\ hand = "invalidate"
  /\ slot' = Clear(slot)
  /\ cleared' = IF slot.held /\ slot.version > cleared THEN slot.version ELSE cleared
  /\ stored' = 0
  /\ lint' = [l \in Lint |-> [lint[l] EXCEPT !.alone = FALSE]]
  /\ hand' = "idle"
  /\ UNCHANGED <<doc, late>>

-----------------------------------------------------------------------------
(* A lint.                                                                 *)

(* runLint copies the document out of the store.                           *)
Start(l) ==
  /\ lint[l].pc = "idle"
  /\ doc.open
  /\ lint' = [lint EXCEPT ![l] =
       [NoLint EXCEPT !.pc = "get", !.alone = TRUE,
          !.text = [opening |-> doc.opening, version |-> doc.version]]]
  /\ UNCHANGED <<doc, slot, hand, cleared, stored, late>>

(* parseForSource: a hit, or a parse of the text the lint holds.           *)
Lookup(l) ==
  LET v == lint[l].text.version
      hit == Get(slot, v) IN
  /\ lint[l].pc = "get"
  /\ lint' = [lint EXCEPT
       ![l].pc = IF hit # None THEN "check" ELSE "put",
       ![l].file = IF hit # None THEN hit ELSE lint[l].text,
       ![l].again = (hit = None /\ stored = v)]
  /\ UNCHANGED <<doc, slot, hand, cleared, stored, late>>

Store(l) ==
  LET v == lint[l].text.version IN
  /\ lint[l].pc = "put"
  /\ slot' = Put(slot, v, lint[l].file)
  /\ stored' = IF lint[l].alone THEN v ELSE stored
  /\ late' = (late \/ ~doc.open \/ doc.opening # lint[l].text.opening)
  /\ lint' = [lint EXCEPT ![l].pc = "check"]
  /\ UNCHANGED <<doc, hand, cleared>>

(* The rules run on the parse, and the lint ends.                          *)
Finish(l) ==
  /\ lint[l].pc = "check"
  /\ lint' = [lint EXCEPT ![l] = NoLint]
  /\ UNCHANGED <<doc, slot, hand, cleared, stored, late>>

Next ==
  \/ DidOpen \/ DidChange \/ DidClose \/ DidSave \/ Invalidate
  \/ \E l \in Lint : Start(l) \/ Lookup(l) \/ Store(l) \/ Finish(l)

Spec == Init /\ [][Next]_vars

-----------------------------------------------------------------------------
(* The variables hold what their declarations say.                         *)
TypeOK ==
  /\ doc \in [open : BOOLEAN, opening : 0..MaxOpens, version : 0..MaxVersion]
  /\ doc.open => doc.opening > 0 /\ doc.version > 0
  /\ slot \in SlotRec(Text, Version)
  /\ hand \in {"idle", "invalidate"}
  /\ lint \in [Lint -> LintRec]
  /\ cleared \in Version
  /\ stored \in Version
  /\ late \in BOOLEAN

(* The parse in the slot is of a version above every parse an Invalidate   *)
(* has cleared, whatever lints of older versions finish afterwards ("A     *)
(* late parse for the just-cleared version cannot re-insert a stale        *)
(* *File").                                                                *)
WatermarkHolds == slot.file # None => slot.version > cleared

(* A lint of the document as it is now open checks the text it read.       *)
HitIsOwn(l) ==
  lint[l].pc = "check" /\ doc.open /\ lint[l].text.opening = doc.opening
    => lint[l].file = lint[l].text

(* A lint of the open document checks the parse of the very text it read,  *)
(* whatever the order of its steps and the handlers', unless some lint has *)
(* put its parse after its document was closed.                            *)
OnlyLatePutsMislead == ~late => \A l \in Lint : HitIsOwn(l)

(* The claim of handleDidClose's comment that dropping the parse at the    *)
(* close serves the reopening, which lands at version 1 again.             *)
HitIsOwnText == \A l \in Lint : HitIsOwn(l)

(* The claim of CheckVersion's comment: the parse cache serves the parsed  *)
(* document when a prior call already parsed this version (and nothing     *)
(* was invalidated since that call began).                                 *)
SecondCheckHits == \A l \in Lint : ~lint[l].again
=============================================================================
