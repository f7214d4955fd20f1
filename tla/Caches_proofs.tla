---------------------------- MODULE Caches_proofs ----------------------------
(***************************************************************************)
(* What two caches keep true.  DocumentParses, for every number of lints,  *)
(* versions and openings: its types, the watermark, and that only a late   *)
(* put lets a lint check another text than its own.  SchemaCache, for      *)
(* every include graph and any files, checks and entries: its types, that  *)
(* only a parse which raced an Invalidate is served stale, and that the    *)
(* reverse-include index is exact while nothing races.                     *)
(***************************************************************************)
EXTENDS DocumentParses, SchemaCache, TLAPS

-----------------------------------------------------------------------------
(* The slot under an arbitrary put and clear.                              *)

(* The slot against the highest version cleared: a tombstone accepts only  *)
(* newer versions, and a parse replaced one that was older or equal.       *)
SlotOK(s, c) ==
  /\ ~s.held => s.file = None /\ c = 0
  /\ s.held => s.version \in 1..MaxVersion
  /\ s.held /\ s.file = None => s.min = s.version + 1 /\ c <= s.version
  /\ s.file # None => /\ s.min = s.version /\ c < s.version
                      /\ s.file.version = s.version

(* No parse is a text.                                                     *)
LEMMA NoneIsNoText == None \notin Text
BY ConstantsAssumption DEF Text

(* A put keeps the slot right, and leaves it or stores what it is given.   *)
LEMMA PutKeeps ==
  ASSUME NEW s \in SlotRec(Text, Version), NEW c \in Version, SlotOK(s, c),
         NEW file \in Text
  PROVE  LET t == Put(s, file.version, file) IN
         /\ t \in SlotRec(Text, Version)
         /\ SlotOK(t, c)
         /\ t = s \/ t.file = file
<1>1. /\ file.version \in 1..MaxVersion
      /\ file # None
      /\ MaxVersion \in Nat
  BY NoneIsNoText, ConstantsAssumption DEF Text
<1>2. CASE s.held /\ file.version < s.min
  BY <1>2 DEF Put
<1>3. CASE ~(s.held /\ file.version < s.min)
  <2> DEFINE t == [held |-> TRUE, version |-> file.version, file |-> file,
                   min |-> file.version]
  <2>1. Put(s, file.version, file) = t
    BY <1>3 DEF Put
  <2>2. t \in SlotRec(Text, Version)
    BY <1>1 DEF SlotRec, Version
  <2>3. c < file.version
    BY <1>1, <1>3 DEF SlotOK, SlotRec, Version
  <2>4. SlotOK(t, c)
    BY <1>1, <2>3 DEF SlotOK
  <2> QED BY <2>1, <2>2, <2>4
<1> QED BY <1>2, <1>3

(* A clear leaves no parse, and the slot is right against the version it   *)
(* has cleared.                                                            *)
LEMMA ClearKeeps ==
  ASSUME NEW s \in SlotRec(Text, Version), NEW c \in Version, SlotOK(s, c)
  PROVE  LET d == IF s.held /\ s.version > c THEN s.version ELSE c IN
         /\ d \in Version
         /\ Clear(s) \in SlotRec(Text, Version)
         /\ SlotOK(Clear(s), d)
         /\ Clear(s).file = None
<1>1. CASE ~s.held
  BY <1>1 DEF Clear, SlotOK
<1>2. CASE s.held
  <2> DEFINE t == [held |-> TRUE, version |-> s.version, file |-> None,
                   min |-> s.version + 1]
             d == IF s.version > c THEN s.version ELSE c
  <2>1. Clear(s) = t
    BY <1>2 DEF Clear, SlotRec
  <2>2. s.version \in 1..MaxVersion /\ MaxVersion \in Nat
    BY <1>2, ConstantsAssumption DEF SlotOK
  <2>3. t \in SlotRec(Text, Version) /\ d \in Version
    <3>1. s.version \in Version /\ s.version + 1 \in Version
      BY <2>2 DEF Version
    <3> QED BY <3>1 DEF SlotRec
  <2>4. c <= s.version
    BY <1>2, <2>2 DEF SlotOK, SlotRec, Version
  <2>5. SlotOK(t, d) /\ t.file = None
    BY <1>2, <2>2, <2>4 DEF SlotOK, SlotRec, Version
  <2>6. (IF s.held /\ s.version > c THEN s.version ELSE c) = d
    BY <1>2
  <2> HIDE DEF t, d
  <2> QED BY <2>1, <2>3, <2>5, <2>6
<1> QED BY <1>1, <1>2

-----------------------------------------------------------------------------
(* The inductive invariant.                                                *)

(* What a lint holds: a text of an opening that has begun, and to put, the *)
(* parse of that very text.                                                *)
LintOK(l) ==
  /\ lint[l].pc # "idle" => /\ lint[l].text \in Text
                            /\ lint[l].text.opening <= doc.opening
  /\ lint[l].pc # "idle" /\ lint[l].pc # "get" => lint[l].file \in Text
  /\ lint[l].pc = "put" => lint[l].file = lint[l].text

(* Without a late put, a parse in the slot is of the opening under way, or *)
(* of the one that has just ended and is about to be invalidated.          *)
SlotIsOwn ==
  ~late /\ slot.file # None =>
    /\ slot.file.opening = doc.opening
    /\ doc.open \/ hand = "invalidate"

IInv ==
  /\ TypeOK
  /\ SlotOK(slot, cleared)
  /\ \A l \in Lint : LintOK(l)
  /\ SlotIsOwn
  /\ OnlyLatePutsMislead

LEMMA InitIInv == Init => IInv
<1> SUFFICES ASSUME Init PROVE IInv
  OBVIOUS
<1>1. NoSlot \in SlotRec(Text, Version) /\ MaxVersion \in Nat /\ MaxOpens \in Nat
  BY ConstantsAssumption DEF NoSlot, SlotRec, Version
<1>2. NoLint \in LintRec
  BY DEF NoLint, LintRec
<1>3. TypeOK
  <2>1. doc \in [open : BOOLEAN, opening : 0..MaxOpens, version : 0..MaxVersion]
    BY <1>1 DEF Init
  <2>2. 0 \in Version
    BY <1>1 DEF Version
  <2> QED BY <1>1, <1>2, <2>1, <2>2 DEF Init, TypeOK
<1>4. SlotOK(slot, cleared) /\ SlotIsOwn
  BY DEF Init, SlotOK, NoSlot, SlotIsOwn
<1>5. ASSUME NEW l \in Lint PROVE LintOK(l) /\ HitIsOwn(l)
  BY DEF Init, NoLint, LintOK, HitIsOwn
<1> QED BY <1>3, <1>4, <1>5 DEF IInv, OnlyLatePutsMislead

(* A handler that changes the document leaves the rest as it is.           *)
LEMMA HandlerStep ==
  ASSUME IInv, hand = "idle", DidOpen \/ DidChange \/ DidClose \/ DidSave
  PROVE  IInv'
<1> USE DEF IInv
<1>1. MaxVersion \in Nat \ {0} /\ MaxOpens \in Nat
  BY ConstantsAssumption
<1>2. /\ UNCHANGED <<slot, lint, cleared, stored, late>>
      /\ hand' = "invalidate"
  BY DEF DidOpen, DidChange, DidClose, DidSave
<1>3. /\ doc' \in [open : BOOLEAN, opening : 0..MaxOpens, version : 0..MaxVersion]
      /\ doc'.open => doc'.opening > 0 /\ doc'.version > 0
      /\ doc'.opening \in Nat /\ doc.opening \in Nat
      /\ \/ ~doc.open /\ doc'.opening = doc.opening + 1
         \/ doc'.opening = doc.opening /\ (doc'.open => doc.open)
  <2>1. /\ doc \in [open : BOOLEAN, opening : 0..MaxOpens, version : 0..MaxVersion]
        /\ doc.open => doc.opening > 0 /\ doc.version > 0
    BY DEF TypeOK
  <2> HIDE DEF IInv
  <2>2. CASE DidOpen
    BY <1>1, <2>1, <2>2 DEF DidOpen
  <2>3. CASE DidChange
    <3>1. PICK v \in doc.version + 1..MaxVersion : doc' = [doc EXCEPT !.version = v]
      BY <2>3 DEF DidChange
    <3>2. v \in 1..MaxVersion
      BY <1>1, <2>1, <3>1
    <3> QED BY <1>1, <2>1, <2>3, <3>1, <3>2 DEF DidChange
  <2>4. CASE DidClose
    <3>1. doc' = [doc EXCEPT !.open = FALSE]
      BY <2>4 DEF DidClose
    <3>2. /\ doc' \in [open : BOOLEAN, opening : 0..MaxOpens, version : 0..MaxVersion]
          /\ doc'.open = FALSE
          /\ doc'.opening = doc.opening
      BY <2>1, <3>1
    <3>3. doc.opening \in Nat
      BY <1>1, <2>1
    <3> QED BY <3>2, <3>3
  <2>5. CASE DidSave
    BY <1>1, <2>1, <2>5 DEF DidSave
  <2> QED BY <2>2, <2>3, <2>4, <2>5
<1>4. TypeOK'
  BY <1>2, <1>3 DEF TypeOK
<1>5. SlotOK(slot, cleared)'
  BY <1>2 DEF SlotOK
<1>6. ASSUME NEW l \in Lint PROVE LintOK(l)'
  <2>1. LintOK(l)
    OBVIOUS
  <2>2. lint[l].text \in Text => lint[l].text.opening \in Nat
    BY <1>1 DEF Text
  <2> QED BY <1>2, <1>3, <2>1, <2>2 DEF LintOK
<1>7. SlotIsOwn'
  <2>1. CASE ~doc.open
    <3>1. late \/ slot.file = None
      BY <2>1 DEF SlotIsOwn
    <3> QED BY <3>1, <1>2 DEF SlotIsOwn
  <2>2. CASE doc.open
    BY <2>2, <1>2, <1>3 DEF SlotIsOwn
  <2> QED BY <2>1, <2>2
<1>8. ASSUME ~late', NEW l \in Lint PROVE HitIsOwn(l)'
  <2>1. LintOK(l) /\ HitIsOwn(l)
    BY <1>2, <1>8 DEF OnlyLatePutsMislead
  <2>2. lint[l].text \in Text => lint[l].text.opening \in Nat
    BY <1>1 DEF Text
  <2> QED BY <1>2, <1>3, <2>1, <2>2 DEF LintOK, HitIsOwn
<1> QED BY <1>4, <1>5, <1>6, <1>7, <1>8 DEF OnlyLatePutsMislead

LEMMA InvalidateStep == IInv /\ Invalidate => IInv'
<1> SUFFICES ASSUME IInv, Invalidate PROVE IInv'
  OBVIOUS
<1> USE DEF IInv
<1>1. /\ slot \in SlotRec(Text, Version) /\ cleared \in Version
      /\ SlotOK(slot, cleared)
      /\ lint \in [Lint -> LintRec]
  BY DEF TypeOK
<1>2. /\ slot' \in SlotRec(Text, Version)
      /\ cleared' \in Version
      /\ SlotOK(slot, cleared)'
      /\ slot'.file = None
  BY <1>1, ClearKeeps DEF Invalidate, SlotOK
<1>3. /\ lint' \in [Lint -> LintRec]
      /\ \A l \in Lint : /\ lint'[l].pc = lint[l].pc
                         /\ lint'[l].text = lint[l].text
                         /\ lint'[l].file = lint[l].file
  <2> HIDE DEF IInv
  <2>1. ASSUME NEW l \in Lint PROVE [lint[l] EXCEPT !.alone = FALSE] \in LintRec
    BY <1>1 DEF LintRec
  <2> QED BY <1>1, <2>1 DEF Invalidate, LintRec
<1>4. /\ UNCHANGED <<doc, late>>
      /\ stored' \in Version
      /\ hand' = "idle"
  BY ConstantsAssumption DEF Invalidate, Version
<1>5. TypeOK'
  BY <1>2, <1>3, <1>4 DEF TypeOK
<1>6. ASSUME NEW l \in Lint PROVE LintOK(l)' /\ (HitIsOwn(l) => HitIsOwn(l)')
  BY <1>3, <1>4 DEF LintOK, HitIsOwn
<1>7. SlotIsOwn'
  BY <1>2 DEF SlotIsOwn
<1> QED BY <1>2, <1>4, <1>5, <1>6, <1>7 DEF OnlyLatePutsMislead

(* A step of a lint that leaves the slot and the document as they are.     *)
LEMMA LintStep ==
  ASSUME IInv, NEW l \in Lint, NEW rec \in LintRec,
         lint' = [lint EXCEPT ![l] = rec],
         UNCHANGED <<doc, slot, hand, cleared, stored, late>>,
         LintOK(l)', ~late => HitIsOwn(l)'
  PROVE  IInv'
<1> USE DEF IInv
<1>1. lint \in [Lint -> LintRec]
  BY DEF TypeOK
<1>2. TypeOK'
  BY <1>1 DEF TypeOK
<1>3. SlotOK(slot, cleared)' /\ SlotIsOwn'
  BY DEF SlotOK, SlotIsOwn
<1>4. ASSUME NEW k \in Lint, k # l
      PROVE  LintOK(k)' /\ (HitIsOwn(k) => HitIsOwn(k)')
  BY <1>1, <1>4 DEF LintOK, HitIsOwn
<1> QED BY <1>2, <1>3, <1>4 DEF OnlyLatePutsMislead

LEMMA StartStep ==
  ASSUME IInv, NEW l \in Lint, Start(l)
  PROVE  IInv'
<1> DEFINE text == [opening |-> doc.opening, version |-> doc.version]
           rec == [NoLint EXCEPT !.pc = "get", !.alone = TRUE, !.text = text]
<1>1. /\ lint \in [Lint -> LintRec]
      /\ doc.opening \in 1..MaxOpens /\ doc.version \in 1..MaxVersion
  BY ConstantsAssumption DEF IInv, TypeOK, Start
<1>2. text \in Text /\ text.opening <= doc.opening
  BY <1>1, ConstantsAssumption DEF Text
<1> HIDE DEF text
<1>3. /\ rec \in LintRec
      /\ rec.pc = "get" /\ rec.text = text
  BY <1>2 DEF NoLint, LintRec
<1> HIDE DEF rec
<1>4. /\ lint' = [lint EXCEPT ![l] = rec]
      /\ UNCHANGED <<doc, slot, hand, cleared, stored, late>>
  BY DEF Start, rec, text
<1>5. lint'[l] = rec
  BY <1>1, <1>4
<1>6. LintOK(l)' /\ HitIsOwn(l)'
  BY <1>2, <1>3, <1>4, <1>5 DEF LintOK, HitIsOwn
<1> QED BY <1>3, <1>4, <1>6, LintStep

LEMMA LookupStep ==
  ASSUME IInv, NEW l \in Lint, Lookup(l)
  PROVE  IInv'
<1> DEFINE v == lint[l].text.version
           hit == Get(slot, v)
           rec == [lint[l] EXCEPT
                     !.pc = IF hit # None THEN "check" ELSE "put",
                     !.file = IF hit # None THEN hit ELSE lint[l].text,
                     !.again = (hit = None /\ stored = v)]
<1>1. /\ lint \in [Lint -> LintRec] /\ slot \in SlotRec(Text, Version)
      /\ SlotOK(slot, cleared) /\ SlotIsOwn
      /\ lint[l] \in LintRec /\ lint[l].pc = "get"
      /\ lint[l].text \in Text /\ lint[l].text.opening <= doc.opening
  BY DEF IInv, TypeOK, LintOK, Lookup
<1>2. hit # None => hit \in Text /\ hit = slot.file /\ hit.version = v
  BY <1>1 DEF Get, SlotRec, SlotOK
<1> HIDE DEF hit
<1>3. /\ rec \in LintRec
      /\ rec.pc = IF hit # None THEN "check" ELSE "put"
      /\ rec.text = lint[l].text
      /\ rec.file = IF hit # None THEN hit ELSE lint[l].text
  BY <1>1, <1>2 DEF LintRec
<1> HIDE DEF rec
<1>4. /\ lint' = [lint EXCEPT ![l] = rec]
      /\ UNCHANGED <<doc, slot, hand, cleared, stored, late>>
  BY <1>1 DEF Lookup, rec, hit
<1>5. lint'[l] = rec
  BY <1>1, <1>4
<1>6. LintOK(l)'
  BY <1>1, <1>2, <1>3, <1>4, <1>5 DEF LintOK
<1>7. ASSUME ~late PROVE HitIsOwn(l)'
  <2>1. CASE hit = None
    BY <2>1, <1>3, <1>5 DEF HitIsOwn
  <2>2. CASE hit # None
    <3>1. hit.opening = doc.opening /\ hit.version = lint[l].text.version
      BY <2>2, <1>1, <1>2, <1>7 DEF SlotIsOwn
    <3>2. hit.opening = lint[l].text.opening => hit = lint[l].text
      BY <2>2, <3>1, <1>1, <1>2 DEF Text
    <3> QED BY <2>2, <3>1, <3>2, <1>3, <1>4, <1>5 DEF HitIsOwn
  <2> QED BY <2>1, <2>2
<1> QED BY <1>3, <1>4, <1>6, <1>7, LintStep

LEMMA StoreStep ==
  ASSUME IInv, NEW l \in Lint, Store(l)
  PROVE  IInv'
<1> DEFINE text == lint[l].text
           rec == [lint[l] EXCEPT !.pc = "check"]
<1>1. /\ lint \in [Lint -> LintRec] /\ slot \in SlotRec(Text, Version)
      /\ cleared \in Version /\ late \in BOOLEAN /\ stored \in Version
      /\ SlotOK(slot, cleared) /\ SlotIsOwn
      /\ lint[l] \in LintRec /\ lint[l].pc = "put"
      /\ text \in Text /\ text.opening <= doc.opening
      /\ lint[l].file = text
  BY DEF IInv, TypeOK, LintOK, Store
<1>2. /\ slot' = Put(slot, text.version, text)
      /\ lint' = [lint EXCEPT ![l] = rec]
      /\ UNCHANGED <<doc, hand, cleared>>
      /\ stored' = IF lint[l].alone THEN text.version ELSE stored
      /\ late' = (late \/ ~doc.open \/ doc.opening # text.opening)
  BY <1>1 DEF Store
<1>3. /\ rec \in LintRec /\ rec.pc = "check"
      /\ rec.text = text /\ rec.file = text
  BY <1>1 DEF LintRec
<1>4. text.version \in Version
  BY <1>1, ConstantsAssumption DEF Text, Version
<1> HIDE DEF rec, text
<1>5. /\ slot' \in SlotRec(Text, Version)
      /\ SlotOK(slot', cleared)
      /\ slot' = slot \/ slot'.file = text
  BY <1>1, <1>2, PutKeeps
<1>6. lint'[l] = rec
  BY <1>1, <1>2
<1>7. TypeOK'
  BY <1>1, <1>2, <1>3, <1>4, <1>5 DEF TypeOK, IInv
<1>8. SlotOK(slot, cleared)'
  BY <1>2, <1>5 DEF SlotOK
<1>9. ASSUME NEW k \in Lint PROVE LintOK(k)'
  <2>1. CASE k = l
    BY <2>1, <1>1, <1>2, <1>3, <1>6 DEF LintOK
  <2>2. CASE k # l
    BY <2>2, <1>1, <1>2 DEF LintOK, IInv
  <2> QED BY <2>1, <2>2
<1>10. SlotIsOwn'
  BY <1>1, <1>2, <1>5 DEF SlotIsOwn
<1>11. ASSUME ~late', NEW k \in Lint PROVE HitIsOwn(k)'
  <2>1. CASE k = l
    BY <2>1, <1>3, <1>6 DEF HitIsOwn
  <2>2. CASE k # l
    <3>1. HitIsOwn(k)
      BY <1>1, <1>2, <1>11 DEF IInv, OnlyLatePutsMislead
    <3> QED BY <2>2, <3>1, <1>1, <1>2 DEF HitIsOwn
  <2> QED BY <2>1, <2>2
<1> QED BY <1>7, <1>8, <1>9, <1>10, <1>11 DEF IInv, OnlyLatePutsMislead

LEMMA FinishStep ==
  ASSUME IInv, NEW l \in Lint, Finish(l)
  PROVE  IInv'
<1>1. /\ lint \in [Lint -> LintRec]
      /\ lint' = [lint EXCEPT ![l] = NoLint]
      /\ UNCHANGED <<doc, slot, hand, cleared, stored, late>>
  BY DEF IInv, TypeOK, Finish
<1>2. NoLint \in LintRec /\ NoLint.pc = "idle"
  BY DEF NoLint, LintRec
<1>3. lint'[l] = NoLint
  BY <1>1
<1>4. LintOK(l)' /\ HitIsOwn(l)'
  BY <1>2, <1>3 DEF LintOK, HitIsOwn
<1> QED BY <1>1, <1>2, <1>4, LintStep

LEMMA NextStep == IInv /\ [Next]_vars => IInv'
<1> SUFFICES ASSUME IInv, [Next]_vars PROVE IInv'
  OBVIOUS
<1>1. CASE DidOpen \/ DidChange \/ DidClose \/ DidSave
  <2>1. hand = "idle"
    BY <1>1 DEF DidOpen, DidChange, DidClose, DidSave
  <2> QED BY <1>1, <2>1, HandlerStep
<1>2. CASE Invalidate
  BY <1>2, InvalidateStep
<1>3. ASSUME NEW l \in Lint, Start(l) \/ Lookup(l) \/ Store(l) \/ Finish(l)
      PROVE  IInv'
  BY <1>3, StartStep, LookupStep, StoreStep, FinishStep
<1>4. CASE UNCHANGED vars
  BY <1>4 DEF vars, IInv, TypeOK, SlotOK, LintOK, SlotIsOwn, OnlyLatePutsMislead,
              HitIsOwn
<1> QED BY <1>1, <1>2, <1>3, <1>4 DEF Next

LEMMA Always == Spec => []IInv
BY InitIInv, NextStep, PTL DEF Spec

-----------------------------------------------------------------------------
(* Every variable keeps its type.                                          *)
THEOREM TypeCorrect == Spec => []TypeOK
<1>1. IInv => TypeOK
  BY DEF IInv
<1> QED BY <1>1, Always, PTL

(* No parse of a version that an Invalidate has cleared, or of an older    *)
(* one, is ever in the slot again, however late the lint that made it puts *)
(* it (ParseCache.Put and the tombstone of ParseCache.Invalidate).         *)
THEOREM ClearedStaysOut == Spec => []WatermarkHolds
<1>1. IInv => WatermarkHolds
  BY DEF IInv, SlotOK, WatermarkHolds
<1> QED BY <1>1, Always, PTL

(* While no lint has put its parse after its document was closed, a lint   *)
(* of the open document checks the parse of the very text it read          *)
(* (parseForSource and the handlers of internal/lsp).                      *)
THEOREM OwnTextUnlessLate == Spec => []OnlyLatePutsMislead
<1>1. IInv => OnlyLatePutsMislead
  BY DEF IInv
<1> QED BY <1>1, Always, PTL

-----------------------------------------------------------------------------
(* The schema slots: the inductive invariant.                              *)

Active == inv.at # Nil

Frames == {p \in Path : inv.frame[p].pc # "none"}

Held(r) == reader[r].pc \in {"lock", "walk", "meta", "register", "done"}

(* A check at work has a schema, and an entry from the lookup on; only the *)
(* check that holds an entry's mutex parses it.                            *)
ReaderFits(r) ==
  /\ reader[r].pc # "idle" => reader[r].schema \in Path
  /\ Held(r) <=> reader[r].ref # Nil
  /\ reader[r].pc \in {"meta", "register", "done"} => entry[reader[r].ref].done
  /\ reader[r].pc = "walk" =>
       ~entry[reader[r].ref].done /\ entry[reader[r].ref].lock = r
  /\ reader[r].pc = "done" => reader[r].deps = {}

SchemaTyped == SchemaTypeOK /\ \A r \in Reader : ReaderFits(r)

(* The frames of the recursion are a stack, linked by up.                  *)
StackIs(n, st) ==
  /\ st[n] = inv.at
  /\ Frames = {st[i] : i \in 1..n}
  /\ inv.frame[st[1]].up = Nil
  /\ \A i \in 2..n : inv.frame[st[i]].up = st[i - 1]
  /\ \A i, j \in 1..n : st[i] = st[j] => i = j

Stacked ==
  /\ ~Active => inv = Quiet
  /\ Active =>
       /\ \E n \in Nat \ {0} : \E st \in [1..n -> Path] : StackIs(n, st)
       /\ Frames \subseteq inv.visited
       /\ \A p \in Frames \ {inv.at} : inv.frame[p].pc = "walk"

(* An entry belongs to one schema.                                         *)
Owned ==
  /\ \A s, u \in Path : parsed[s] # Nil /\ parsed[s] = parsed[u] => s = u
  /\ \A r \in Reader, s \in Path :
       Held(r) /\ reader[r].ref = parsed[s] => reader[r].schema = s

Below ==
  /\ \A p \in Path : floor[p] <= disk[p]
  /\ \A r \in Reader, p \in Path : reader[r].from[p] <= floor[p]
  /\ \A p \in Frames : inv.frame[p].up = Nil => inv.ver <= disk[p]

RacedWhileActive ==
  Active => \A r \in Reader : reader[r].pc # "idle" => reader[r].raced

(* Bytes no Invalidate overlapped the reading of are vouched for, and gone *)
(* once an Invalidate of their file has dropped them.                      *)
RawFresh ==
  \A s \in Path : raw[s] # Nil /\ ~raw[s].raced =>
    /\ raw[s].ver >= floor[s]
    /\ inv.frame[s].pc \in {"none", "raw"}

ReaderFresh(r) ==
  ~reader[r].raced =>
    /\ reader[r].pc \in {"raw", "load", "lock", "walk"} =>
         \A p \in Path : reader[r].view[p] >= floor[p]
    /\ reader[r].pc \in {"load", "lock", "walk"} =>
         reader[r].data >= floor[reader[r].schema]
    /\ reader[r].pc = "walk" =>
         \A p \in Path : reader[r].got[p] # Nil => reader[r].got[p] >= floor[p]

(* The schema has a parse in the cache that no Invalidate overlapped.      *)
Good(s) == parsed[s] # Nil /\ entry[parsed[s]].done /\ ~entry[parsed[s]].raced

EntryFresh ==
  \A s \in Path : Good(s) =>
    \A p \in Path : entry[parsed[s]].got[p] # Nil => entry[parsed[s]].got[p] >= floor[p]

RefFresh ==
  \A r \in Reader :
    Held(r) /\ entry[reader[r].ref].done /\ ~entry[reader[r].ref].raced
      => AnswerIsFresh(r)

(* A parse reads the schema and the fragments it reaches, nothing else.    *)
WalkReaches(r) ==
  reader[r].pc = "walk" =>
    \A p \in Path :
      reader[r].got[p] # Nil => p = reader[r].schema \/ p \in reader[r].deps

EntryReaches ==
  \A s \in Path : Good(s) =>
    \A p \in Path :
      entry[parsed[s]].got[p] # Nil => p = s \/ p \in entry[parsed[s]].deps

(* The schema is on the stack, and its parse has not been dropped yet.     *)
Doomed(s) ==
  s \in inv.visited /\ inv.frame[s].pc \in {"raw", "read", "drain", "walk", "parsed"}

Indexed(s) == \A f \in entry[parsed[s]].deps : s \in dependents[f]

(* The index finds a good parse, or it is about to be dropped, or a check  *)
(* that no Invalidate has overlapped is still to register it.              *)
GoodIsIndexed ==
  \A s \in Path : Good(s) =>
    \/ Indexed(s)
    \/ Doomed(s)
    \/ ~Active /\ \E r \in Reader : Held(r) /\ reader[r].ref = parsed[s]

Registers(r) ==
  \A s \in Path :
    /\ reader[r].schema = s /\ reader[r].pc \in {"register", "done"}
    /\ reader[r].ref = parsed[s]
    /\ Good(s)
    => \/ Doomed(s)
       \/ \A f \in entry[parsed[s]].deps \ reader[r].deps : s \in dependents[f]

(* A frame that is past its drop leaves no good parse.                     *)
Evicted ==
  \A s \in inv.visited : inv.frame[s].pc \in {"none", "includes", "back"} => ~Good(s)

(* A frame that has drained its dependents has, or will have, visited      *)
(* every schema with a good parse that reached its file.                   *)
Drained ==
  \A p \in Frames, s \in Path : Good(s) /\ p \in entry[parsed[s]].deps =>
    /\ inv.frame[p].pc = "walk" => s \in inv.frame[p].todo \cup inv.visited
    /\ inv.frame[p].pc \in {"parsed", "includes", "back"} => s \in inv.visited

NoRaces ==
  ~overlap =>
    /\ \A x \in Entry : ~entry[x].raced
    /\ \A r \in Reader : ~reader[r].raced
    /\ \A p \in Path : raw[p] # Nil => ~raw[p].raced
    /\ Active => \A r \in Reader : reader[r].pc = "idle"

(* Without a race, a back-pointer names a cached parse that reached the    *)
(* fragment, or one the running Invalidate is about to take it off.        *)
PointsBack ==
  ~overlap => \A f, s \in Path : s \in dependents[f] =>
    IF inv.frame[s].pc \in {"none", "raw", "read"}
    THEN Cached(s) /\ f \in entry[parsed[s]].deps /\ f \in includes[s]
    ELSE f \in inv.frame[s].incs

Undisturbed(r) ==
  ~overlap /\ Held(r) =>
    /\ parsed[reader[r].schema] = reader[r].ref
    /\ reader[r].pc = "register" =>
         /\ includes[reader[r].schema] = entry[reader[r].ref].deps
         /\ reader[r].deps \subseteq entry[reader[r].ref].deps

SchemaInv ==
  /\ SchemaTyped /\ Stacked /\ Owned /\ Below /\ RacedWhileActive /\ RawFresh
  /\ EntryFresh /\ RefFresh /\ EntryReaches /\ GoodIsIndexed /\ Evicted /\ Drained
  /\ NoRaces /\ PointsBack
  /\ \A r \in Reader :
       ReaderFresh(r) /\ WalkReaches(r) /\ Registers(r) /\ Undisturbed(r)

-----------------------------------------------------------------------------
LEMMA SchemaBasics ==
  /\ Nil \notin Path /\ Nil \notin Reader /\ Nil \notin Entry /\ Nil \notin Ver
  /\ MaxVer \in Nat /\ 0 \in Ver /\ Ver \subseteq Nat
  /\ Zero \in Vers /\ Unread \in Read
  /\ Blank \in EntryRec /\ Idle \in ReaderRec /\ NoFrame \in FrameRec
  /\ Quiet \in InvRec
  /\ Quiet.at = Nil /\ Quiet.visited = {} /\ Quiet.ver = 0
  /\ \A p \in Path : Quiet.frame[p] = NoFrame
<1>1. /\ Nil \notin Path /\ Nil \notin Reader /\ Nil \notin Entry /\ Nil \notin Ver
      /\ MaxVer \in Nat
  BY SchemaAssumption
<1>2. 0 \in Ver /\ Ver \subseteq Nat
  BY <1>1 DEF Ver
<1>3. Zero \in Vers /\ Unread \in Read
  BY <1>2 DEF Zero, Unread, Vers, Read
<1>4. Blank \in EntryRec
  BY <1>3 DEF Blank, EntryRec
<1>5. Idle \in ReaderRec
  BY <1>2, <1>3 DEF Idle, ReaderRec
<1>6. NoFrame \in FrameRec
  BY DEF NoFrame, FrameRec
<1>7. Quiet \in InvRec
  BY <1>2, <1>6 DEF Quiet, InvRec
<1> QED BY <1>1, <1>2, <1>3, <1>4, <1>5, <1>6, <1>7 DEF Quiet

LEMMA SchemaInvInit == SchemaInit => SchemaInv
<1> SUFFICES ASSUME SchemaInit PROVE SchemaInv
  OBVIOUS
<1>1. /\ \A r \in Reader : reader[r] = Idle
      /\ \A x \in Entry : entry[x] = Blank
      /\ \A p \in Path : /\ disk[p] = 0 /\ floor[p] = 0 /\ raw[p] = Nil
                         /\ parsed[p] = Nil /\ dependents[p] = {}
      /\ inv = Quiet
  BY DEF SchemaInit, Zero
<1>2. /\ Idle.pc = "idle" /\ Idle.ref = Nil /\ Idle.from = Zero /\ ~Idle.raced
      /\ NoFrame.pc = "none" /\ ~Blank.raced
      /\ \A p \in Path : Zero[p] = 0
  BY DEF Idle, NoFrame, Blank, Zero
<1>3. ~Active /\ Frames = {} /\ inv.visited = {}
  BY <1>1, <1>2, SchemaBasics DEF Active, Frames
<1>4. SchemaTypeOK
  BY SchemaBasics DEF SchemaInit, SchemaTypeOK
<1>5. \A r \in Reader : ~Held(r) /\ reader[r].pc = "idle"
  BY <1>1, <1>2 DEF Held
<1>6. \A r \in Reader : ReaderFits(r)
  BY <1>1, <1>2, <1>5 DEF ReaderFits
<1>7. \A s \in Path : ~Good(s)
  BY <1>1 DEF Good
<1>8. Stacked /\ Owned /\ RacedWhileActive
  BY <1>1, <1>3, <1>5 DEF Stacked, Owned, RacedWhileActive
<1>9. Below
  BY <1>1, <1>2, <1>3, SchemaBasics DEF Below
<1>10. RawFresh /\ EntryFresh /\ RefFresh /\ EntryReaches /\ GoodIsIndexed /\ Evicted
       /\ Drained
  BY <1>1, <1>3, <1>5, <1>7
  DEF RawFresh, EntryFresh, RefFresh, EntryReaches, GoodIsIndexed, Evicted, Drained
<1>11. NoRaces /\ PointsBack
  BY <1>1, <1>2, <1>5 DEF NoRaces, PointsBack
<1>12. \A r \in Reader :
         ReaderFresh(r) /\ WalkReaches(r) /\ Registers(r) /\ Undisturbed(r)
  BY <1>5 DEF ReaderFresh, WalkReaches, Registers, Undisturbed
<1> QED
  BY <1>4, <1>6, <1>8, <1>9, <1>10, <1>11, <1>12 DEF SchemaInv, SchemaTyped

-----------------------------------------------------------------------------
(* Steps of a check that leave the map and the index as they are.          *)

LEMMA ReaderMoves ==
  ASSUME SchemaTypeOK, NEW r \in Reader, NEW new \in ReaderRec,
         reader' = [reader EXCEPT ![r] = new]
  PROVE  /\ reader' \in [Reader -> ReaderRec]
         /\ reader'[r] = new
         /\ \A u \in Reader \ {r} : reader'[u] = reader[u]
BY DEF SchemaTypeOK

LightStep(r) ==
  /\ reader' \in [Reader -> ReaderRec]
  /\ \A u \in Reader \ {r} : reader'[u] = reader[u]
  /\ reader[r].pc # "idle" /\ reader'[r].pc # "idle"
  /\ Held(r)' <=> Held(r)
  /\ reader'[r].ref = reader[r].ref
  /\ reader'[r].schema = reader[r].schema
  /\ reader'[r].from = reader[r].from
  /\ reader[r].raced => reader'[r].raced
  /\ entry' \in [Entry -> EntryRec]
  /\ \A x \in Entry :
       /\ entry'[x].got = entry[x].got /\ entry'[x].deps = entry[x].deps
       /\ entry'[x].done = entry[x].done /\ entry'[x].raced = entry[x].raced
       /\ entry[x].lock # Nil => entry'[x].lock = entry[x].lock
  /\ reader'[r].pc \in {"register", "done"} =>
       \/ reader[r].pc \in {"register", "done"} /\ reader'[r].deps = reader[r].deps
       \/ reader'[r].deps = entry[reader[r].ref].deps
  /\ UNCHANGED <<disk, floor, parsed, dependents, inv, overlap>>

(* An entry in the map, or in a check's hands, is an entry.                *)
LEMMA EntriesAreEntries ==
  ASSUME SchemaTyped
  PROVE  /\ \A s \in Path : parsed[s] # Nil => parsed[s] \in Entry
         /\ \A r \in Reader : Held(r) => reader[r].ref \in Entry
BY DEF SchemaTyped, SchemaTypeOK, ReaderFits, ReaderRec

LEMMA LightKeeps ==
  ASSUME SchemaInv, NEW r \in Reader, LightStep(r)
  PROVE  /\ Stacked' /\ Owned' /\ Below' /\ RacedWhileActive'
         /\ EntryFresh' /\ RefFresh' /\ EntryReaches' /\ GoodIsIndexed'
         /\ Evicted' /\ Drained'
         /\ \A u \in Reader : Registers(u)'
         /\ \A u \in Reader \ {r} :
              ReaderFits(u)' /\ ReaderFresh(u)' /\ WalkReaches(u)'
<1>1. /\ \A s \in Path : parsed[s] # Nil => parsed[s] \in Entry
      /\ \A u \in Reader : Held(u) => reader[u].ref \in Entry
  BY EntriesAreEntries DEF SchemaInv
<1>2. /\ \A u \in Reader \ {r} : reader'[u] = reader[u]
      /\ reader[r].pc # "idle" /\ reader'[r].pc # "idle"
      /\ \A u \in Reader :
           /\ Held(u)' <=> Held(u)
           /\ reader'[u].ref = reader[u].ref
           /\ reader'[u].schema = reader[u].schema
           /\ reader'[u].from = reader[u].from
           /\ reader[u].raced => reader'[u].raced
           /\ reader'[u].pc = "idle" <=> reader[u].pc = "idle"
  BY DEF LightStep, Held
<1>3. \A x \in Entry :
        /\ entry'[x].got = entry[x].got /\ entry'[x].deps = entry[x].deps
        /\ entry'[x].done = entry[x].done /\ entry'[x].raced = entry[x].raced
        /\ entry[x].lock # Nil => entry'[x].lock = entry[x].lock
  BY DEF LightStep
<1>4. UNCHANGED <<disk, floor, parsed, dependents, inv, overlap>>
  BY DEF LightStep
<1>5. \A s \in Path : Good(s)' <=> Good(s)
  BY <1>1, <1>3, <1>4 DEF Good
<1>6. \A s \in Path : Good(s) => parsed[s] \in Entry
  BY <1>1 DEF Good
<1>7. \A s \in Path : Good(s) =>
        /\ entry'[parsed'[s]].got = entry[parsed[s]].got
        /\ entry'[parsed'[s]].deps = entry[parsed[s]].deps
  BY <1>3, <1>4, <1>6
<1>8. Frames' = Frames /\ (Active' <=> Active) /\ \A s \in Path : Doomed(s)' <=> Doomed(s)
  BY <1>4 DEF Frames, Active, Doomed
<1>9. Stacked'
  BY <1>4 DEF SchemaInv, Stacked, StackIs, Active, Frames
<1>10. Owned' /\ Below' /\ RacedWhileActive'
  BY <1>2, <1>4, <1>8 DEF SchemaInv, Owned, Below, RacedWhileActive
<1>11. EntryFresh' /\ EntryReaches'
  BY <1>4, <1>5, <1>7 DEF SchemaInv, EntryFresh, EntryReaches
<1>12. Evicted' /\ Drained'
  <2>1. inv.visited \subseteq Path
    BY DEF SchemaInv, SchemaTyped, SchemaTypeOK, InvRec
  <2> QED BY <1>4, <1>5, <1>7, <1>8, <2>1 DEF SchemaInv, Evicted, Drained
<1>13. RefFresh'
  BY <1>1, <1>2, <1>3 DEF SchemaInv, RefFresh, AnswerIsFresh
<1>14. GoodIsIndexed'
  BY <1>2, <1>4, <1>5, <1>7, <1>8 DEF SchemaInv, GoodIsIndexed, Indexed
<1>15. ASSUME NEW u \in Reader
       PROVE  Registers(u)'
  <2> SUFFICES ASSUME NEW s \in Path, reader'[u].schema = s,
                      reader'[u].pc \in {"register", "done"},
                      reader'[u].ref = parsed'[s], Good(s)', ~Doomed(s)',
                      NEW f \in entry'[parsed'[s]].deps \ reader'[u].deps
               PROVE  s \in dependents'[f]
    BY DEF Registers
  <2>1. /\ reader[u].schema = s /\ reader[u].ref = parsed[s]
        /\ Good(s) /\ ~Doomed(s) /\ f \in entry[parsed[s]].deps
        /\ parsed[s] \in Entry
    BY <1>2, <1>4, <1>5, <1>6, <1>7, <1>8
  <2>2. reader[u].pc \in {"register", "done"} /\ reader'[u].deps = reader[u].deps
    <3>1. CASE u # r
      BY <1>2, <3>1
    <3>2. CASE u = r
      <4>1. reader'[r].deps # entry[reader[r].ref].deps
        BY <2>1, <3>2
      <4> QED BY <3>2, <4>1 DEF LightStep
    <3> QED BY <3>1, <3>2
  <2>3. f \in entry[parsed[s]].deps \ reader[u].deps
    BY <2>1, <2>2
  <2> QED BY <1>4, <2>1, <2>2, <2>3 DEF SchemaInv, Registers
<1>16. ASSUME NEW u \in Reader \ {r}
       PROVE  ReaderFits(u)' /\ ReaderFresh(u)' /\ WalkReaches(u)'
  <2>1. ReaderFits(u)
    BY DEF SchemaInv, SchemaTyped
  <2>2. reader[u].pc \in {"meta", "register", "done", "walk"} => reader[u].ref \in Entry
    BY <1>1 DEF Held
  <2>3. ReaderFits(u)'
    BY <1>2, <1>3, <2>1, <2>2, SchemaBasics DEF ReaderFits, Held
  <2> QED BY <1>2, <1>4, <2>3 DEF SchemaInv, ReaderFresh, WalkReaches
<1> QED BY <1>9, <1>10, <1>11, <1>12, <1>13, <1>14, <1>15, <1>16

(* Those that leave the other maps alone as well.                          *)
LEMMA PlainKeeps ==
  ASSUME SchemaInv, NEW r \in Reader, LightStep(r),
         UNCHANGED <<raw, includes>>, reader'[r].raced = reader[r].raced,
         ReaderFits(r)', ReaderFresh(r)', WalkReaches(r)', Undisturbed(r)'
  PROVE  SchemaInv'
<1>1. UNCHANGED <<disk, floor, parsed, dependents, inv, overlap>>
  BY DEF LightStep
<1>2. SchemaTypeOK'
  BY <1>1 DEF SchemaInv, SchemaTyped, SchemaTypeOK, LightStep
<1>3. /\ \A s \in Path : parsed[s] # Nil => parsed[s] \in Entry
      /\ \A u \in Reader : Held(u) => reader[u].ref \in Entry
  BY EntriesAreEntries DEF SchemaInv
<1>4. RawFresh'
  BY <1>1 DEF SchemaInv, RawFresh
<1>5. NoRaces'
  BY <1>1 DEF SchemaInv, NoRaces, LightStep, Active
<1>6. PointsBack'
  BY <1>1, <1>3 DEF SchemaInv, PointsBack, Cached, LightStep
<1>7. ASSUME NEW u \in Reader \ {r} PROVE Undisturbed(u)'
  BY <1>1, <1>3 DEF SchemaInv, Undisturbed, LightStep, Held
<1> QED BY <1>2, <1>4, <1>5, <1>6, <1>7, LightKeeps DEF SchemaInv, SchemaTyped

LEMMA CheckFacts ==
  ASSUME SchemaInv, NEW r \in Reader
  PROVE  /\ SchemaTypeOK /\ reader \in [Reader -> ReaderRec] /\ reader[r] \in ReaderRec
         /\ entry \in [Entry -> EntryRec]
         /\ ReaderFits(r) /\ ReaderFresh(r) /\ WalkReaches(r) /\ Registers(r)
         /\ Undisturbed(r)
         /\ Held(r) => reader[r].ref \in Entry /\ entry[reader[r].ref] \in EntryRec
         /\ reader[r].pc # "idle" => reader[r].schema \in Path
<1>1. /\ SchemaTypeOK /\ ReaderFits(r) /\ ReaderFresh(r) /\ WalkReaches(r)
      /\ Registers(r) /\ Undisturbed(r)
  BY DEF SchemaInv, SchemaTyped
<1>2. /\ reader \in [Reader -> ReaderRec] /\ reader[r] \in ReaderRec
      /\ entry \in [Entry -> EntryRec]
  BY <1>1 DEF SchemaTypeOK
<1>3. Held(r) => reader[r].ref \in Entry
  BY EntriesAreEntries DEF SchemaInv
<1> QED BY <1>1, <1>2, <1>3 DEF ReaderFits

LEMMA HitKeeps ==
  ASSUME SchemaInv, NEW r \in Reader, Hit(r)
  PROVE  SchemaInv'
<1> DEFINE new == [reader[r] EXCEPT !.pc = "meta", !.data = 0, !.view = Zero]
<1>1. /\ reader[r].pc = "lock" /\ reader[r] \in ReaderRec
      /\ reader \in [Reader -> ReaderRec] /\ entry \in [Entry -> EntryRec]
      /\ entry[reader[r].ref].done
      /\ UNCHANGED <<disk, floor, raw, parsed, entry, includes, dependents, inv, overlap>>
  BY CheckFacts DEF Hit
<1>2. /\ new \in ReaderRec /\ new.pc = "meta" /\ new.ref = reader[r].ref
      /\ new.schema = reader[r].schema /\ new.from = reader[r].from
      /\ new.raced = reader[r].raced
  BY <1>1, SchemaBasics DEF ReaderRec
<1>3. reader' = [reader EXCEPT ![r] = new]
  BY Zenon DEF Hit
<1> HIDE DEF new
<1>4. /\ reader' \in [Reader -> ReaderRec] /\ reader'[r] = new
      /\ \A u \in Reader \ {r} : reader'[u] = reader[u]
  BY <1>1, <1>2, <1>3
<1>5. LightStep(r)
  BY <1>1, <1>2, <1>4 DEF LightStep, Held
<1>6. /\ ReaderFits(r)' /\ ReaderFresh(r)' /\ WalkReaches(r)' /\ Undisturbed(r)'
  BY <1>1, <1>2, <1>4, CheckFacts
  DEF ReaderFits, ReaderFresh, WalkReaches, Undisturbed, Held
<1> QED BY <1>1, <1>2, <1>4, <1>5, <1>6, PlainKeeps

LEMMA RegisteredKeeps ==
  ASSUME SchemaInv, NEW r \in Reader, Registered(r)
  PROVE  SchemaInv'
<1> DEFINE new == [reader[r] EXCEPT !.pc = "done"]
<1>1. /\ reader[r].pc = "register" /\ reader[r] \in ReaderRec
      /\ reader \in [Reader -> ReaderRec] /\ entry \in [Entry -> EntryRec]
      /\ reader[r].deps = {}
      /\ UNCHANGED <<disk, floor, raw, parsed, entry, includes, dependents, inv, overlap>>
  BY CheckFacts DEF Registered
<1>2. /\ new \in ReaderRec /\ new.pc = "done" /\ new.ref = reader[r].ref
      /\ new.schema = reader[r].schema /\ new.from = reader[r].from
      /\ new.raced = reader[r].raced /\ new.deps = reader[r].deps
  BY <1>1, SchemaBasics DEF ReaderRec
<1>3. reader' = [reader EXCEPT ![r] = new]
  BY Zenon DEF Registered
<1> HIDE DEF new
<1>4. /\ reader' \in [Reader -> ReaderRec] /\ reader'[r] = new
      /\ \A u \in Reader \ {r} : reader'[u] = reader[u]
  BY <1>1, <1>2, <1>3
<1>5. LightStep(r)
  BY <1>1, <1>2, <1>4 DEF LightStep, Held
<1>6. /\ ReaderFits(r)' /\ ReaderFresh(r)' /\ WalkReaches(r)' /\ Undisturbed(r)'
  BY <1>1, <1>2, <1>4, CheckFacts
  DEF ReaderFits, ReaderFresh, WalkReaches, Undisturbed, Held
<1> QED BY <1>1, <1>2, <1>4, <1>5, <1>6, PlainKeeps

LEMMA BeginParseKeeps ==
  ASSUME SchemaInv, NEW r \in Reader, BeginParse(r)
  PROVE  SchemaInv'
<1> DEFINE s == reader[r].schema
           c == Content[s][reader[r].data]
           todo == IF c.ok THEN c.incl \X {{s}} ELSE {}
           got == [Unread EXCEPT ![s] = reader[r].data]
           new == [reader[r] EXCEPT !.pc = "walk", !.got = got, !.todo = todo]
           x == reader[r].ref
           locked == [entry[x] EXCEPT !.lock = r]
<1>1. /\ reader[r].pc = "lock" /\ reader[r] \in ReaderRec
      /\ reader \in [Reader -> ReaderRec] /\ entry \in [Entry -> EntryRec]
      /\ x \in Entry /\ entry[x] \in EntryRec /\ s \in Path
      /\ ~entry[x].done /\ entry[x].lock = Nil
      /\ UNCHANGED <<disk, floor, raw, parsed, includes, dependents, inv, overlap>>
  BY CheckFacts DEF BeginParse, Held
<1>2. reader[r].data \in Ver
  BY <1>1 DEF ReaderRec
<1>3. todo \in SUBSET (Path \X SUBSET Path)
  <2>1. c.incl \in SUBSET Path
    BY <1>1, <1>2, SchemaAssumption
  <2> QED BY <1>1, <2>1
<1>4. /\ got \in Read /\ got[s] = reader[r].data
      /\ \A p \in Path : got[p] # Nil => p = s
  BY <1>1, <1>2, SchemaBasics DEF Read, Unread
<1> HIDE DEF todo, got
<1>5. /\ new \in ReaderRec /\ new.pc = "walk" /\ new.ref = x /\ new.schema = s
      /\ new.from = reader[r].from /\ new.raced = reader[r].raced
      /\ new.deps = reader[r].deps /\ new.view = reader[r].view
      /\ new.data = reader[r].data /\ new.got = got
  BY <1>1, <1>3, <1>4, SchemaBasics DEF ReaderRec
<1>6. /\ locked \in EntryRec /\ locked.got = entry[x].got /\ locked.deps = entry[x].deps
      /\ locked.done = entry[x].done /\ locked.raced = entry[x].raced
      /\ locked.lock = r
  BY <1>1 DEF EntryRec
<1>7. /\ reader' = [reader EXCEPT ![r] = new]
      /\ entry' = [entry EXCEPT ![x] = locked]
  BY Zenon DEF BeginParse, todo, got
<1> HIDE DEF new, locked, s, x, c
<1>8. /\ reader' \in [Reader -> ReaderRec] /\ reader'[r] = new
      /\ \A u \in Reader \ {r} : reader'[u] = reader[u]
      /\ entry' \in [Entry -> EntryRec] /\ entry'[x] = locked
      /\ \A y \in Entry \ {x} : entry'[y] = entry[y]
  BY <1>1, <1>5, <1>6, <1>7
<1>9. LightStep(r)
  <2>1. \A y \in Entry :
          /\ entry'[y].got = entry[y].got /\ entry'[y].deps = entry[y].deps
          /\ entry'[y].done = entry[y].done /\ entry'[y].raced = entry[y].raced
          /\ entry[y].lock # Nil => entry'[y].lock = entry[y].lock
    BY <1>1, <1>6, <1>8
  <2> QED BY <1>1, <1>5, <1>8, <2>1 DEF LightStep, Held, x, s
<1>10. ReaderFits(r)'
  BY <1>1, <1>5, <1>6, <1>8, CheckFacts DEF ReaderFits, Held, x, s
<1>11. ReaderFresh(r)'
  <2>1. ReaderFresh(r)
    BY CheckFacts
  <2>2. ~reader[r].raced => reader[r].data >= floor[s]
    BY <1>1, <2>1 DEF ReaderFresh, s
  <2> QED BY <1>1, <1>4, <1>5, <1>8, <2>1, <2>2 DEF ReaderFresh
<1>12. WalkReaches(r)'
  BY <1>4, <1>5, <1>8 DEF WalkReaches
<1>13. Undisturbed(r)'
  BY <1>1, <1>5, <1>8, CheckFacts DEF Undisturbed, Held, x, s
<1> QED BY <1>1, <1>5, <1>8, <1>9, <1>10, <1>11, <1>12, <1>13, PlainKeeps

LEMMA ExpandKeeps ==
  ASSUME SchemaInv, NEW r \in Reader, NEW t \in reader[r].todo, Expand(r, t)
  PROVE  SchemaInv'
<1> DEFINE p == t[1]
           chain == t[2]
           me == reader[r]
<1>1. /\ me.pc = "walk" /\ me \in ReaderRec
      /\ reader \in [Reader -> ReaderRec] /\ entry \in [Entry -> EntryRec]
      /\ UNCHANGED <<disk, floor, raw, parsed, entry, includes, dependents, inv, overlap>>
  BY CheckFacts DEF Expand
<1>2. p \in Path /\ chain \in SUBSET Path
  BY <1>1 DEF ReaderRec
<1>3. PICK v \in IF p \in chain THEN {me.got[p]} ELSE Readable(r, p) :
        LET c == Content[p][v]
            deeper == {<<q, chain \cup {p}>> : q \in c.incl} IN
        reader' = [reader EXCEPT ![r] =
          [me EXCEPT !.deps = me.deps \cup {p},
                     !.got = [me.got EXCEPT ![p] =
                       IF me.got[p] # Nil /\ me.got[p] < v THEN me.got[p] ELSE v],
                     !.todo = IF p \in chain \/ ~c.ok THEN {}
                              ELSE (me.todo \ {t}) \cup deeper]]
  BY Zenon DEF Expand
<1> DEFINE least == IF me.got[p] # Nil /\ me.got[p] < v THEN me.got[p] ELSE v
           got == [me.got EXCEPT ![p] = least]
           c == Content[p][v]
           deeper == {<<q, chain \cup {p}>> : q \in c.incl}
           todo == IF p \in chain \/ ~c.ok THEN {} ELSE (me.todo \ {t}) \cup deeper
           new == [me EXCEPT !.deps = me.deps \cup {p}, !.got = got, !.todo = todo]
<1>4. /\ me.got \in Read /\ me.view \in Vers /\ disk \in Vers /\ floor \in Vers
      /\ me.todo \in SUBSET (Path \X SUBSET Path)
  BY <1>1, CheckFacts DEF ReaderRec, SchemaTypeOK
<1>5. v \in Ver \cup {Nil} /\ (p \notin chain => v \in {disk[p], me.view[p]} /\ v \in Ver)
  BY <1>2, <1>3, <1>4 DEF Readable, Vers, Read
<1>6. least \in Ver \cup {Nil}
  BY <1>2, <1>4, <1>5 DEF Read
<1>7. todo \in SUBSET (Path \X SUBSET Path)
  <2>1. CASE p \in chain
    BY <2>1
  <2>2. CASE p \notin chain
    <3>1. c.incl \in SUBSET Path
      BY <1>2, <1>5, <2>2, SchemaAssumption
    <3> QED BY <1>2, <1>4, <3>1
  <2> QED BY <2>1, <2>2
<1> HIDE DEF todo
<1>8. ReaderFresh(r)
  BY CheckFacts
<1>9. ~me.raced /\ v # Nil => v >= floor[p]
  <2> SUFFICES ASSUME ~me.raced, v # Nil PROVE v >= floor[p]
    OBVIOUS
  <2>1. me.view[p] >= floor[p] /\ (me.got[p] # Nil => me.got[p] >= floor[p])
    BY <1>1, <1>2, <1>8 DEF ReaderFresh
  <2>2. disk[p] >= floor[p]
    BY <1>2, <1>4, SchemaBasics DEF SchemaInv, Below, Vers
  <2> QED BY <1>3, <1>5, <2>1, <2>2
<1>10. /\ got \in Read /\ got[p] = least
       /\ \A q \in Path : q # p => got[q] = me.got[q]
  BY <1>2, <1>4, <1>6 DEF Read
<1>11. ~me.raced => \A q \in Path : got[q] # Nil => got[q] >= floor[q]
  <2> HIDE DEF got
  <2>1. ~me.raced => \A q \in Path : me.got[q] # Nil => me.got[q] >= floor[q]
    BY <1>1, <1>8 DEF ReaderFresh
  <2> QED BY <1>9, <1>10, <2>1
<1> HIDE DEF got
<1>12. /\ new \in ReaderRec /\ new.pc = "walk" /\ new.ref = me.ref
       /\ new.schema = me.schema /\ new.from = me.from /\ new.raced = me.raced
       /\ new.deps = me.deps \cup {p} /\ new.view = me.view
       /\ new.data = me.data /\ new.got = got
  BY <1>1, <1>2, <1>7, <1>10, SchemaBasics DEF ReaderRec
<1>13. reader' = [reader EXCEPT ![r] = new]
  BY <1>3, Zenon DEF todo, got
<1> HIDE DEF new, c, deeper, least
<1>14. /\ reader' \in [Reader -> ReaderRec] /\ reader'[r] = new
       /\ \A u \in Reader \ {r} : reader'[u] = reader[u]
  BY <1>1, <1>12, <1>13
<1>15. LightStep(r)
  BY <1>1, <1>12, <1>14 DEF LightStep, Held
<1>16. ReaderFits(r)'
  BY <1>1, <1>12, <1>14, CheckFacts DEF ReaderFits, Held
<1>17. ReaderFresh(r)'
  BY <1>1, <1>8, <1>11, <1>12, <1>14 DEF ReaderFresh
<1>18. WalkReaches(r)'
  <2>1. \A q \in Path : me.got[q] # Nil => q = me.schema \/ q \in me.deps
    BY <1>1, CheckFacts DEF WalkReaches
  <2> QED BY <1>10, <1>12, <1>14, <2>1 DEF WalkReaches
<1>19. Undisturbed(r)'
  BY <1>1, <1>12, <1>14, CheckFacts DEF Undisturbed, Held
<1> QED BY <1>1, <1>12, <1>14, <1>15, <1>16, <1>17, <1>18, <1>19, PlainKeeps

LEMMA ReadRawKeeps ==
  ASSUME SchemaInv, NEW r \in Reader, ReadRaw(r)
  PROVE  SchemaInv'
<1> DEFINE s == reader[r].schema
           me == reader[r]
<1>1. /\ me.pc = "raw" /\ me \in ReaderRec
      /\ reader \in [Reader -> ReaderRec] /\ entry \in [Entry -> EntryRec]
      /\ s \in Path
      /\ UNCHANGED <<disk, floor, parsed, entry, includes, dependents, inv, overlap>>
  BY CheckFacts DEF ReadRaw
<1>2. PICK b \in IF raw[s] # Nil THEN {raw[s]}
                 ELSE [ver : Readable(r, s), raced : {me.raced}] :
        /\ raw' = [raw EXCEPT ![s] = b]
        /\ reader' = [reader EXCEPT ![r].pc = "load", ![r].data = b.ver,
                                    ![r].raced = @ \/ b.raced]
  BY Zenon DEF ReadRaw
<1> DEFINE new == [me EXCEPT !.pc = "load", !.data = b.ver, !.raced = @ \/ b.raced]
<1>3. /\ me.view \in Vers /\ disk \in Vers /\ floor \in Vers /\ me.raced \in BOOLEAN
      /\ raw \in [Path -> [ver : Ver, raced : BOOLEAN] \cup {Nil}]
  BY <1>1, CheckFacts DEF ReaderRec, SchemaTypeOK
<1>4. b \in [ver : Ver, raced : BOOLEAN]
  <2>1. Readable(r, s) \subseteq Ver
    BY <1>1, <1>3 DEF Readable, Vers
  <2> QED BY <1>1, <1>2, <1>3, <2>1
<1>5. /\ raw[s] # Nil => b = raw[s]
      /\ raw[s] = Nil => b.ver \in {disk[s], me.view[s]} /\ b.raced = me.raced
  BY <1>2 DEF Readable
<1>6. /\ new \in ReaderRec /\ new.pc = "load" /\ new.ref = me.ref
      /\ new.schema = s /\ new.from = me.from /\ new.raced = (me.raced \/ b.raced)
      /\ new.view = me.view /\ new.data = b.ver
  BY <1>1, <1>4 DEF ReaderRec
<1>7. reader' = [reader EXCEPT ![r] = new]
  BY <1>2, Zenon
<1> HIDE DEF new
<1>8. /\ reader' \in [Reader -> ReaderRec] /\ reader'[r] = new
      /\ \A u \in Reader \ {r} : reader'[u] = reader[u]
      /\ raw' \in [Path -> [ver : Ver, raced : BOOLEAN] \cup {Nil}]
      /\ raw'[s] = b /\ \A q \in Path \ {s} : raw'[q] = raw[q]
  BY <1>1, <1>2, <1>3, <1>4, <1>6, <1>7
<1>9. LightStep(r)
  BY <1>1, <1>6, <1>8 DEF LightStep, Held
<1>10. ~b.raced => b.ver >= floor[s] \/ me.raced
  <2> SUFFICES ASSUME ~b.raced, ~me.raced PROVE b.ver >= floor[s]
    OBVIOUS
  <2>1. me.view[s] >= floor[s]
    BY <1>1, CheckFacts DEF ReaderFresh
  <2>2. disk[s] >= floor[s]
    BY <1>1, <1>3, SchemaBasics DEF SchemaInv, Below, Vers
  <2>3. raw[s] # Nil => b.ver >= floor[s]
    BY <1>1, <1>5 DEF SchemaInv, RawFresh
  <2> QED BY <1>5, <2>1, <2>2, <2>3
<1>11. RawFresh'
  <2> SUFFICES ASSUME NEW q \in Path, raw'[q] # Nil, ~raw'[q].raced
               PROVE  raw'[q].ver >= floor[q] /\ inv.frame[q].pc \in {"none", "raw"}
    BY <1>1 DEF RawFresh
  <2>1. CASE q # s
    BY <1>8, <2>1 DEF SchemaInv, RawFresh
  <2>2. CASE q = s /\ raw[s] # Nil
    BY <1>5, <1>8, <2>2 DEF SchemaInv, RawFresh
  <2>3. CASE q = s /\ raw[s] = Nil
    <3>1. ~me.raced
      BY <1>5, <1>8, <2>3
    <3>2. inv = Quiet
      BY <1>1, <3>1 DEF SchemaInv, RacedWhileActive, Stacked
    <3>3. inv.frame[q].pc = "none"
      BY <3>2, SchemaBasics DEF NoFrame
    <3> QED BY <1>8, <1>10, <2>3, <3>1, <3>3
  <2> QED BY <2>1, <2>2, <2>3
<1>12. ReaderFits(r)'
  BY <1>1, <1>6, <1>8, CheckFacts DEF ReaderFits, Held
<1>13. ReaderFresh(r)'
  BY <1>1, <1>6, <1>8, <1>10, CheckFacts DEF ReaderFresh
<1>14. WalkReaches(r)' /\ Undisturbed(r)'
  BY <1>6, <1>8 DEF WalkReaches, Undisturbed, Held
<1>15. NoRaces'
  <2> SUFFICES ASSUME ~overlap PROVE NoRaces'
    BY <1>1 DEF NoRaces
  <2>1. NoRaces
    BY DEF SchemaInv
  <2>2. ~b.raced
    BY <1>1, <1>5, <2>1 DEF NoRaces
  <2> QED BY <1>1, <1>6, <1>8, <2>1, <2>2 DEF NoRaces, Active
<1>16. PointsBack'
  BY <1>1 DEF SchemaInv, PointsBack, Cached
<1>17. ASSUME NEW u \in Reader \ {r} PROVE Undisturbed(u)'
  BY <1>1, <1>8 DEF SchemaInv, Undisturbed, Held
<1>18. SchemaTypeOK'
  BY <1>1, <1>8, CheckFacts DEF SchemaTypeOK
<1> QED
  BY <1>9, <1>11, <1>12, <1>13, <1>14, <1>15, <1>16, <1>17, <1>18, LightKeeps
  DEF SchemaInv, SchemaTyped

LEMMA StoreIncludesKeeps ==
  ASSUME SchemaInv, NEW r \in Reader, StoreIncludes(r)
  PROVE  SchemaInv'
<1> DEFINE s == reader[r].schema
           me == reader[r]
           deps == entry[me.ref].deps
           new == [me EXCEPT !.pc = "register", !.deps = deps]
<1>1. /\ me.pc = "meta" /\ me \in ReaderRec
      /\ reader \in [Reader -> ReaderRec] /\ entry \in [Entry -> EntryRec]
      /\ s \in Path /\ me.ref \in Entry /\ entry[me.ref] \in EntryRec
      /\ entry[me.ref].done
      /\ UNCHANGED <<disk, floor, raw, parsed, entry, dependents, inv, overlap>>
  BY CheckFacts DEF StoreIncludes, ReaderFits, Held
<1>2. /\ includes' = [includes EXCEPT ![s] = deps]
      /\ reader' = [reader EXCEPT ![r] = new]
  BY Zenon DEF StoreIncludes
<1>3. deps \in SUBSET Path
  BY <1>1 DEF EntryRec
<1>4. /\ new \in ReaderRec /\ new.pc = "register" /\ new.ref = me.ref
      /\ new.schema = s /\ new.from = me.from /\ new.raced = me.raced
      /\ new.deps = deps
  BY <1>1, <1>3 DEF ReaderRec
<1> HIDE DEF new
<1>5. /\ reader' \in [Reader -> ReaderRec] /\ reader'[r] = new
      /\ \A u \in Reader \ {r} : reader'[u] = reader[u]
      /\ includes' \in [Path -> SUBSET Path]
      /\ includes'[s] = deps /\ \A q \in Path \ {s} : includes'[q] = includes[q]
  BY <1>1, <1>2, <1>3, <1>4, CheckFacts DEF SchemaTypeOK
<1>6. LightStep(r)
  BY <1>1, <1>4, <1>5 DEF LightStep, Held
<1>7. ReaderFits(r)'
  BY <1>1, <1>4, <1>5, CheckFacts DEF ReaderFits, Held
<1>8. ReaderFresh(r)' /\ WalkReaches(r)'
  BY <1>4, <1>5 DEF ReaderFresh, WalkReaches
<1>9. ~overlap => parsed[s] = me.ref
  BY <1>1, CheckFacts DEF Undisturbed, Held
<1>10. Undisturbed(r)'
  BY <1>1, <1>4, <1>5, <1>9 DEF Undisturbed
<1>11. ASSUME NEW u \in Reader \ {r} PROVE Undisturbed(u)'
  <2>1. Undisturbed(u) /\ reader'[u] = reader[u]
    BY <1>5 DEF SchemaInv
  <2>2. Held(u) => reader[u].schema \in Path
    BY CheckFacts DEF Held
  <2> QED BY <1>1, <1>5, <1>9, <2>1, <2>2 DEF Undisturbed, Held
<1>12. PointsBack'
  <2> SUFFICES ASSUME ~overlap, NEW f \in Path, NEW q \in Path, q \in dependents[f]
               PROVE  IF inv.frame[q].pc \in {"none", "raw", "read"}
                      THEN /\ Cached(q) /\ f \in entry[parsed[q]].deps
                           /\ f \in includes'[q]
                      ELSE f \in inv.frame[q].incs
    BY <1>1 DEF PointsBack, Cached
  <2>1. IF inv.frame[q].pc \in {"none", "raw", "read"}
        THEN Cached(q) /\ f \in entry[parsed[q]].deps /\ f \in includes[q]
        ELSE f \in inv.frame[q].incs
    BY DEF SchemaInv, PointsBack
  <2> QED BY <1>5, <1>9, <2>1
<1>13. RawFresh' /\ NoRaces'
  BY <1>1, <1>4, <1>5 DEF SchemaInv, RawFresh, NoRaces, Active
<1>14. SchemaTypeOK'
  BY <1>1, <1>5, CheckFacts DEF SchemaTypeOK
<1> QED
  BY <1>6, <1>7, <1>8, <1>10, <1>11, <1>12, <1>13, <1>14, LightKeeps
  DEF SchemaInv, SchemaTyped

(* What a step that leaves the files and the Invalidate alone keeps.       *)
LEMMA CallStays ==
  ASSUME SchemaInv, UNCHANGED <<disk, floor, inv>>
  PROVE  /\ Stacked' /\ Frames' = Frames /\ (Active' <=> Active)
         /\ \A s \in Path : Doomed(s)' <=> Doomed(s)
         /\ \A p \in Path : floor'[p] <= disk'[p]
         /\ \A p \in Frames' : inv'.frame[p].up = Nil => inv'.ver <= disk'[p]
         /\ inv.visited \subseteq Path
         /\ ~Active => inv = Quiet /\ inv.visited = {} /\ Frames = {}
                       /\ \A p \in Path : inv.frame[p].pc = "none"
<1>1. Stacked' /\ Frames' = Frames /\ (Active' <=> Active)
  BY DEF SchemaInv, Stacked, StackIs, Active, Frames
<1>2. \A s \in Path : Doomed(s)' <=> Doomed(s)
  BY DEF Doomed
<1>3. /\ \A p \in Path : floor'[p] <= disk'[p]
      /\ \A p \in Frames' : inv'.frame[p].up = Nil => inv'.ver <= disk'[p]
  BY <1>1 DEF SchemaInv, Below
<1>4. inv.visited \subseteq Path
  BY DEF SchemaInv, SchemaTyped, SchemaTypeOK, InvRec
<1>5. ~Active => inv = Quiet /\ inv.visited = {} /\ Frames = {}
                 /\ \A p \in Path : inv.frame[p].pc = "none"
  BY SchemaBasics DEF SchemaInv, Stacked, Frames, NoFrame
<1> QED BY <1>1, <1>2, <1>3, <1>4, <1>5

LEMMA EndCheckKeeps ==
  ASSUME SchemaInv, NEW r \in Reader, EndCheck(r)
  PROVE  SchemaInv'
<1>1. /\ reader[r].pc = "done"
      /\ UNCHANGED <<disk, floor, raw, parsed, entry, includes, dependents, inv, overlap>>
      /\ SchemaTypeOK /\ reader' = [reader EXCEPT ![r] = Idle]
  BY CheckFacts DEF EndCheck
<1>2. /\ reader' \in [Reader -> ReaderRec] /\ reader'[r] = Idle
      /\ \A u \in Reader \ {r} : reader'[u] = reader[u]
  BY <1>1, SchemaBasics DEF SchemaTypeOK
<1>3. /\ Idle.pc = "idle" /\ Idle.ref = Nil /\ ~Idle.raced
      /\ \A p \in Path : Idle.from[p] = 0
  BY DEF Idle, Zero
<1>4. ~Held(r)' /\ \A u \in Reader \ {r} : Held(u)' <=> Held(u)
  BY <1>2, <1>3 DEF Held
<1>5. SchemaTypeOK'
  BY <1>1, <1>2 DEF SchemaTypeOK
<1>6. \A s \in Path : Good(s)' <=> Good(s)
  BY <1>1 DEF Good
<1>7. ReaderFits(r)' /\ \A u \in Reader \ {r} : ReaderFits(u)'
  BY <1>1, <1>2, <1>3, <1>4 DEF SchemaInv, SchemaTyped, ReaderFits
<1>8. Owned'
  BY <1>1, <1>2, <1>4 DEF SchemaInv, Owned
<1>9. Below'
  <2>1. \A u \in Reader, p \in Path : reader'[u].from[p] <= floor'[p]
    <3>1. \A p \in Path : floor[p] \in Nat
      BY <1>1, SchemaBasics DEF SchemaTypeOK, Vers
    <3>2. \A p \in Path : reader'[r].from[p] <= floor[p]
      BY <1>2, <1>3, <3>1
    <3>3. \A u \in Reader \ {r}, p \in Path : reader'[u].from[p] <= floor[p]
      BY <1>2 DEF SchemaInv, Below
    <3> QED BY <1>1, <3>2, <3>3
  <2> QED BY <1>1, <2>1, CallStays DEF Below
<1>10. RacedWhileActive' /\ RawFresh'
  BY <1>1, <1>2, <1>3 DEF SchemaInv, RacedWhileActive, RawFresh, Active
<1>11. EntryFresh' /\ EntryReaches'
  BY <1>1, <1>6 DEF SchemaInv, EntryFresh, EntryReaches
<1>12. RefFresh'
  BY <1>1, <1>2, <1>4 DEF SchemaInv, RefFresh, AnswerIsFresh
<1>13. Evicted' /\ Drained'
  BY <1>1, <1>6, CallStays DEF SchemaInv, Evicted, Drained
<1>14. GoodIsIndexed'
  <2> SUFFICES ASSUME NEW s \in Path, Good(s)
               PROVE  \/ Indexed(s) \/ Doomed(s)
                      \/ ~Active /\ \E u \in Reader :
                                      Held(u)' /\ reader'[u].ref = parsed[s]
    BY <1>1, <1>6, CallStays DEF GoodIsIndexed, Indexed
  <2>1. CASE Indexed(s) \/ Doomed(s)
    BY <2>1
  <2>2. CASE ~Active /\ \E u \in Reader : Held(u) /\ reader[u].ref = parsed[s]
    <3>1. PICK u \in Reader : Held(u) /\ reader[u].ref = parsed[s]
      BY <2>2
    <3>2. CASE u # r
      BY <1>2, <1>4, <2>2, <3>1, <3>2
    <3>3. CASE u = r
      <4>1. reader[r].schema = s
        BY <3>1, <3>3 DEF SchemaInv, Owned
      <4>2. reader[r].deps = {} /\ Registers(r)
        BY <1>1, CheckFacts DEF ReaderFits
      <4> QED BY <1>1, <3>1, <3>3, <4>1, <4>2 DEF Registers, Indexed
    <3> QED BY <3>2, <3>3
  <2> QED BY <2>1, <2>2 DEF SchemaInv, GoodIsIndexed
<1>15. NoRaces' /\ PointsBack'
  BY <1>1, <1>2, <1>3 DEF SchemaInv, NoRaces, PointsBack, Active, Cached
<1>16. /\ ReaderFresh(r)' /\ WalkReaches(r)' /\ Registers(r)' /\ Undisturbed(r)'
  BY <1>2, <1>3, <1>4 DEF ReaderFresh, WalkReaches, Registers, Undisturbed
<1>17. ASSUME NEW u \in Reader \ {r}
       PROVE  ReaderFresh(u)' /\ WalkReaches(u)' /\ Registers(u)' /\ Undisturbed(u)'
  <2>1. ReaderFresh(u)' /\ WalkReaches(u)' /\ Undisturbed(u)'
    BY <1>1, <1>2, <1>4 DEF SchemaInv, ReaderFresh, WalkReaches, Undisturbed
  <2>2. Registers(u)'
    BY <1>1, <1>2, <1>6, CallStays DEF SchemaInv, Registers
  <2> QED BY <2>1, <2>2
<1> QED
  BY <1>1, <1>5, <1>7, <1>8, <1>9, <1>10, <1>11, <1>12, <1>13, <1>14, <1>15, <1>16,
     <1>17, CallStays
  DEF SchemaInv, SchemaTyped

LEMMA BeginCheckKeeps ==
  ASSUME SchemaInv, NEW r \in Reader, NEW s \in Schema, BeginCheck(r, s)
  PROVE  SchemaInv'
<1> DEFINE new == [Idle EXCEPT !.pc = "raw", !.schema = s, !.view = disk,
                               !.from = floor, !.raced = inv.at # Nil]
<1>1. /\ reader[r].pc = "idle" /\ SchemaTypeOK
      /\ UNCHANGED <<disk, floor, raw, parsed, entry, includes, dependents, inv>>
      /\ overlap' = (overlap \/ Active)
      /\ s \in Path
  BY CheckFacts, SchemaAssumption DEF BeginCheck, Active
<1>2. reader' = [reader EXCEPT ![r] = new]
  BY Zenon DEF BeginCheck
<1>3. /\ new \in ReaderRec /\ new.pc = "raw" /\ new.ref = Nil /\ new.raced = Active
      /\ new.schema = s /\ new.view = disk /\ new.from = floor
  BY <1>1, SchemaBasics DEF Idle, ReaderRec, SchemaTypeOK, Active
<1> HIDE DEF new
<1>4. /\ reader' \in [Reader -> ReaderRec] /\ reader'[r] = new
      /\ \A u \in Reader \ {r} : reader'[u] = reader[u]
  BY <1>1, <1>2, <1>3 DEF SchemaTypeOK
<1>5. ~Held(r) /\ \A u \in Reader : Held(u)' <=> Held(u)
  BY <1>1, <1>3, <1>4 DEF Held
<1>6. SchemaTypeOK'
  BY <1>1, <1>4 DEF SchemaTypeOK, Active
<1>7. \A q \in Path : Good(q)' <=> Good(q)
  BY <1>1 DEF Good
<1>8. ReaderFits(r)' /\ \A u \in Reader \ {r} : ReaderFits(u)'
  BY <1>1, <1>3, <1>4, <1>5 DEF SchemaInv, SchemaTyped, ReaderFits
<1>9. Owned'
  BY <1>1, <1>4, <1>5 DEF SchemaInv, Owned
<1>10. Below'
  <2>1. \A u \in Reader, p \in Path : reader'[u].from[p] <= floor'[p]
    <3>1. \A p \in Path : floor[p] \in Nat
      BY <1>1, SchemaBasics DEF SchemaTypeOK, Vers
    <3>2. \A p \in Path : reader'[r].from[p] <= floor[p]
      BY <1>3, <1>4, <3>1
    <3>3. \A u \in Reader \ {r}, p \in Path : reader'[u].from[p] <= floor[p]
      BY <1>4 DEF SchemaInv, Below
    <3> QED BY <1>1, <3>2, <3>3
  <2> QED BY <1>1, <2>1, CallStays DEF Below
<1>11. RacedWhileActive' /\ RawFresh'
  BY <1>1, <1>3, <1>4 DEF SchemaInv, RacedWhileActive, RawFresh, Active
<1>12. EntryFresh' /\ EntryReaches'
  BY <1>1, <1>7 DEF SchemaInv, EntryFresh, EntryReaches
<1>13. RefFresh'
  BY <1>1, <1>4, <1>5 DEF SchemaInv, RefFresh, AnswerIsFresh
<1>14. Evicted' /\ Drained'
  BY <1>1, <1>7, CallStays DEF SchemaInv, Evicted, Drained
<1>15. GoodIsIndexed'
  <2>1. \A u \in Reader : Held(u) => Held(u)' /\ reader'[u].ref = reader[u].ref
    BY <1>4, <1>5
  <2> QED BY <1>1, <1>7, <2>1, CallStays DEF SchemaInv, GoodIsIndexed, Indexed
<1>16. NoRaces' /\ PointsBack'
  BY <1>1, <1>3, <1>4 DEF SchemaInv, NoRaces, PointsBack, Active, Cached
<1>17. /\ WalkReaches(r)' /\ Registers(r)' /\ Undisturbed(r)'
  BY <1>3, <1>4, <1>5 DEF WalkReaches, Registers, Undisturbed
<1>18. ReaderFresh(r)'
  <2>1. \A p \in Path : disk[p] >= floor[p]
    BY <1>1, SchemaBasics DEF SchemaInv, Below, SchemaTypeOK, Vers
  <2> QED BY <1>1, <1>3, <1>4, <2>1 DEF ReaderFresh
<1>19. ASSUME NEW u \in Reader \ {r}
       PROVE  ReaderFresh(u)' /\ WalkReaches(u)' /\ Registers(u)' /\ Undisturbed(u)'
  <2>1. ReaderFresh(u)' /\ WalkReaches(u)' /\ Undisturbed(u)'
    BY <1>1, <1>4, <1>5 DEF SchemaInv, ReaderFresh, WalkReaches, Undisturbed
  <2>2. Registers(u)'
    BY <1>1, <1>4, <1>7, CallStays DEF SchemaInv, Registers
  <2> QED BY <2>1, <2>2
<1> QED
  BY <1>1, <1>6, <1>8, <1>9, <1>10, <1>11, <1>12, <1>13, <1>14, <1>15, <1>16, <1>17,
     <1>18, <1>19, CallStays
  DEF SchemaInv, SchemaTyped

LEMMA RegisterKeeps ==
  ASSUME SchemaInv, NEW r \in Reader, NEW f \in Path, Register(r, f)
  PROVE  SchemaInv'
<1> DEFINE s == reader[r].schema
           me == reader[r]
           new == [me EXCEPT !.deps = @ \ {f}]
<1>1. /\ me.pc = "register" /\ me \in ReaderRec /\ SchemaTypeOK
      /\ s \in Path /\ f \in me.deps
      /\ me.ref \in Entry /\ entry[me.ref].done
      /\ UNCHANGED <<disk, floor, raw, parsed, entry, includes, inv, overlap>>
      /\ dependents' = [dependents EXCEPT ![f] = @ \cup {s}]
  BY CheckFacts DEF Register, ReaderFits, Held
<1>2. reader' = [reader EXCEPT ![r] = new]
  BY Zenon DEF Register
<1>3. /\ new \in ReaderRec /\ new.pc = "register" /\ new.ref = me.ref
      /\ new.schema = s /\ new.from = me.from /\ new.raced = me.raced
      /\ new.deps = me.deps \ {f}
  BY <1>1 DEF ReaderRec
<1> HIDE DEF new
<1>4. /\ reader' \in [Reader -> ReaderRec] /\ reader'[r] = new
      /\ \A u \in Reader \ {r} : reader'[u] = reader[u]
      /\ dependents' \in [Path -> SUBSET Path]
      /\ \A p \in Path : dependents[p] \subseteq dependents'[p]
      /\ \A p \in Path : dependents'[p] \subseteq dependents[p] \cup {s}
      /\ \A p \in Path \ {f} : dependents'[p] = dependents[p]
      /\ s \in dependents'[f]
  BY <1>1, <1>2, <1>3 DEF SchemaTypeOK
<1>5. \A u \in Reader : /\ Held(u)' <=> Held(u)
                        /\ reader'[u].pc = reader[u].pc
                        /\ reader'[u].ref = reader[u].ref
                        /\ reader'[u].schema = reader[u].schema
                        /\ reader'[u].from = reader[u].from
                        /\ reader'[u].raced = reader[u].raced
  BY <1>1, <1>3, <1>4 DEF Held
<1>6. SchemaTypeOK'
  BY <1>1, <1>4 DEF SchemaTypeOK
<1>7. \A q \in Path : Good(q)' <=> Good(q)
  BY <1>1 DEF Good
<1>8. ReaderFits(r)' /\ \A u \in Reader \ {r} : ReaderFits(u)'
  <2>1. ReaderFits(r)'
    BY <1>1, <1>3, <1>4, <1>5, CheckFacts DEF ReaderFits
  <2>2. \A u \in Reader \ {r} : ReaderFits(u)'
    BY <1>1, <1>4, <1>5 DEF SchemaInv, SchemaTyped, ReaderFits
  <2> QED BY <2>1, <2>2
<1>9. Owned'
  BY <1>1, <1>5 DEF SchemaInv, Owned
<1>10. Below'
  BY <1>1, <1>5, CallStays DEF SchemaInv, Below
<1>11. RacedWhileActive' /\ RawFresh'
  BY <1>1, <1>5 DEF SchemaInv, RacedWhileActive, RawFresh, Active
<1>12. EntryFresh' /\ EntryReaches'
  BY <1>1, <1>7 DEF SchemaInv, EntryFresh, EntryReaches
<1>13. RefFresh'
  BY <1>1, <1>5 DEF SchemaInv, RefFresh, AnswerIsFresh
<1>14. Evicted' /\ Drained'
  BY <1>1, <1>7, CallStays DEF SchemaInv, Evicted, Drained
<1>15. GoodIsIndexed'
  <2>1. ASSUME NEW q \in Path, Good(q), Indexed(q)
        PROVE  Indexed(q)'
    <3>1. entry[parsed[q]].deps \subseteq Path
      BY <1>1, <2>1, EntriesAreEntries
      DEF SchemaInv, SchemaTypeOK, Good, EntryRec
    <3> QED BY <1>1, <1>4, <2>1, <3>1 DEF Indexed
  <2> QED BY <1>1, <1>5, <1>7, <2>1, CallStays DEF SchemaInv, GoodIsIndexed
<1>16. ASSUME NEW u \in Reader
       PROVE  Registers(u)'
  <2> SUFFICES ASSUME NEW q \in Path, reader[u].schema = q,
                      reader[u].pc \in {"register", "done"},
                      reader[u].ref = parsed[q], Good(q), ~Doomed(q),
                      NEW g \in entry[parsed[q]].deps \ reader'[u].deps
               PROVE  q \in dependents'[g]
    BY <1>1, <1>5, <1>7, CallStays DEF Registers
  <2>1. g \in Path
    BY <1>1, EntriesAreEntries DEF SchemaInv, SchemaTypeOK, Good, EntryRec
  <2>2. CASE g \in reader[u].deps
    <3>1. u = r
      BY <1>4, <2>2
    <3>2. g = f /\ q = s
      BY <1>3, <1>4, <2>2, <3>1
    <3> QED BY <1>4, <3>2
  <2>3. CASE g \notin reader[u].deps
    <3>1. q \in dependents[g]
      BY <2>3 DEF SchemaInv, Registers
    <3> QED BY <1>4, <2>1, <3>1
  <2> QED BY <2>2, <2>3
<1>17. ASSUME NEW u \in Reader
       PROVE  ReaderFresh(u)' /\ WalkReaches(u)' /\ Undisturbed(u)'
  <2>1. CASE u # r
    BY <1>1, <1>4, <1>5, <2>1 DEF SchemaInv, ReaderFresh, WalkReaches, Undisturbed
  <2>2. CASE u = r
    <3>1. Undisturbed(r)
      BY CheckFacts
    <3>2. Undisturbed(r)'
      BY <1>1, <1>3, <1>4, <1>5, <3>1 DEF Undisturbed
    <3> QED BY <1>1, <1>5, <2>2, <3>2 DEF ReaderFresh, WalkReaches
  <2> QED BY <2>1, <2>2
<1>18. NoRaces'
  BY <1>1, <1>5 DEF SchemaInv, NoRaces, Active
<1>19. PointsBack'
  <2> SUFFICES ASSUME ~overlap, NEW g \in Path, NEW q \in Path, q \in dependents'[g]
               PROVE  IF inv.frame[q].pc \in {"none", "raw", "read"}
                      THEN /\ Cached(q) /\ g \in entry[parsed[q]].deps
                           /\ g \in includes[q]
                      ELSE g \in inv.frame[q].incs
    BY <1>1 DEF PointsBack, Cached
  <2>1. CASE q \in dependents[g]
    BY <2>1 DEF SchemaInv, PointsBack
  <2>2. CASE q \notin dependents[g]
    <3>1. g = f /\ q = s
      BY <1>4, <2>2
    <3>2. inv.frame[s].pc = "none"
      BY <1>1, CallStays DEF SchemaInv, NoRaces, Active
    <3>3. /\ parsed[s] = me.ref /\ includes[s] = entry[me.ref].deps
          /\ me.deps \subseteq entry[me.ref].deps
      BY <1>1, CheckFacts DEF Undisturbed, Held
    <3> QED BY <1>1, <3>1, <3>2, <3>3, SchemaBasics DEF Cached
  <2> QED BY <2>1, <2>2
<1> QED
  BY <1>1, <1>6, <1>8, <1>9, <1>10, <1>11, <1>12, <1>13, <1>14, <1>15, <1>16, <1>17,
     <1>18, <1>19, CallStays
  DEF SchemaInv, SchemaTyped

LEMMA EndParseKeeps ==
  ASSUME SchemaInv, NEW r \in Reader, EndParse(r)
  PROVE  SchemaInv'
<1> DEFINE s == reader[r].schema
           me == reader[r]
           x == me.ref
           parse == [deps |-> me.deps, got |-> me.got, done |-> TRUE, lock |-> Nil,
                     raced |-> me.raced]
           new == [me EXCEPT !.pc = "meta", !.deps = {}, !.got = Unread, !.data = 0,
                             !.view = Zero]
<1>1. /\ me.pc = "walk" /\ me \in ReaderRec /\ SchemaTypeOK
      /\ s \in Path /\ x \in Entry
      /\ ~entry[x].done /\ entry[x].lock = r
      /\ UNCHANGED <<disk, floor, raw, parsed, includes, dependents, inv, overlap>>
      /\ entry' = [entry EXCEPT ![x] = parse]
      /\ Held(r)
  BY CheckFacts DEF EndParse, ReaderFits, Held
<1>2. reader' = [reader EXCEPT ![r] = new]
  BY Zenon DEF EndParse
<1>3. /\ new \in ReaderRec /\ new.pc = "meta" /\ new.ref = x
      /\ new.schema = s /\ new.from = me.from /\ new.raced = me.raced
  BY <1>1, SchemaBasics DEF ReaderRec
<1>4. /\ parse \in EntryRec /\ parse.deps = me.deps /\ parse.got = me.got
      /\ parse.done /\ parse.raced = me.raced
  BY <1>1, SchemaBasics DEF ReaderRec, EntryRec
<1> HIDE DEF new, parse
<1>5. /\ reader' \in [Reader -> ReaderRec] /\ reader'[r] = new
      /\ \A u \in Reader \ {r} : reader'[u] = reader[u]
      /\ entry' \in [Entry -> EntryRec] /\ entry'[x] = parse
      /\ \A y \in Entry \ {x} : entry'[y] = entry[y]
  BY <1>1, <1>2, <1>3, <1>4 DEF SchemaTypeOK
<1>6. \A u \in Reader : /\ Held(u)' <=> Held(u)
                        /\ reader'[u].pc = "idle" <=> reader[u].pc = "idle"
                        /\ reader'[u].ref = reader[u].ref
                        /\ reader'[u].schema = reader[u].schema
                        /\ reader'[u].from = reader[u].from
                        /\ reader'[u].raced = reader[u].raced
  BY <1>1, <1>3, <1>5 DEF Held
<1>7. SchemaTypeOK'
  BY <1>1, <1>5 DEF SchemaTypeOK
<1>8. /\ \A q \in Path : parsed[q] # Nil => parsed[q] \in Entry
      /\ \A u \in Reader : Held(u) => reader[u].ref \in Entry
  BY EntriesAreEntries DEF SchemaInv
<1>9. ASSUME NEW q \in Path, Good(q)'
      PROVE  \/ Good(q) /\ parsed[q] # x
             \/ q = s /\ parsed[q] = x /\ ~me.raced /\ ~Active
  <2>1. parsed[q] \in Entry
    BY <1>1, <1>8, <1>9 DEF Good
  <2>2. CASE parsed[q] # x
    BY <1>1, <1>5, <1>9, <2>1, <2>2 DEF Good
  <2>3. CASE parsed[q] = x
    <3>1. q = s
      BY <1>1, <2>3 DEF SchemaInv, Owned
    <3>2. ~me.raced
      BY <1>1, <1>4, <1>5, <1>9, <2>3 DEF Good
    <3>3. ~Active
      BY <1>1, <3>2 DEF SchemaInv, RacedWhileActive
    <3> QED BY <2>3, <3>1, <3>2, <3>3
  <2> QED BY <2>2, <2>3
<1>10. ASSUME NEW q \in Path, Good(q)', parsed[q] # x
       PROVE  entry'[parsed[q]] = entry[parsed[q]]
  BY <1>5, <1>8, <1>9, <1>10 DEF Good
<1>11. ~me.raced => \A p \in Path : me.got[p] # Nil => me.got[p] >= floor[p]
  BY <1>1, CheckFacts DEF ReaderFresh
<1>12. ASSUME NEW u \in Reader \ {r},
              reader[u].pc \in {"walk", "meta", "register", "done"}
       PROVE  reader[u].ref # x /\ entry'[reader[u].ref] = entry[reader[u].ref]
  <2>1. ReaderFits(u)
    BY DEF SchemaInv, SchemaTyped
  <2>2. reader[u].ref # x
    BY <1>1, <1>12, <2>1 DEF ReaderFits
  <2> QED BY <1>5, <1>8, <1>12, <2>2 DEF Held
<1>13. ReaderFits(r)' /\ \A u \in Reader \ {r} : ReaderFits(u)'
  <2>1. ReaderFits(r)'
    BY <1>1, <1>3, <1>4, <1>5, <1>6, <1>8, SchemaBasics DEF ReaderFits
  <2>2. ASSUME NEW u \in Reader \ {r} PROVE ReaderFits(u)'
    BY <1>5, <1>6, <1>12 DEF SchemaInv, SchemaTyped, ReaderFits
  <2> QED BY <2>1, <2>2
<1>14. Owned'
  BY <1>1, <1>6 DEF SchemaInv, Owned
<1>15. Below'
  BY <1>1, <1>6, CallStays DEF SchemaInv, Below
<1>16. RacedWhileActive' /\ RawFresh'
  BY <1>1, <1>6 DEF SchemaInv, RacedWhileActive, RawFresh, Active
<1>17. EntryFresh' /\ EntryReaches'
  <2> SUFFICES ASSUME NEW q \in Path, Good(q)', NEW p \in Path,
                      entry'[parsed[q]].got[p] # Nil
               PROVE  /\ entry'[parsed[q]].got[p] >= floor[p]
                      /\ p = q \/ p \in entry'[parsed[q]].deps
    BY <1>1 DEF EntryFresh, EntryReaches
  <2>1. CASE parsed[q] # x
    BY <1>9, <1>10, <2>1 DEF SchemaInv, EntryFresh, EntryReaches
  <2>2. CASE parsed[q] = x
    <3>1. q = s /\ ~me.raced
      BY <1>9, <2>2
    <3> QED BY <1>1, <1>4, <1>5, <1>11, <2>2, <3>1, CheckFacts DEF WalkReaches
  <2> QED BY <2>1, <2>2
<1>18. RefFresh'
  <2> SUFFICES ASSUME NEW u \in Reader, Held(u), entry'[reader[u].ref].done,
                      ~entry'[reader[u].ref].raced, NEW p \in Path,
                      entry'[reader[u].ref].got[p] # Nil
               PROVE  entry'[reader[u].ref].got[p] >= reader[u].from[p]
    BY <1>6 DEF RefFresh, AnswerIsFresh
  <2>1. CASE reader[u].ref # x
    BY <1>5, <1>8, <2>1 DEF SchemaInv, RefFresh, AnswerIsFresh
  <2>2. CASE reader[u].ref = x
    <3>1. me.got[p] # Nil /\ me.got[p] >= floor[p]
      BY <1>4, <1>5, <1>11, <2>2
    <3>2. me.got[p] \in Nat /\ floor[p] \in Nat /\ reader[u].from[p] \in Nat
      BY <1>1, <3>1, SchemaBasics DEF SchemaTypeOK, ReaderRec, Read, Vers
    <3>3. reader[u].from[p] <= floor[p]
      BY DEF SchemaInv, Below
    <3>4. entry'[reader[u].ref].got[p] = me.got[p]
      BY <1>4, <1>5, <2>2
    <3> QED BY <3>1, <3>2, <3>3, <3>4
  <2> QED BY <2>1, <2>2
<1>19. Evicted' /\ Drained'
  <2>1. ASSUME NEW q \in Path, Good(q)', Active
        PROVE  Good(q) /\ entry'[parsed[q]] = entry[parsed[q]]
    BY <1>9, <1>10, <2>1
  <2>2. CASE ~Active
    BY <1>1, <2>2, CallStays DEF Evicted, Drained
  <2>3. CASE Active
    BY <1>1, <2>1, <2>3, CallStays DEF SchemaInv, Evicted, Drained
  <2> QED BY <2>2, <2>3
<1>20. GoodIsIndexed'
  <2> SUFFICES ASSUME NEW q \in Path, Good(q)'
               PROVE  \/ Indexed(q)' \/ Doomed(q)
                      \/ ~Active /\ \E u \in Reader : Held(u) /\ reader[u].ref = parsed[q]
    BY <1>1, <1>6, CallStays DEF GoodIsIndexed
  <2>1. CASE parsed[q] # x
    BY <1>1, <1>9, <1>10, <2>1 DEF SchemaInv, GoodIsIndexed, Indexed
  <2>2. CASE parsed[q] = x
    BY <1>1, <1>9, <2>2
  <2> QED BY <2>1, <2>2
<1>21. NoRaces'
  BY <1>1, <1>4, <1>5, <1>6 DEF SchemaInv, NoRaces, Active
<1>22. PointsBack'
  <2> SUFFICES ASSUME ~overlap, NEW g \in Path, NEW q \in Path, q \in dependents[g],
                      inv.frame[q].pc \in {"none", "raw", "read"}
               PROVE  Cached(q)' /\ g \in entry'[parsed[q]].deps /\ g \in includes[q]
    BY <1>1 DEF SchemaInv, PointsBack
  <2>1. Cached(q) /\ g \in entry[parsed[q]].deps /\ g \in includes[q]
    BY DEF SchemaInv, PointsBack
  <2>2. entry'[parsed[q]] = entry[parsed[q]]
    BY <1>1, <1>5, <1>8, <2>1 DEF Cached
  <2> QED BY <1>1, <2>1, <2>2 DEF Cached
<1>23. /\ ReaderFresh(r)' /\ WalkReaches(r)' /\ Registers(r)' /\ Undisturbed(r)'
  <2>1. Undisturbed(r)'
    BY <1>1, <1>3, <1>5, <1>6, CheckFacts DEF Undisturbed
  <2> QED BY <1>3, <1>5, <2>1 DEF ReaderFresh, WalkReaches, Registers
<1>24. ASSUME NEW u \in Reader \ {r}
       PROVE  ReaderFresh(u)' /\ WalkReaches(u)' /\ Registers(u)' /\ Undisturbed(u)'
  <2>1. ReaderFresh(u)' /\ WalkReaches(u)'
    BY <1>1, <1>5 DEF SchemaInv, ReaderFresh, WalkReaches
  <2>2. Undisturbed(u)'
    BY <1>1, <1>5, <1>6, <1>12 DEF SchemaInv, Undisturbed
  <2>3. Registers(u)'
    <3> SUFFICES ASSUME NEW q \in Path, reader[u].schema = q,
                        reader[u].pc \in {"register", "done"},
                        reader[u].ref = parsed[q], Good(q)', ~Doomed(q),
                        NEW g \in entry'[parsed[q]].deps \ reader[u].deps
                 PROVE  q \in dependents[g]
      BY <1>1, <1>5, CallStays DEF Registers
    <3>1. parsed[q] # x
      BY <1>12
    <3> QED BY <1>9, <1>10, <3>1 DEF SchemaInv, Registers
  <2> QED BY <2>1, <2>2, <2>3
<1> QED
  BY <1>1, <1>7, <1>13, <1>14, <1>15, <1>16, <1>17, <1>18, <1>19, <1>20, <1>21, <1>22,
     <1>23, <1>24, CallStays
  DEF SchemaInv, SchemaTyped

(* A check that finds an entry takes it; the entry is its schema's.        *)
LEMMA FindKeeps ==
  ASSUME SchemaInv, NEW r \in Reader, Load(r), parsed[reader[r].schema] # Nil
  PROVE  SchemaInv'
<1> DEFINE s == reader[r].schema
           me == reader[r]
           new == [me EXCEPT !.pc = "lock", !.ref = parsed[s]]
<1>1. /\ me.pc = "load" /\ me \in ReaderRec /\ SchemaTypeOK
      /\ s \in Path /\ parsed[s] \in Entry
      /\ UNCHANGED <<disk, floor, raw, parsed, entry, includes, dependents, inv, overlap>>
  BY CheckFacts, EntriesAreEntries DEF Load, SchemaInv
<1>2. reader' = [reader EXCEPT ![r] = new]
  BY Zenon DEF Load
<1>3. /\ new \in ReaderRec /\ new.pc = "lock" /\ new.ref = parsed[s]
      /\ new.schema = s /\ new.from = me.from /\ new.raced = me.raced
      /\ new.view = me.view /\ new.data = me.data
  BY <1>1 DEF ReaderRec
<1> HIDE DEF new
<1>4. /\ reader' \in [Reader -> ReaderRec] /\ reader'[r] = new
      /\ \A u \in Reader \ {r} : reader'[u] = reader[u]
  BY <1>1, <1>2, <1>3 DEF SchemaTypeOK
<1>5. ~Held(r) /\ Held(r)' /\ \A u \in Reader \ {r} : Held(u)' <=> Held(u)
  BY <1>1, <1>3, <1>4 DEF Held
<1>6. SchemaTypeOK'
  BY <1>1, <1>4 DEF SchemaTypeOK
<1>7. \A q \in Path : Good(q)' <=> Good(q)
  BY <1>1 DEF Good
<1>8. ReaderFits(r)' /\ \A u \in Reader \ {r} : ReaderFits(u)'
  <2>1. ReaderFits(r)'
    BY <1>1, <1>3, <1>4, <1>5, SchemaBasics DEF ReaderFits
  <2> QED BY <1>1, <1>4, <1>5, <2>1 DEF SchemaInv, SchemaTyped, ReaderFits
<1>9. Owned'
  BY <1>1, <1>3, <1>4, <1>5 DEF SchemaInv, Owned
<1>10. Below'
  BY <1>1, <1>3, <1>4, CallStays DEF SchemaInv, Below
<1>11. RacedWhileActive' /\ RawFresh'
  BY <1>1, <1>3, <1>4 DEF SchemaInv, RacedWhileActive, RawFresh, Active
<1>12. EntryFresh' /\ EntryReaches'
  BY <1>1, <1>7 DEF SchemaInv, EntryFresh, EntryReaches
<1>13. RefFresh'
  <2> SUFFICES ASSUME NEW u \in Reader, Held(u)', entry[reader'[u].ref].done,
                      ~entry[reader'[u].ref].raced, NEW p \in Path,
                      entry[reader'[u].ref].got[p] # Nil
               PROVE  entry[reader'[u].ref].got[p] >= reader'[u].from[p]
    BY <1>1 DEF RefFresh, AnswerIsFresh
  <2>1. CASE u # r
    BY <1>4, <1>5, <2>1 DEF SchemaInv, RefFresh, AnswerIsFresh
  <2>2. CASE u = r
    <3>1. Good(s) /\ reader'[u].ref = parsed[s] /\ reader'[u].from = me.from
      BY <1>1, <1>3, <1>4, <2>2, SchemaBasics DEF Good
    <3>2. entry[parsed[s]].got[p] >= floor[p] /\ me.from[p] <= floor[p]
      BY <1>1, <3>1 DEF SchemaInv, EntryFresh, Below
    <3>3. entry[parsed[s]].got[p] \in Nat /\ floor[p] \in Nat /\ me.from[p] \in Nat
      BY <1>1, <3>1, SchemaBasics DEF SchemaTypeOK, ReaderRec, EntryRec, Read, Vers
    <3> QED BY <3>1, <3>2, <3>3
  <2> QED BY <2>1, <2>2
<1>14. Evicted' /\ Drained'
  BY <1>1, <1>7, CallStays DEF SchemaInv, Evicted, Drained
<1>15. GoodIsIndexed'
  <2>1. \A u \in Reader : Held(u) => Held(u)' /\ reader'[u].ref = reader[u].ref
    BY <1>4, <1>5
  <2> QED BY <1>1, <1>7, <2>1, CallStays DEF SchemaInv, GoodIsIndexed, Indexed
<1>16. NoRaces' /\ PointsBack'
  BY <1>1, <1>3, <1>4 DEF SchemaInv, NoRaces, PointsBack, Active, Cached
<1>17. /\ WalkReaches(r)' /\ Registers(r)' /\ Undisturbed(r)'
  BY <1>1, <1>3, <1>4 DEF WalkReaches, Registers, Undisturbed
<1>18. ReaderFresh(r)'
  BY <1>1, <1>3, <1>4, CheckFacts DEF ReaderFresh
<1>19. ASSUME NEW u \in Reader \ {r}
       PROVE  ReaderFresh(u)' /\ WalkReaches(u)' /\ Registers(u)' /\ Undisturbed(u)'
  <2>1. ReaderFresh(u)' /\ WalkReaches(u)' /\ Undisturbed(u)'
    BY <1>1, <1>4, <1>5 DEF SchemaInv, ReaderFresh, WalkReaches, Undisturbed
  <2>2. Registers(u)'
    BY <1>1, <1>4, <1>7, CallStays DEF SchemaInv, Registers
  <2> QED BY <2>1, <2>2
<1> QED
  BY <1>1, <1>6, <1>8, <1>9, <1>10, <1>11, <1>12, <1>13, <1>14, <1>15, <1>16, <1>17,
     <1>18, <1>19, CallStays
  DEF SchemaInv, SchemaTyped

(* A check that finds none puts a new entry in the map.                    *)
LEMMA MissKeeps ==
  ASSUME SchemaInv, NEW r \in Reader, Load(r), parsed[reader[r].schema] = Nil
  PROVE  SchemaInv'
<1> DEFINE s == reader[r].schema
           me == reader[r]
           new == [me EXCEPT !.pc = "lock", !.ref = Fresh]
<1>1. /\ me.pc = "load" /\ me \in ReaderRec /\ SchemaTypeOK
      /\ s \in Path /\ Unused # {}
      /\ UNCHANGED <<disk, floor, raw, includes, dependents, inv, overlap>>
      /\ parsed' = [parsed EXCEPT ![s] = Fresh]
      /\ entry' = [entry EXCEPT ![Fresh] = Blank]
  BY CheckFacts DEF Load
<1>2. reader' = [reader EXCEPT ![r] = new]
  BY Zenon DEF Load
<1>3. /\ Fresh \in Entry /\ Fresh # Nil
      /\ \A p \in Path : parsed[p] # Fresh
      /\ \A u \in Reader : reader[u].ref # Fresh
  <2>1. Fresh \in Unused
    BY <1>1 DEF Fresh
  <2> QED BY <2>1, SchemaBasics DEF Unused
<1> HIDE DEF Fresh
<1>4. /\ new \in ReaderRec /\ new.pc = "lock" /\ new.ref = Fresh
      /\ new.schema = s /\ new.from = me.from /\ new.raced = me.raced
      /\ new.view = me.view /\ new.data = me.data
  BY <1>1, <1>3 DEF ReaderRec
<1> HIDE DEF new
<1>5. /\ reader' \in [Reader -> ReaderRec] /\ reader'[r] = new
      /\ \A u \in Reader \ {r} : reader'[u] = reader[u]
      /\ parsed' \in [Path -> Entry \cup {Nil}] /\ parsed'[s] = Fresh
      /\ \A q \in Path \ {s} : parsed'[q] = parsed[q]
      /\ entry' \in [Entry -> EntryRec] /\ entry'[Fresh] = Blank
      /\ \A y \in Entry \ {Fresh} : entry'[y] = entry[y]
  BY <1>1, <1>2, <1>3, <1>4, SchemaBasics DEF SchemaTypeOK
<1>6. ~Held(r) /\ Held(r)' /\ \A u \in Reader \ {r} : Held(u)' <=> Held(u)
  BY <1>1, <1>4, <1>5 DEF Held
<1>7. SchemaTypeOK'
  BY <1>1, <1>5 DEF SchemaTypeOK
<1>8. /\ \A q \in Path : parsed[q] # Nil => parsed[q] \in Entry
      /\ \A u \in Reader : Held(u) => reader[u].ref \in Entry
  BY EntriesAreEntries DEF SchemaInv
<1>9. ~Blank.done /\ ~Blank.raced
  BY DEF Blank
<1>10. ASSUME NEW q \in Path, Good(q)'
       PROVE  /\ Good(q) /\ q # s /\ parsed'[q] = parsed[q] /\ parsed[q] # Fresh
              /\ parsed[q] \in Entry /\ entry'[parsed'[q]] = entry[parsed[q]]
  <2>1. q # s
    BY <1>5, <1>9, <1>10 DEF Good
  <2> QED BY <1>3, <1>5, <1>8, <1>10, <2>1 DEF Good
<1>11. \A u \in Reader \ {r} : Held(u) =>
         reader[u].ref # Fresh /\ entry'[reader[u].ref] = entry[reader[u].ref]
  BY <1>3, <1>5, <1>8
<1>12. ReaderFits(r)' /\ \A u \in Reader \ {r} : ReaderFits(u)'
  <2>1. ReaderFits(r)'
    BY <1>1, <1>3, <1>4, <1>5, <1>6 DEF ReaderFits
  <2>2. ASSUME NEW u \in Reader \ {r} PROVE ReaderFits(u)'
    BY <1>5, <1>6, <1>11 DEF SchemaInv, SchemaTyped, ReaderFits, Held
  <2> QED BY <2>1, <2>2
<1>13. Owned'
  <2>1. ASSUME NEW q \in Path, NEW p \in Path, parsed'[q] # Nil, parsed'[q] = parsed'[p]
        PROVE  q = p
    BY <1>3, <1>5, <2>1 DEF SchemaInv, Owned
  <2>2. ASSUME NEW u \in Reader, NEW p \in Path, Held(u)', reader'[u].ref = parsed'[p]
        PROVE  reader'[u].schema = p
    <3>1. CASE u = r
      BY <1>3, <1>4, <1>5, <2>2, <3>1
    <3>2. CASE u # r
      BY <1>3, <1>5, <1>6, <2>2, <3>2 DEF SchemaInv, Owned
    <3> QED BY <3>1, <3>2
  <2> QED BY <2>1, <2>2 DEF Owned
<1>14. Below'
  BY <1>1, <1>4, <1>5, CallStays DEF SchemaInv, Below
<1>15. RacedWhileActive' /\ RawFresh'
  BY <1>1, <1>4, <1>5 DEF SchemaInv, RacedWhileActive, RawFresh, Active
<1>16. EntryFresh' /\ EntryReaches'
  BY <1>1, <1>10 DEF SchemaInv, EntryFresh, EntryReaches
<1>17. RefFresh'
  <2> SUFFICES ASSUME NEW u \in Reader, Held(u)', entry'[reader'[u].ref].done,
                      ~entry'[reader'[u].ref].raced
               PROVE  AnswerIsFresh(u)'
    BY DEF RefFresh
  <2>1. u # r
    BY <1>4, <1>5, <1>9
  <2> QED BY <1>5, <1>6, <1>11, <2>1 DEF SchemaInv, RefFresh, AnswerIsFresh
<1>18. Evicted' /\ Drained'
  BY <1>1, <1>10, CallStays DEF SchemaInv, Evicted, Drained
<1>19. GoodIsIndexed'
  <2> SUFFICES ASSUME NEW q \in Path, Good(q)'
               PROVE  \/ Indexed(q)' \/ Doomed(q)
                      \/ ~Active /\ \E u \in Reader :
                                      Held(u)' /\ reader'[u].ref = parsed'[q]
    BY <1>1, CallStays DEF GoodIsIndexed
  <2>1. \A u \in Reader : Held(u) => Held(u)' /\ reader'[u].ref = reader[u].ref
    BY <1>5, <1>6
  <2> QED BY <1>1, <1>10, <2>1 DEF SchemaInv, GoodIsIndexed, Indexed
<1>20. NoRaces'
  BY <1>1, <1>4, <1>5, <1>9 DEF SchemaInv, NoRaces, Active
<1>21. PointsBack'
  <2> SUFFICES ASSUME ~overlap, NEW g \in Path, NEW q \in Path, q \in dependents[g],
                      inv.frame[q].pc \in {"none", "raw", "read"}
               PROVE  Cached(q)' /\ g \in entry'[parsed'[q]].deps /\ g \in includes[q]
    BY <1>1 DEF SchemaInv, PointsBack
  <2>1. Cached(q) /\ g \in entry[parsed[q]].deps /\ g \in includes[q]
    BY DEF SchemaInv, PointsBack
  <2>2. parsed'[q] = parsed[q] /\ entry'[parsed[q]] = entry[parsed[q]]
    BY <1>3, <1>5, <1>8, <2>1 DEF Cached
  <2> QED BY <1>1, <2>1, <2>2 DEF Cached
<1>22. /\ WalkReaches(r)' /\ Registers(r)' /\ Undisturbed(r)'
  BY <1>1, <1>4, <1>5 DEF WalkReaches, Registers, Undisturbed
<1>23. ReaderFresh(r)'
  BY <1>1, <1>4, <1>5, CheckFacts DEF ReaderFresh
<1>24. ASSUME NEW u \in Reader \ {r}
       PROVE  ReaderFresh(u)' /\ WalkReaches(u)' /\ Registers(u)' /\ Undisturbed(u)'
  <2>1. ReaderFresh(u)' /\ WalkReaches(u)'
    BY <1>1, <1>5 DEF SchemaInv, ReaderFresh, WalkReaches
  <2>2. Undisturbed(u)'
    <3> SUFFICES ASSUME ~overlap, Held(u)
                 PROVE  /\ parsed'[reader[u].schema] = reader[u].ref
                        /\ reader[u].pc = "register" =>
                             /\ includes[reader[u].schema] = entry'[reader[u].ref].deps
                             /\ reader[u].deps \subseteq entry'[reader[u].ref].deps
      BY <1>1, <1>5, <1>6 DEF Undisturbed
    <3>1. reader[u].schema \in Path /\ reader[u].ref # Nil
      BY CheckFacts, <1>8, SchemaBasics DEF Held
    <3>2. parsed[reader[u].schema] = reader[u].ref
      BY DEF SchemaInv, Undisturbed
    <3>3. parsed'[reader[u].schema] = parsed[reader[u].schema]
      BY <1>5, <3>1, <3>2
    <3> QED BY <1>11, <3>2, <3>3 DEF SchemaInv, Undisturbed
  <2>3. Registers(u)'
    <3> SUFFICES ASSUME NEW q \in Path, reader[u].schema = q,
                        reader[u].pc \in {"register", "done"},
                        reader[u].ref = parsed'[q], Good(q)', ~Doomed(q),
                        NEW g \in entry'[parsed'[q]].deps \ reader[u].deps
                 PROVE  q \in dependents[g]
      BY <1>1, <1>5, CallStays DEF Registers
    <3> QED BY <1>10 DEF SchemaInv, Registers
  <2> QED BY <2>1, <2>2, <2>3
<1> QED
  BY <1>1, <1>7, <1>12, <1>13, <1>14, <1>15, <1>16, <1>17, <1>18, <1>19, <1>20, <1>21,
     <1>22, <1>23, <1>24, CallStays
  DEF SchemaInv, SchemaTyped

LEMMA EditKeeps ==
  ASSUME SchemaInv, NEW p \in Path, Edit(p)
  PROVE  SchemaInv'
<1>1. /\ SchemaTypeOK /\ disk[p] < MaxVer /\ disk' = [disk EXCEPT ![p] = @ + 1]
      /\ UNCHANGED <<floor, raw, parsed, entry, includes, dependents, reader, inv,
                     overlap>>
  BY DEF Edit, SchemaInv, SchemaTyped
<1>2. /\ disk' \in Vers /\ \A q \in Path : disk'[q] >= disk[q] /\ disk[q] \in Nat
      /\ \A q \in Path : disk'[q] \in Nat /\ floor[q] \in Nat
      /\ inv.ver \in Nat
  BY <1>1, SchemaBasics DEF SchemaTypeOK, Vers, Ver, InvRec
<1>3. SchemaTypeOK'
  BY <1>1, <1>2 DEF SchemaTypeOK
<1>4. Frames' = Frames /\ (Active' <=> Active) /\ Stacked'
  BY <1>1 DEF SchemaInv, Stacked, StackIs, Active, Frames
<1>5. Below'
  <2>1. \A q \in Path : floor'[q] <= disk'[q]
    BY <1>1, <1>2 DEF SchemaInv, Below
  <2>2. \A q \in Frames' : inv'.frame[q].up = Nil => inv'.ver <= disk'[q]
    <3>1. \A q \in Frames : inv.frame[q].up = Nil => inv.ver <= disk[q]
      BY DEF SchemaInv, Below
    <3>2. Frames \subseteq Path
      BY DEF Frames
    <3> QED BY <1>1, <1>2, <1>4, <3>1, <3>2
  <2> QED BY <1>1, <2>1, <2>2 DEF SchemaInv, Below
<1>6. \A s \in Path : (Good(s)' <=> Good(s)) /\ (Doomed(s)' <=> Doomed(s))
                      /\ (Indexed(s)' <=> Indexed(s))
  BY <1>1 DEF Good, Doomed, Indexed
<1>7. \A r \in Reader : Held(r)' <=> Held(r)
  BY <1>1 DEF Held
<1>8. Owned' /\ RacedWhileActive' /\ RawFresh' /\ RefFresh'
  BY <1>1, <1>7
  DEF SchemaInv, Owned, RacedWhileActive, RawFresh, RefFresh, AnswerIsFresh, Active
<1>9. EntryFresh' /\ EntryReaches' /\ Evicted' /\ Drained'
  <2>1. inv.visited \subseteq Path
    BY <1>1 DEF SchemaTypeOK, InvRec
  <2> QED BY <1>1, <1>4, <1>6, <2>1
      DEF SchemaInv, EntryFresh, EntryReaches, Evicted, Drained
<1>10. GoodIsIndexed'
  BY <1>1, <1>4, <1>6, <1>7 DEF SchemaInv, GoodIsIndexed
<1>11. NoRaces' /\ PointsBack'
  BY <1>1 DEF SchemaInv, NoRaces, PointsBack, Active, Cached
<1>12. ASSUME NEW r \in Reader
       PROVE  /\ ReaderFits(r)' /\ ReaderFresh(r)' /\ WalkReaches(r)'
              /\ Registers(r)' /\ Undisturbed(r)'
  <2>1. /\ ReaderFits(r)' /\ ReaderFresh(r)' /\ WalkReaches(r)' /\ Undisturbed(r)'
    BY <1>1, <1>7, CheckFacts DEF ReaderFits, ReaderFresh, WalkReaches, Undisturbed
  <2>2. Registers(r)'
    BY <1>1, <1>6, CheckFacts DEF Registers
  <2> QED BY <2>1, <2>2
<1> QED
  BY <1>3, <1>4, <1>5, <1>8, <1>9, <1>10, <1>11, <1>12 DEF SchemaInv, SchemaTyped

LEMMA BeginInvalidateKeeps ==
  ASSUME SchemaInv, NEW p \in Path, BeginInvalidate(p)
  PROVE  SchemaInv'
<1> DEFINE first == [Quiet.frame[p] EXCEPT !.pc = "raw"]
           race(r) == IF reader[r].pc = "idle" THEN Idle
                      ELSE [reader[r] EXCEPT !.raced = TRUE]
           spoil(x) == IF \E r \in Reader : reader[r].ref = x
                       THEN [entry[x] EXCEPT !.raced = TRUE] ELSE entry[x]
<1>1. /\ ~Active /\ inv = Quiet /\ SchemaTypeOK
      /\ UNCHANGED <<disk, floor, raw, parsed, includes, dependents>>
      /\ overlap' = (overlap \/ \E r \in Reader : reader[r].pc # "idle")
      /\ \A q \in Path : inv.frame[q].pc = "none"
      /\ inv.visited = {}
  <2>1. ~Active /\ inv = Quiet /\ SchemaTypeOK
    BY DEF BeginInvalidate, SchemaInv, SchemaTyped, Active, Stacked
  <2>2. /\ UNCHANGED <<disk, floor, raw, parsed, includes, dependents>>
        /\ overlap' = (overlap \/ \E r \in Reader : reader[r].pc # "idle")
    BY DEF BeginInvalidate
  <2> QED BY <2>1, <2>2, SchemaBasics DEF NoFrame
<1>2. /\ inv' = [at |-> p, visited |-> {p}, ver |-> disk[p],
                 frame |-> [Quiet.frame EXCEPT ![p] = first]]
      /\ reader' = [r \in Reader |-> race(r)]
      /\ entry' = [x \in Entry |-> spoil(x)]
  BY Zenon DEF BeginInvalidate
<1>3. first \in FrameRec /\ first.pc = "raw" /\ first.up = Nil /\ NoFrame.pc = "none"
  <2>1. first = [NoFrame EXCEPT !.pc = "raw"]
    BY SchemaBasics
  <2> HIDE DEF first
  <2> QED BY <2>1, SchemaBasics DEF NoFrame, FrameRec
<1>4. /\ inv'.at = p /\ inv'.visited = {p} /\ inv'.ver = disk[p] /\ inv' \in InvRec
      /\ inv'.frame[p].pc = "raw" /\ inv'.frame[p].up = Nil
      /\ \A q \in Path \ {p} : inv'.frame[q].pc = "none"
  <2>1. /\ Quiet.frame \in [Path -> FrameRec] /\ disk[p] \in Ver
    BY <1>1, SchemaBasics DEF InvRec, SchemaTypeOK, Vers
  <2> HIDE DEF first
  <2> QED BY <1>2, <1>3, <2>1, SchemaBasics DEF InvRec
<1>5. Active' /\ Frames' = {p}
  BY <1>4, SchemaBasics DEF Active, Frames
<1>6. ASSUME NEW r \in Reader
      PROVE  /\ race(r) \in ReaderRec /\ race(r).pc = reader[r].pc
             /\ race(r).ref = reader[r].ref
             /\ race(r).pc # "idle" =>
                  /\ race(r).raced /\ race(r).schema = reader[r].schema
                  /\ race(r).from = reader[r].from /\ race(r).got = reader[r].got
                  /\ race(r).deps = reader[r].deps
             /\ race(r).pc = "idle" => ~race(r).raced /\ race(r).from = Zero
  <2>1. reader[r] \in ReaderRec /\ (reader[r].pc = "idle" => reader[r].ref = Nil)
    BY CheckFacts DEF ReaderFits, Held
  <2> QED BY <2>1, SchemaBasics DEF ReaderRec, Idle
<1>7. ASSUME NEW x \in Entry
      PROVE  /\ spoil(x) \in EntryRec
             /\ spoil(x).got = entry[x].got /\ spoil(x).deps = entry[x].deps
             /\ spoil(x).done = entry[x].done /\ spoil(x).lock = entry[x].lock
             /\ (\E r \in Reader : reader[r].ref = x) => spoil(x).raced
             /\ (\A r \in Reader : reader[r].ref # x) => spoil(x) = entry[x]
             /\ entry[x].raced => spoil(x).raced
  <2>1. entry[x] \in EntryRec
    BY <1>1 DEF SchemaTypeOK
  <2> QED BY <2>1 DEF EntryRec
<1> HIDE DEF race, spoil, first
<1>8. /\ reader' \in [Reader -> ReaderRec] /\ entry' \in [Entry -> EntryRec]
      /\ \A r \in Reader : reader'[r] = race(r)
      /\ \A x \in Entry : entry'[x] = spoil(x)
  BY <1>2, <1>6, <1>7
<1>9. \A r \in Reader : Held(r)' <=> Held(r)
  BY <1>6, <1>8 DEF Held
<1>10. /\ \A q \in Path : parsed[q] # Nil => parsed[q] \in Entry
       /\ \A u \in Reader : Held(u) => reader[u].ref \in Entry
  BY EntriesAreEntries DEF SchemaInv
<1>11. ASSUME NEW q \in Path, Good(q)'
       PROVE  /\ Good(q) /\ parsed[q] \in Entry /\ entry'[parsed[q]] = entry[parsed[q]]
              /\ \A r \in Reader : reader[r].ref # parsed[q]
  BY <1>1, <1>7, <1>8, <1>10, <1>11 DEF Good
<1>12. SchemaTypeOK'
  BY <1>1, <1>4, <1>8 DEF SchemaTypeOK
<1>13. Stacked'
  <2> DEFINE st == [i \in 1..1 |-> p]
  <2>1. StackIs(1, st)'
    BY <1>4, <1>5 DEF StackIs
  <2>2. st \in [1..1 -> Path]
    OBVIOUS
  <2> HIDE DEF st
  <2>3. \E n \in Nat \ {0} : \E u \in [1..n -> Path] : StackIs(n, u)'
    <3>1. 1 \in Nat \ {0}
      OBVIOUS
    <3> QED BY <2>1, <2>2, <3>1, Zenon
  <2> QED BY <1>4, <1>5, <2>3 DEF Stacked
<1>14. Owned'
  BY <1>1, <1>6, <1>8, <1>9 DEF SchemaInv, Owned, Held
<1>15. Below'
  <2>1. \A u \in Reader, q \in Path : reader'[u].from[q] <= floor'[q]
    <3>1. \A q \in Path : floor[q] \in Nat /\ Zero[q] = 0
      BY <1>1, SchemaBasics DEF SchemaTypeOK, Vers, Zero
    <3>2. \A u \in Reader, q \in Path : reader[u].from[q] <= floor[q]
      BY DEF SchemaInv, Below
    <3>3. ASSUME NEW u \in Reader, NEW q \in Path PROVE reader'[u].from[q] <= floor[q]
      BY <1>6, <1>8, <3>1, <3>2
    <3> QED BY <1>1, <3>3
  <2>2. \A q \in Path : floor[q] <= disk[q]
    BY DEF SchemaInv, Below
  <2>3. disk[p] <= disk[p]
    <3>1. disk[p] \in Nat
      BY <1>1, SchemaBasics DEF SchemaTypeOK, Vers
    <3> QED BY <3>1
  <2> QED BY <1>1, <1>4, <1>5, <2>1, <2>2, <2>3 DEF Below
<1>16. RacedWhileActive'
  BY <1>6, <1>8 DEF RacedWhileActive
<1>17. RawFresh'
  BY <1>1, <1>4 DEF SchemaInv, RawFresh
<1>18. EntryFresh' /\ EntryReaches'
  BY <1>1, <1>11 DEF SchemaInv, EntryFresh, EntryReaches
<1>19. RefFresh'
  BY <1>6, <1>7, <1>8, <1>9, <1>10 DEF RefFresh
<1>20. Evicted' /\ Drained'
  BY <1>4, <1>5 DEF Evicted, Drained
<1>21. GoodIsIndexed'
  <2>1. ASSUME NEW q \in Path, Good(q)' PROVE Indexed(q)'
    BY <1>1, <1>11, <2>1 DEF SchemaInv, GoodIsIndexed, Doomed, Indexed
  <2> QED BY <2>1 DEF GoodIsIndexed
<1>22. ~overlap' => /\ \A r \in Reader : reader[r].pc = "idle"
                    /\ \A x \in Entry : entry'[x] = entry[x]
  <2> SUFFICES ASSUME ~overlap' PROVE /\ \A r \in Reader : reader[r].pc = "idle"
                                      /\ \A x \in Entry : entry'[x] = entry[x]
    OBVIOUS
  <2>1. \A r \in Reader : reader[r].pc = "idle"
    BY <1>1
  <2>2. \A r \in Reader : reader[r].ref = Nil
    BY <2>1, CheckFacts DEF ReaderFits, Held
  <2> QED BY <1>7, <1>8, <2>1, <2>2, SchemaBasics
<1>23. NoRaces'
  <2> SUFFICES ASSUME ~overlap' PROVE NoRaces'
    BY DEF NoRaces
  <2>1. NoRaces /\ ~overlap
    BY <1>1 DEF SchemaInv
  <2>2. \A r \in Reader : reader'[r].pc = "idle" /\ ~reader'[r].raced
    BY <1>6, <1>8, <1>22
  <2>3. \A x \in Entry : ~entry'[x].raced
    BY <1>22, <2>1 DEF NoRaces
  <2> QED BY <1>1, <2>1, <2>2, <2>3 DEF NoRaces
<1>24. PointsBack'
  <2> SUFFICES ASSUME ~overlap', NEW g \in Path, NEW q \in Path, q \in dependents[g]
               PROVE  Cached(q)' /\ g \in entry'[parsed[q]].deps /\ g \in includes[q]
    BY <1>1, <1>4 DEF PointsBack
  <2>1. Cached(q) /\ g \in entry[parsed[q]].deps /\ g \in includes[q]
    BY <1>1 DEF SchemaInv, PointsBack
  <2> QED BY <1>1, <1>10, <1>22, <2>1 DEF Cached
<1>25. ASSUME NEW r \in Reader
       PROVE  /\ ReaderFits(r)' /\ ReaderFresh(r)' /\ WalkReaches(r)'
              /\ Registers(r)' /\ Undisturbed(r)'
  <2>1. ReaderFits(r) /\ WalkReaches(r)
    BY CheckFacts
  <2>2. ReaderFits(r)'
    BY <1>6, <1>7, <1>8, <1>9, <1>10, <2>1 DEF ReaderFits, Held
  <2>3. ReaderFresh(r)' /\ WalkReaches(r)'
    BY <1>6, <1>8, <2>1 DEF ReaderFresh, WalkReaches
  <2>4. Registers(r)'
    BY <1>1, <1>6, <1>8, <1>11 DEF Registers
  <2>5. Undisturbed(r)'
    BY <1>9, <1>22 DEF Undisturbed, Held
  <2> QED BY <2>2, <2>3, <2>4, <2>5
<1> QED
  BY <1>12, <1>13, <1>14, <1>15, <1>16, <1>17, <1>18, <1>19, <1>20, <1>21, <1>23,
     <1>24, <1>25
  DEF SchemaInv, SchemaTyped

-----------------------------------------------------------------------------
(* The steps of an Invalidate.                                             *)

(* The map and the raw slots only lose entries, and nothing else than the  *)
(* index and the Invalidate itself changes.                                *)
DropsOnly ==
  /\ UNCHANGED <<disk, entry, reader, overlap>>
  /\ raw' \in [Path -> [ver : Ver, raced : BOOLEAN] \cup {Nil}]
  /\ parsed' \in [Path -> Entry \cup {Nil}]
  /\ includes' \in [Path -> SUBSET Path]
  /\ dependents' \in [Path -> SUBSET Path]
  /\ \A s \in Path : parsed'[s] \in {parsed[s], Nil}
  /\ \A s \in Path : raw'[s] \in {raw[s], Nil}

LEMMA RunningFrame ==
  ASSUME SchemaInv, Active
  PROVE  /\ inv.at \in Path /\ inv.at \in Frames /\ inv.at \in inv.visited
         /\ Here \in FrameRec /\ inv \in InvRec /\ inv.frame \in [Path -> FrameRec]
         /\ inv.visited \subseteq Path /\ inv.visited \in SUBSET Path
         /\ Frames \subseteq inv.visited /\ inv.ver \in Ver
         /\ \A p \in Frames \ {inv.at} : inv.frame[p].pc = "walk"
<1>1. inv \in InvRec
  BY DEF SchemaInv, SchemaTyped, SchemaTypeOK
<1>2. /\ inv.at \in Path /\ inv.frame \in [Path -> FrameRec] /\ inv.visited \subseteq Path
      /\ inv.ver \in Ver
  BY <1>1 DEF Active, InvRec
<1>3. inv.at \in Frames
  BY DEF SchemaInv, Stacked, StackIs
<1> QED BY <1>1, <1>2, <1>3 DEF SchemaInv, Stacked, Here

LEMMA DropsKeep ==
  ASSUME SchemaInv, Active, DropsOnly
  PROVE  /\ Owned' /\ RefFresh' /\ EntryReaches' /\ NoRaces'
         /\ RacedWhileActive'
         /\ \A s \in Path : Good(s)' =>
              Good(s) /\ parsed'[s] = parsed[s] /\ entry' = entry
         /\ \A r \in Reader :
              /\ ReaderFits(r)' /\ WalkReaches(r)' /\ Undisturbed(r)'
              /\ Held(r)' <=> Held(r)
<1>1. UNCHANGED <<disk, entry, reader, overlap>>
  BY DEF DropsOnly
<1>2. \A r \in Reader : Held(r)' <=> Held(r)
  BY <1>1 DEF Held
<1>3. \A s \in Path : Good(s)' => Good(s) /\ parsed'[s] = parsed[s] /\ entry' = entry
  BY <1>1 DEF Good, DropsOnly
<1>4. Owned'
  <2>1. ASSUME NEW s \in Path, NEW u \in Path, parsed'[s] # Nil, parsed'[s] = parsed'[u]
        PROVE  s = u
    BY <2>1 DEF SchemaInv, Owned, DropsOnly
  <2>2. ASSUME NEW r \in Reader, NEW s \in Path, Held(r), reader[r].ref = parsed'[s]
        PROVE  reader[r].schema = s
    <3>1. reader[r].ref # Nil
      BY <2>2, CheckFacts DEF ReaderFits
    <3> QED BY <2>2, <3>1 DEF SchemaInv, Owned, DropsOnly
  <2> QED BY <1>1, <1>2, <2>1, <2>2 DEF Owned
<1>5. RefFresh'
  BY <1>1, <1>2 DEF SchemaInv, RefFresh, AnswerIsFresh
<1>6. EntryReaches'
  BY <1>3 DEF SchemaInv, EntryReaches
<1>7. NoRaces'
  BY <1>1 DEF SchemaInv, NoRaces, DropsOnly
<1>8. RacedWhileActive'
  BY <1>1 DEF SchemaInv, RacedWhileActive
<1>9. ASSUME NEW r \in Reader
      PROVE  ReaderFits(r)' /\ WalkReaches(r)' /\ Undisturbed(r)'
  <2>1. ReaderFits(r)' /\ WalkReaches(r)'
    BY <1>1, <1>2, CheckFacts DEF ReaderFits, WalkReaches
  <2>2. ~overlap => ~Held(r)
    BY DEF SchemaInv, NoRaces, Held
  <2> QED BY <1>1, <1>2, <2>1, <2>2 DEF Undisturbed
<1> QED BY <1>2, <1>3, <1>4, <1>5, <1>6, <1>7, <1>8, <1>9

(* The steps within one frame.                                             *)
LEMMA GotoKeeps ==
  ASSUME SchemaInv, Active, DropsOnly, UNCHANGED floor,
         NEW f \in FrameRec, Goto(f), f.pc # "none", f.up = Here.up
  PROVE  /\ SchemaTypeOK' /\ Stacked' /\ Below' /\ EntryFresh' /\ Frames' = Frames
         /\ Active'
         /\ \A r \in Reader : ReaderFresh(r)'
         /\ inv'.at = inv.at /\ inv'.visited = inv.visited /\ inv'.ver = inv.ver
         /\ inv'.frame[inv.at] = f
         /\ \A q \in Path \ {inv.at} : inv'.frame[q] = inv.frame[q]
         /\ \A s \in Path \ {inv.at} : Doomed(s)' <=> Doomed(s)
         /\ Doomed(inv.at)' <=> f.pc \in {"raw", "read", "drain", "walk", "parsed"}
         /\ Doomed(inv.at) <=> Here.pc \in {"raw", "read", "drain", "walk", "parsed"}
<1>1. /\ inv.at \in Path /\ inv.at \in Frames /\ inv \in InvRec
      /\ inv.frame \in [Path -> FrameRec] /\ inv.at \in inv.visited
  BY RunningFrame
<1>2. inv' = [inv EXCEPT !.frame[inv.at] = f]
  BY DEF Goto
<1>3. /\ inv' \in InvRec /\ inv'.at = inv.at /\ inv'.visited = inv.visited
      /\ inv'.ver = inv.ver /\ inv'.frame[inv.at] = f
      /\ \A q \in Path \ {inv.at} : inv'.frame[q] = inv.frame[q]
  BY <1>1, <1>2 DEF InvRec
<1>4. /\ Frames' = Frames /\ Active' /\ (~Active' => inv' = Quiet)
      /\ \A q \in Path : inv'.frame[q].up = inv.frame[q].up
  BY <1>1, <1>3 DEF Frames, Active, Here
<1>5. UNCHANGED <<disk, floor, entry, reader, overlap>>
  BY DEF DropsOnly
<1>6. SchemaTypeOK'
  BY <1>3, <1>5 DEF SchemaInv, SchemaTyped, SchemaTypeOK, DropsOnly
<1>7. Stacked'
  <2>1. PICK n \in Nat \ {0} : \E st \in [1..n -> Path] : StackIs(n, st)
    BY DEF SchemaInv, Stacked
  <2>2. PICK st \in [1..n -> Path] : StackIs(n, st)
    BY <2>1
  <2>3. StackIs(n, st)'
    <3>1. \A i \in 1..n : st[i] \in Path
      OBVIOUS
    <3>2. 1 \in 1..n /\ 2..n \subseteq 1..n
      BY <2>1
    <3> QED BY <1>3, <1>4, <2>2, <3>1, <3>2 DEF StackIs
  <2>4. \E m \in Nat \ {0} : \E u \in [1..m -> Path] : StackIs(m, u)'
    BY <2>1, <2>3, Zenon
  <2> QED BY <1>1, <1>3, <1>4, <2>4, RunningFrame DEF Stacked, Frames
<1>8. Below'
  BY <1>3, <1>4, <1>5 DEF SchemaInv, Below, Frames
<1>9. EntryFresh'
  BY <1>5, DropsKeep DEF SchemaInv, EntryFresh
<1>10. \A r \in Reader : ReaderFresh(r)'
  BY <1>5 DEF SchemaInv, ReaderFresh
<1>11. /\ \A s \in Path \ {inv.at} : Doomed(s)' <=> Doomed(s)
       /\ Doomed(inv.at)' <=> f.pc \in {"raw", "read", "drain", "walk", "parsed"}
       /\ Doomed(inv.at) <=> Here.pc \in {"raw", "read", "drain", "walk", "parsed"}
  <2>1. \A s \in Path \ {inv.at} : Doomed(s)' <=> Doomed(s)
    BY <1>3 DEF Doomed
  <2>2. Doomed(inv.at)' <=> f.pc \in {"raw", "read", "drain", "walk", "parsed"}
    BY <1>1, <1>3 DEF Doomed
  <2>3. Doomed(inv.at) <=> Here.pc \in {"raw", "read", "drain", "walk", "parsed"}
    BY <1>1 DEF Doomed, Here
  <2> QED BY <2>1, <2>2, <2>3
<1> QED BY <1>3, <1>4, <1>6, <1>7, <1>8, <1>9, <1>10, <1>11

(* What is left to show of such a step.                                    *)
LEMMA GotoInv ==
  ASSUME SchemaInv, Active, DropsOnly, UNCHANGED floor,
         NEW f \in FrameRec, Goto(f), f.pc # "none", f.up = Here.up,
         RawFresh', GoodIsIndexed', Evicted', Drained', PointsBack',
         \A r \in Reader : Registers(r)'
  PROVE  SchemaInv'
BY GotoKeeps, DropsKeep DEF SchemaInv, SchemaTyped

(* Where the parses and the dependents stay, only the frame matters.       *)
LEMMA GotoPlain ==
  ASSUME SchemaInv, Active, DropsOnly, UNCHANGED <<floor, parsed, dependents>>,
         NEW f \in FrameRec, Goto(f), f.pc # "none", f.up = Here.up,
         (Here.pc \in {"raw", "read", "drain", "walk", "parsed"}) <=>
           (f.pc \in {"raw", "read", "drain", "walk", "parsed"}),
         RawFresh', PointsBack',
         \A s \in Path : Good(s) /\ inv.at \in entry[parsed[s]].deps =>
           /\ f.pc = "walk" => s \in f.todo \cup inv.visited
           /\ f.pc \in {"parsed", "includes", "back"} => s \in inv.visited
  PROVE  SchemaInv'
<1>1. UNCHANGED <<disk, floor, parsed, dependents, entry, reader, overlap>>
  BY DEF DropsOnly
<1>2. \A s \in Path : (Good(s)' <=> Good(s)) /\ (Doomed(s)' <=> Doomed(s))
                      /\ (Indexed(s)' <=> Indexed(s))
  BY <1>1, GotoKeeps, RunningFrame DEF Good, Indexed
<1>3. GoodIsIndexed'
  BY <1>1, <1>2, GotoKeeps DEF SchemaInv, GoodIsIndexed
<1>4. \A r \in Reader : Registers(r)'
  BY <1>1, <1>2 DEF SchemaInv, Registers
<1>5. Evicted'
  <2> SUFFICES ASSUME NEW s \in inv.visited,
                      inv'.frame[s].pc \in {"none", "includes", "back"}
               PROVE  ~Good(s)
    BY <1>2, GotoKeeps, RunningFrame DEF Evicted
  <2>1. s \in Path
    BY RunningFrame
  <2>2. CASE s # inv.at
    BY <2>1, <2>2, GotoKeeps DEF SchemaInv, Evicted
  <2>3. CASE s = inv.at
    <3>1. Here.pc \in {"none", "includes", "back"}
      BY <2>3, GotoKeeps, RunningFrame DEF FrameRec
    <3> QED BY <2>3, <3>1 DEF SchemaInv, Evicted, Here
  <2> QED BY <2>2, <2>3
<1>6. Drained'
  <2> SUFFICES ASSUME NEW p \in Frames, NEW s \in Path, Good(s),
                      p \in entry[parsed[s]].deps
               PROVE  /\ inv'.frame[p].pc = "walk" =>
                           s \in inv'.frame[p].todo \cup inv.visited
                      /\ inv'.frame[p].pc \in {"parsed", "includes", "back"} =>
                           s \in inv.visited
    BY <1>1, <1>2, GotoKeeps DEF Drained
  <2>1. CASE p # inv.at
    BY <2>1, GotoKeeps DEF SchemaInv, Drained, Frames
  <2>2. CASE p = inv.at
    BY <2>2, GotoKeeps
  <2> QED BY <2>1, <2>2
<1> QED BY <1>1, <1>3, <1>4, <1>5, <1>6, GotoInv

LEMMA DropRawKeeps ==
  ASSUME SchemaInv, DropRaw
  PROVE  SchemaInv'
<1> DEFINE f == [Here EXCEPT !.pc = "read"]
<1>1. /\ Active /\ Here.pc = "raw" /\ SchemaTypeOK
      /\ raw' = [raw EXCEPT ![inv.at] = Nil] /\ Goto(f)
      /\ UNCHANGED <<disk, floor, parsed, entry, includes, dependents, reader, overlap>>
  BY DEF DropRaw, At, Here, Active, SchemaInv, SchemaTyped
<1>2. /\ f \in FrameRec /\ f.pc = "read" /\ f.up = Here.up /\ f.incs = Here.incs
  BY <1>1, RunningFrame DEF FrameRec
<1> HIDE DEF f
<1>3. /\ raw' \in [Path -> [ver : Ver, raced : BOOLEAN] \cup {Nil}]
      /\ raw'[inv.at] = Nil /\ \A q \in Path \ {inv.at} : raw'[q] = raw[q]
  BY <1>1, RunningFrame DEF SchemaTypeOK
<1>4. DropsOnly
  BY <1>1, <1>3 DEF DropsOnly, SchemaTypeOK
<1>5. RawFresh'
  BY <1>1, <1>2, <1>3, <1>4, GotoKeeps DEF SchemaInv, RawFresh
<1>6. PointsBack'
  <2> SUFFICES ASSUME ~overlap, NEW g \in Path, NEW q \in Path, q \in dependents[g]
               PROVE  IF inv'.frame[q].pc \in {"none", "raw", "read"}
                      THEN /\ Cached(q) /\ g \in entry[parsed[q]].deps
                           /\ g \in includes[q]
                      ELSE g \in inv'.frame[q].incs
    BY <1>1 DEF PointsBack, Cached
  <2> QED BY <1>1, <1>2, <1>4, GotoKeeps DEF SchemaInv, PointsBack, Here
<1> QED BY <1>1, <1>2, <1>4, <1>5, <1>6, GotoPlain

LEMMA ReadIncludesKeeps ==
  ASSUME SchemaInv, ReadIncludes
  PROVE  SchemaInv'
<1> DEFINE f == [Here EXCEPT !.pc = "drain", !.incs = includes[inv.at]]
<1>1. /\ Active /\ Here.pc = "read" /\ SchemaTypeOK /\ Goto(f)
      /\ UNCHANGED <<disk, floor, raw, parsed, entry, includes, dependents, reader,
                     overlap>>
  BY DEF ReadIncludes, At, Here, Active, SchemaInv, SchemaTyped
<1>2. /\ f \in FrameRec /\ f.pc = "drain" /\ f.up = Here.up /\ f.incs = includes[inv.at]
  BY <1>1, RunningFrame DEF FrameRec, SchemaTypeOK
<1> HIDE DEF f
<1>3. DropsOnly
  BY <1>1 DEF DropsOnly, SchemaTypeOK
<1>4. RawFresh'
  BY <1>1, <1>2, <1>3, GotoKeeps DEF SchemaInv, RawFresh, Here
<1>5. PointsBack'
  <2> SUFFICES ASSUME ~overlap, NEW g \in Path, NEW q \in Path, q \in dependents[g]
               PROVE  IF inv'.frame[q].pc \in {"none", "raw", "read"}
                      THEN /\ Cached(q) /\ g \in entry[parsed[q]].deps
                           /\ g \in includes[q]
                      ELSE g \in inv'.frame[q].incs
    BY <1>1 DEF PointsBack, Cached
  <2> QED BY <1>1, <1>2, <1>3, GotoKeeps DEF SchemaInv, PointsBack, Here
<1> QED BY <1>1, <1>2, <1>3, <1>4, <1>5, GotoPlain

(* A schema that reached the file is in its dependents, or it is doomed.   *)
LEMMA DrainKeeps ==
  ASSUME SchemaInv, Drain
  PROVE  SchemaInv'
<1> DEFINE deps == dependents[inv.at]
           f == [Here EXCEPT !.todo = deps, !.pc = IF deps = {} THEN "parsed" ELSE "walk"]
<1>1. /\ Active /\ Here.pc = "drain" /\ SchemaTypeOK /\ Goto(f)
      /\ UNCHANGED <<disk, floor, raw, parsed, entry, includes, dependents, reader,
                     overlap>>
  BY DEF Drain, At, Here, Active, SchemaInv, SchemaTyped
<1>2. /\ f \in FrameRec /\ f.pc \in {"parsed", "walk"} /\ f.up = Here.up
      /\ f.incs = Here.incs /\ f.todo = deps /\ (f.pc = "parsed" => deps = {})
  BY <1>1, RunningFrame DEF FrameRec, SchemaTypeOK
<1> HIDE DEF f
<1>3. DropsOnly
  BY <1>1 DEF DropsOnly, SchemaTypeOK
<1>4. RawFresh'
  BY <1>1, <1>2, <1>3, GotoKeeps DEF SchemaInv, RawFresh, Here
<1>5. PointsBack'
  <2> SUFFICES ASSUME ~overlap, NEW g \in Path, NEW q \in Path, q \in dependents[g]
               PROVE  IF inv'.frame[q].pc \in {"none", "raw", "read"}
                      THEN /\ Cached(q) /\ g \in entry[parsed[q]].deps
                           /\ g \in includes[q]
                      ELSE g \in inv'.frame[q].incs
    BY <1>1 DEF PointsBack, Cached
  <2> QED BY <1>1, <1>2, <1>3, GotoKeeps DEF SchemaInv, PointsBack, Here
<1>6. ASSUME NEW s \in Path, Good(s), inv.at \in entry[parsed[s]].deps
      PROVE  s \in deps \/ s \in inv.visited
  BY <1>1, <1>6 DEF SchemaInv, GoodIsIndexed, Indexed, Doomed
<1> QED BY <1>1, <1>2, <1>3, <1>4, <1>5, <1>6, GotoPlain

(* When the last dependent has returned, every schema that reached the     *)
(* file is doomed, and its back-pointer can go.                            *)
LEMMA DropDependentsKeeps ==
  ASSUME SchemaInv, DropDependents
  PROVE  SchemaInv'
<1> DEFINE f == [Here EXCEPT !.pc = "parsed"]
<1>1. /\ Active /\ Here.pc = "walk" /\ Here.todo = {} /\ SchemaTypeOK /\ Goto(f)
      /\ dependents' = [dependents EXCEPT ![inv.at] = {}]
      /\ UNCHANGED <<disk, floor, raw, parsed, entry, includes, reader, overlap>>
  BY DEF DropDependents, At, Here, Active, SchemaInv, SchemaTyped
<1>2. f \in FrameRec /\ f.pc = "parsed" /\ f.up = Here.up /\ f.incs = Here.incs
  BY <1>1, RunningFrame DEF FrameRec
<1> HIDE DEF f
<1>3. /\ dependents' \in [Path -> SUBSET Path] /\ dependents'[inv.at] = {}
      /\ \A q \in Path \ {inv.at} : dependents'[q] = dependents[q]
  BY <1>1, RunningFrame DEF SchemaTypeOK
<1>4. DropsOnly
  BY <1>1, <1>3 DEF DropsOnly, SchemaTypeOK
<1>5. \A s \in Path : Good(s)' <=> Good(s)
  BY <1>1 DEF Good
<1>6. \A s \in Path : Doomed(s)' <=> Doomed(s)
  BY <1>1, <1>2, <1>4, GotoKeeps, RunningFrame
<1>7. ASSUME NEW s \in Path, Good(s), inv.at \in entry[parsed[s]].deps
      PROVE  s \in inv.visited /\ Doomed(s)
  <2>1. s \in inv.visited
    BY <1>1, <1>7, RunningFrame DEF SchemaInv, Drained, Here
  <2>2. inv.frame[s].pc \notin {"none", "includes", "back"}
    BY <1>7, <2>1 DEF SchemaInv, Evicted
  <2>3. inv.frame[s] \in FrameRec
    BY <1>1, RunningFrame
  <2>4. inv.frame[s].pc \in {"raw", "read", "drain", "walk", "parsed"}
    BY <2>2, <2>3 DEF FrameRec
  <2> QED BY <2>1, <2>4 DEF Doomed
<1>8. ASSUME NEW s \in Path, Good(s)
      PROVE  entry[parsed[s]].deps \subseteq Path
  BY <1>1, <1>8, EntriesAreEntries DEF SchemaInv, SchemaTypeOK, Good, EntryRec
<1>9. GoodIsIndexed'
  <2> SUFFICES ASSUME NEW s \in Path, Good(s), ~Doomed(s) PROVE Indexed(s)'
    BY <1>5, <1>6 DEF GoodIsIndexed
  <2>1. Indexed(s) /\ inv.at \notin entry[parsed[s]].deps
    BY <1>1, <1>7 DEF SchemaInv, GoodIsIndexed
  <2> QED BY <1>1, <1>3, <1>8, <2>1 DEF Indexed
<1>10. ASSUME NEW r \in Reader PROVE Registers(r)'
  <2> SUFFICES ASSUME NEW s \in Path, reader[r].schema = s,
                      reader[r].pc \in {"register", "done"}, reader[r].ref = parsed[s],
                      Good(s), ~Doomed(s), NEW g \in entry[parsed[s]].deps \ reader[r].deps
               PROVE  s \in dependents'[g]
    BY <1>1, <1>5, <1>6 DEF Registers
  <2>1. s \in dependents[g] /\ g # inv.at /\ g \in Path
    BY <1>7, <1>8 DEF SchemaInv, Registers
  <2> QED BY <1>3, <2>1
<1>11. RawFresh'
  BY <1>1, <1>2, <1>4, GotoKeeps DEF SchemaInv, RawFresh, Here
<1>12. Evicted'
  BY <1>2, <1>4, <1>1, <1>5, GotoKeeps, RunningFrame DEF SchemaInv, Evicted, Here
<1>13. Drained'
  <2> SUFFICES ASSUME NEW p \in Frames, NEW s \in Path, Good(s),
                      p \in entry[parsed[s]].deps
               PROVE  /\ inv'.frame[p].pc = "walk" =>
                           s \in inv'.frame[p].todo \cup inv.visited
                      /\ inv'.frame[p].pc \in {"parsed", "includes", "back"} =>
                           s \in inv.visited
    BY <1>1, <1>2, <1>4, <1>5, GotoKeeps DEF Drained
  <2>1. CASE p # inv.at
    BY <1>1, <1>2, <1>4, <2>1, GotoKeeps DEF SchemaInv, Drained, Frames
  <2>2. CASE p = inv.at
    BY <1>1, <1>2, <1>4, <1>7, <2>2, GotoKeeps
  <2> QED BY <2>1, <2>2
<1>14. PointsBack'
  <2> SUFFICES ASSUME ~overlap, NEW g \in Path, NEW q \in Path, q \in dependents'[g]
               PROVE  IF inv'.frame[q].pc \in {"none", "raw", "read"}
                      THEN /\ Cached(q) /\ g \in entry[parsed[q]].deps
                           /\ g \in includes[q]
                      ELSE g \in inv'.frame[q].incs
    BY <1>1 DEF PointsBack, Cached
  <2>1. q \in dependents[g]
    BY <1>3
  <2> QED BY <1>1, <1>2, <1>4, <2>1, GotoKeeps DEF SchemaInv, PointsBack, Here
<1> QED BY <1>1, <1>2, <1>4, <1>9, <1>10, <1>11, <1>12, <1>13, <1>14, GotoInv

LEMMA DropParsedKeeps ==
  ASSUME SchemaInv, DropParsed
  PROVE  SchemaInv'
<1> DEFINE f == [Here EXCEPT !.pc = "includes"]
<1>1. /\ Active /\ Here.pc = "parsed" /\ SchemaTypeOK /\ Goto(f)
      /\ parsed' = [parsed EXCEPT ![inv.at] = Nil]
      /\ UNCHANGED <<disk, floor, raw, entry, includes, dependents, reader, overlap>>
  BY DEF DropParsed, At, Here, Active, SchemaInv, SchemaTyped
<1>2. f \in FrameRec /\ f.pc = "includes" /\ f.up = Here.up /\ f.incs = Here.incs
  BY <1>1, RunningFrame DEF FrameRec
<1> HIDE DEF f
<1>3. /\ parsed' \in [Path -> Entry \cup {Nil}] /\ parsed'[inv.at] = Nil
      /\ \A q \in Path \ {inv.at} : parsed'[q] = parsed[q]
  BY <1>1, RunningFrame DEF SchemaTypeOK
<1>4. DropsOnly
  BY <1>1, <1>3 DEF DropsOnly, SchemaTypeOK
<1>5. \A s \in Path : Good(s)' => Good(s) /\ s # inv.at /\ parsed'[s] = parsed[s]
  BY <1>1, <1>3 DEF Good
<1>6. \A s \in Path \ {inv.at} : Doomed(s)' <=> Doomed(s)
  BY <1>1, <1>2, <1>4, GotoKeeps
<1>7. GoodIsIndexed'
  BY <1>1, <1>5, <1>6 DEF SchemaInv, GoodIsIndexed, Indexed
<1>8. ASSUME NEW r \in Reader PROVE Registers(r)'
  <2> SUFFICES ASSUME NEW s \in Path, reader[r].schema = s,
                      reader[r].pc \in {"register", "done"}, reader[r].ref = parsed'[s],
                      Good(s)', ~Doomed(s)',
                      NEW g \in entry[parsed'[s]].deps \ reader[r].deps
               PROVE  s \in dependents[g]
    BY <1>1 DEF Registers
  <2> QED BY <1>5, <1>6 DEF SchemaInv, Registers
<1>9. RawFresh'
  BY <1>1, <1>2, <1>4, GotoKeeps DEF SchemaInv, RawFresh, Here
<1>10. Evicted'
  BY <1>1, <1>2, <1>4, <1>5, GotoKeeps, RunningFrame DEF SchemaInv, Evicted
<1>11. Drained'
  <2> SUFFICES ASSUME NEW p \in Frames, NEW s \in Path, Good(s),
                      p \in entry[parsed[s]].deps
               PROVE  /\ inv'.frame[p].pc = "walk" =>
                           s \in inv'.frame[p].todo \cup inv.visited
                      /\ inv'.frame[p].pc \in {"parsed", "includes", "back"} =>
                           s \in inv.visited
    BY <1>1, <1>2, <1>4, <1>5, GotoKeeps DEF Drained
  <2>1. CASE p # inv.at
    BY <1>1, <1>2, <1>4, <2>1, GotoKeeps DEF SchemaInv, Drained, Frames
  <2>2. CASE p = inv.at
    BY <1>1, <1>2, <1>4, <2>2, GotoKeeps DEF SchemaInv, Drained, Here
  <2> QED BY <2>1, <2>2
<1>12. PointsBack'
  <2> SUFFICES ASSUME ~overlap, NEW g \in Path, NEW q \in Path, q \in dependents[g]
               PROVE  IF inv'.frame[q].pc \in {"none", "raw", "read"}
                      THEN /\ Cached(q)' /\ g \in entry[parsed'[q]].deps
                           /\ g \in includes[q]
                      ELSE g \in inv'.frame[q].incs
    BY <1>1 DEF PointsBack
  <2>1. CASE q # inv.at
    <3>1. parsed'[q] = parsed[q] /\ inv'.frame[q] = inv.frame[q]
      BY <1>1, <1>2, <1>3, <1>4, <2>1, GotoKeeps
    <3> QED BY <1>1, <3>1 DEF SchemaInv, PointsBack, Cached
  <2>2. CASE q = inv.at
    BY <1>1, <1>2, <1>4, <2>2, GotoKeeps DEF SchemaInv, PointsBack, Here
  <2> QED BY <2>1, <2>2
<1> QED BY <1>1, <1>2, <1>4, <1>7, <1>8, <1>9, <1>10, <1>11, <1>12, GotoInv

LEMMA DropIncludesKeeps ==
  ASSUME SchemaInv, DropIncludes
  PROVE  SchemaInv'
<1> DEFINE f == [Here EXCEPT !.pc = "back"]
<1>1. /\ Active /\ Here.pc = "includes" /\ SchemaTypeOK /\ Goto(f)
      /\ includes' = [includes EXCEPT ![inv.at] = {}]
      /\ UNCHANGED <<disk, floor, raw, parsed, entry, dependents, reader, overlap>>
  BY DEF DropIncludes, At, Here, Active, SchemaInv, SchemaTyped
<1>2. f \in FrameRec /\ f.pc = "back" /\ f.up = Here.up /\ f.incs = Here.incs
  BY <1>1, RunningFrame DEF FrameRec
<1> HIDE DEF f
<1>3. /\ includes' \in [Path -> SUBSET Path]
      /\ \A q \in Path \ {inv.at} : includes'[q] = includes[q]
  BY <1>1, RunningFrame DEF SchemaTypeOK
<1>4. DropsOnly
  BY <1>1, <1>3 DEF DropsOnly, SchemaTypeOK
<1>5. RawFresh'
  BY <1>1, <1>2, <1>4, GotoKeeps DEF SchemaInv, RawFresh, Here
<1>6. PointsBack'
  <2> SUFFICES ASSUME ~overlap, NEW g \in Path, NEW q \in Path, q \in dependents[g]
               PROVE  IF inv'.frame[q].pc \in {"none", "raw", "read"}
                      THEN /\ Cached(q) /\ g \in entry[parsed[q]].deps
                           /\ g \in includes'[q]
                      ELSE g \in inv'.frame[q].incs
    BY <1>1 DEF PointsBack, Cached
  <2>1. CASE q # inv.at
    <3>1. includes'[q] = includes[q] /\ inv'.frame[q] = inv.frame[q]
      BY <1>1, <1>2, <1>3, <1>4, <2>1, GotoKeeps
    <3> QED BY <3>1 DEF SchemaInv, PointsBack
  <2>2. CASE q = inv.at
    BY <1>1, <1>2, <1>4, <2>2, GotoKeeps DEF SchemaInv, PointsBack, Here
  <2> QED BY <2>1, <2>2
<1>7. \A s \in Path : Good(s) /\ inv.at \in entry[parsed[s]].deps => s \in inv.visited
  BY <1>1, RunningFrame DEF SchemaInv, Drained, Here
<1> QED BY <1>1, <1>2, <1>4, <1>5, <1>6, <1>7, GotoPlain

LEMMA DropBackPointerKeeps ==
  ASSUME SchemaInv, NEW b \in Path, DropBackPointer(b)
  PROVE  SchemaInv'
<1> DEFINE f == [Here EXCEPT !.incs = @ \ {b}]
<1>1. /\ Active /\ Here.pc = "back" /\ SchemaTypeOK /\ Goto(f)
      /\ dependents' = [dependents EXCEPT ![b] = @ \ {inv.at}]
      /\ UNCHANGED <<disk, floor, raw, parsed, entry, includes, reader, overlap>>
  BY DEF DropBackPointer, At, Here, Active, SchemaInv, SchemaTyped
<1>2. f \in FrameRec /\ f.pc = "back" /\ f.up = Here.up /\ f.incs = Here.incs \ {b}
  BY <1>1, RunningFrame DEF FrameRec
<1> HIDE DEF f
<1>3. /\ dependents' \in [Path -> SUBSET Path]
      /\ \A q \in Path : dependents'[q] \subseteq dependents[q]
      /\ \A q, s \in Path : s # inv.at => (s \in dependents'[q] <=> s \in dependents[q])
      /\ inv.at \notin dependents'[b]
  BY <1>1, RunningFrame DEF SchemaTypeOK
<1>4. DropsOnly
  BY <1>1, <1>3 DEF DropsOnly, SchemaTypeOK
<1>5. ~Good(inv.at) /\ \A s \in Path : Good(s)' <=> Good(s)
  BY <1>1, RunningFrame DEF SchemaInv, Evicted, Here, Good
<1>6. \A s \in Path : Doomed(s)' <=> Doomed(s)
  BY <1>1, <1>2, <1>4, GotoKeeps, RunningFrame
<1>7. ASSUME NEW s \in Path, Good(s)
      PROVE  entry[parsed[s]].deps \subseteq Path
  BY <1>1, <1>7, EntriesAreEntries DEF SchemaInv, SchemaTypeOK, Good, EntryRec
<1>8. GoodIsIndexed'
  <2> SUFFICES ASSUME NEW s \in Path, Good(s), ~Doomed(s) PROVE Indexed(s)'
    BY <1>5, <1>6 DEF GoodIsIndexed
  <2>1. Indexed(s) /\ s # inv.at
    BY <1>1, <1>5 DEF SchemaInv, GoodIsIndexed
  <2> QED BY <1>1, <1>3, <1>7, <2>1 DEF Indexed
<1>9. ASSUME NEW r \in Reader PROVE Registers(r)'
  <2> SUFFICES ASSUME NEW s \in Path, reader[r].schema = s,
                      reader[r].pc \in {"register", "done"}, reader[r].ref = parsed[s],
                      Good(s), ~Doomed(s), NEW g \in entry[parsed[s]].deps \ reader[r].deps
               PROVE  s \in dependents'[g]
    BY <1>1, <1>5, <1>6 DEF Registers
  <2>1. s \in dependents[g] /\ s # inv.at /\ g \in Path
    BY <1>5, <1>7 DEF SchemaInv, Registers
  <2> QED BY <1>3, <2>1
<1>10. RawFresh'
  BY <1>1, <1>2, <1>4, GotoKeeps DEF SchemaInv, RawFresh, Here
<1>11. Evicted'
  BY <1>1, <1>2, <1>4, <1>5, GotoKeeps, RunningFrame DEF SchemaInv, Evicted
<1>12. Drained'
  <2> SUFFICES ASSUME NEW p \in Frames, NEW s \in Path, Good(s),
                      p \in entry[parsed[s]].deps
               PROVE  /\ inv'.frame[p].pc = "walk" =>
                           s \in inv'.frame[p].todo \cup inv.visited
                      /\ inv'.frame[p].pc \in {"parsed", "includes", "back"} =>
                           s \in inv.visited
    BY <1>1, <1>2, <1>4, <1>5, GotoKeeps DEF Drained
  <2>1. CASE p # inv.at
    BY <1>1, <1>2, <1>4, <2>1, GotoKeeps DEF SchemaInv, Drained, Frames
  <2>2. CASE p = inv.at
    BY <1>1, <1>2, <1>4, <2>2, GotoKeeps DEF SchemaInv, Drained, Here
  <2> QED BY <2>1, <2>2
<1>13. PointsBack'
  <2> SUFFICES ASSUME ~overlap, NEW g \in Path, NEW q \in Path, q \in dependents'[g]
               PROVE  IF inv'.frame[q].pc \in {"none", "raw", "read"}
                      THEN /\ Cached(q) /\ g \in entry[parsed[q]].deps
                           /\ g \in includes[q]
                      ELSE g \in inv'.frame[q].incs
    BY <1>1 DEF PointsBack, Cached
  <2>1. q \in dependents[g]
    BY <1>3
  <2>2. CASE q # inv.at
    <3>1. inv'.frame[q] = inv.frame[q]
      BY <1>1, <1>2, <1>4, <2>2, GotoKeeps
    <3> QED BY <2>1, <3>1 DEF SchemaInv, PointsBack
  <2>3. CASE q = inv.at
    <3>1. g \in Here.incs
      BY <1>1, <2>1, <2>3 DEF SchemaInv, PointsBack, Here
    <3>2. g # b
      BY <1>3, <2>3
    <3>3. inv'.frame[q] = f
      BY <1>1, <1>2, <1>4, <2>3, GotoKeeps
    <3> QED BY <1>2, <3>1, <3>2, <3>3
  <2> QED BY <2>2, <2>3
<1> QED BY <1>1, <1>2, <1>4, <1>8, <1>9, <1>10, <1>11, <1>12, <1>13, GotoInv

(* A dependent already visited is passed over.                             *)
LEMMA PassOverKeeps ==
  ASSUME SchemaInv, NEW d \in Path, Recurse(d), d \in inv.visited
  PROVE  SchemaInv'
<1> DEFINE f == [Here EXCEPT !.todo = @ \ {d}]
<1>1. /\ Active /\ Here.pc = "walk" /\ SchemaTypeOK
      /\ inv' = [inv EXCEPT !.frame = [inv.frame EXCEPT ![inv.at].todo = @ \ {d}]]
      /\ UNCHANGED <<disk, floor, raw, parsed, entry, includes, dependents, reader,
                     overlap>>
  BY DEF Recurse, At, Here, Active, SchemaInv, SchemaTyped
<1>2. f \in FrameRec /\ f.pc = "walk" /\ f.up = Here.up /\ f.incs = Here.incs
      /\ f.todo = Here.todo \ {d}
  BY <1>1, RunningFrame DEF FrameRec
<1>3. Goto(f)
  BY <1>1, RunningFrame DEF Goto, Here
<1> HIDE DEF f
<1>4. DropsOnly
  BY <1>1 DEF DropsOnly, SchemaTypeOK
<1>5. RawFresh'
  BY <1>1, <1>2, <1>3, <1>4, GotoKeeps DEF SchemaInv, RawFresh, Here
<1>6. PointsBack'
  <2> SUFFICES ASSUME ~overlap, NEW g \in Path, NEW q \in Path, q \in dependents[g]
               PROVE  IF inv'.frame[q].pc \in {"none", "raw", "read"}
                      THEN /\ Cached(q) /\ g \in entry[parsed[q]].deps
                           /\ g \in includes[q]
                      ELSE g \in inv'.frame[q].incs
    BY <1>1 DEF PointsBack, Cached
  <2> QED BY <1>1, <1>2, <1>3, <1>4, GotoKeeps DEF SchemaInv, PointsBack, Here
<1>7. ASSUME NEW s \in Path, Good(s), inv.at \in entry[parsed[s]].deps
      PROVE  s \in f.todo \cup inv.visited
  <2>1. s \in Here.todo \cup inv.visited
    BY <1>1, <1>7, RunningFrame DEF SchemaInv, Drained, Here
  <2> QED BY <1>2, <2>1
<1> QED BY <1>1, <1>2, <1>3, <1>4, <1>5, <1>6, <1>7, GotoPlain

(* One that was not gets a frame of its own, on top of the stack.          *)
LEMMA CallKeeps ==
  ASSUME SchemaInv, NEW d \in Path, Recurse(d), d \notin inv.visited
  PROVE  SchemaInv'
<1> DEFINE rest == [inv.frame EXCEPT ![inv.at].todo = @ \ {d}]
           top == [NoFrame EXCEPT !.pc = "raw", !.up = inv.at]
           p == inv.at
<1>1. /\ Active /\ Here.pc = "walk" /\ SchemaTypeOK
      /\ inv' = [inv EXCEPT !.at = d, !.visited = @ \cup {d},
                            !.frame = [rest EXCEPT ![d] = top]]
      /\ UNCHANGED <<disk, floor, raw, parsed, entry, includes, dependents, reader,
                     overlap>>
  BY DEF Recurse, At, Here, Active, SchemaInv, SchemaTyped
<1>2. /\ p \in Path /\ p \in Frames /\ p \in inv.visited /\ p # d
      /\ inv \in InvRec /\ inv.frame \in [Path -> FrameRec]
      /\ Frames \subseteq inv.visited /\ inv.visited \subseteq Path
  BY <1>1, RunningFrame
<1>3. /\ rest \in [Path -> FrameRec]
      /\ rest[p].pc = "walk" /\ rest[p].up = Here.up /\ rest[p].incs = Here.incs
      /\ rest[p].todo = Here.todo \ {d}
      /\ \A q \in Path \ {p} : rest[q] = inv.frame[q]
  <2>1. inv.frame[p] \in FrameRec
    BY <1>2
  <2> QED BY <1>1, <1>2, <2>1 DEF FrameRec, Here
<1>4. top \in FrameRec /\ top.pc = "raw" /\ top.up = p
  BY <1>2, SchemaBasics DEF NoFrame, FrameRec
<1> HIDE DEF rest, top
<1>5. /\ inv' \in InvRec /\ inv'.at = d /\ inv'.visited = inv.visited \cup {d}
      /\ inv'.ver = inv.ver /\ inv'.frame[d] = top /\ inv'.frame[p] = rest[p]
      /\ \A q \in Path \ {p, d} : inv'.frame[q] = inv.frame[q]
  BY <1>1, <1>2, <1>3, <1>4 DEF InvRec
<1>6. inv.frame[d].pc = "none"
  BY <1>2 DEF Frames
<1>7. /\ Frames' = Frames \cup {d} /\ Active'
      /\ \A q \in Path \ {d} : /\ inv'.frame[q].up = inv.frame[q].up
                               /\ inv'.frame[q].pc = inv.frame[q].pc
                               /\ inv'.frame[q].incs = inv.frame[q].incs
  BY <1>1, <1>2, <1>3, <1>4, <1>5, SchemaBasics DEF Frames, Active, Here
<1>8. DropsOnly
  BY <1>1 DEF DropsOnly, SchemaTypeOK
<1>9. SchemaTypeOK'
  BY <1>1, <1>5 DEF SchemaTypeOK
<1>10. Stacked'
  <2>1. PICK n \in Nat \ {0} : \E st \in [1..n -> Path] : StackIs(n, st)
    BY <1>1 DEF SchemaInv, Stacked
  <2>2. PICK st \in [1..n -> Path] : StackIs(n, st)
    BY <2>1
  <2> DEFINE new == [i \in 1..(n + 1) |-> IF i = n + 1 THEN d ELSE st[i]]
  <2>3. /\ n + 1 \in Nat \ {0} /\ new \in [1..(n + 1) -> Path] /\ new[n + 1] = d
        /\ \A i \in 1..n : new[i] = st[i] /\ i \in 1..(n + 1) /\ st[i] \in Path
        /\ \A i \in 1..(n + 1) : i = n + 1 \/ i \in 1..n
        /\ \A i \in 2..n : i \in 1..n /\ i - 1 \in 1..n
        /\ 1 \in 1..n /\ n \in 1..n
    BY <2>1
  <2> HIDE DEF new
  <2>4. \A i \in 1..n : st[i] \in Frames /\ st[i] # d
    BY <1>2, <2>2 DEF StackIs
  <2>5. StackIs(n + 1, new)'
    <3>1. Frames' = {new[i] : i \in 1..(n + 1)}
      <4>1. Frames = {st[i] : i \in 1..n}
        BY <2>2 DEF StackIs
      <4> QED BY <1>7, <2>3, <4>1
    <3>2. inv'.frame[new[1]].up = Nil
      BY <1>7, <2>2, <2>3, <2>4 DEF StackIs
    <3>3. ASSUME NEW i \in 2..(n + 1)
          PROVE  inv'.frame[new[i]].up = new[i - 1]
      <4>1. CASE i = n + 1
        <5>1. inv'.frame[d].up = p /\ st[n] = p /\ i - 1 = n
          BY <1>4, <1>5, <2>1, <2>2, <4>1 DEF StackIs
        <5> QED BY <2>3, <4>1, <5>1
      <4>2. CASE i # n + 1
        <5>1. i \in 2..n
          BY <2>1, <4>2
        <5>2. inv.frame[st[i]].up = st[i - 1]
          BY <2>2, <5>1 DEF StackIs
        <5> QED BY <1>7, <2>3, <2>4, <5>1, <5>2
      <4> QED BY <4>1, <4>2
    <3>4. ASSUME NEW i \in 1..(n + 1), NEW j \in 1..(n + 1), new[i] = new[j]
          PROVE  i = j
      <4>1. \A k, l \in 1..n : st[k] = st[l] => k = l
        BY <2>2 DEF StackIs
      <4> QED BY <2>3, <2>4, <3>4, <4>1
    <3> QED BY <1>5, <2>3, <3>1, <3>2, <3>3, <3>4 DEF StackIs
  <2>6. \E m \in Nat \ {0} : \E u \in [1..m -> Path] : StackIs(m, u)'
    BY <2>3, <2>5, Zenon
  <2>7. Frames' \subseteq inv'.visited
    BY <1>2, <1>5, <1>7
  <2>8. \A q \in Frames' \ {inv'.at} : inv'.frame[q].pc = "walk"
    <3>1. \A q \in Frames : inv.frame[q].pc = "walk"
      BY <1>1, RunningFrame DEF Here
    <3>2. Frames \subseteq Path
      BY DEF Frames
    <3> QED BY <1>5, <1>7, <3>1, <3>2
  <2> QED BY <1>7, <2>6, <2>7, <2>8 DEF Stacked
<1>11. Below'
  <2>1. \A q \in Frames' : inv'.frame[q].up = Nil => inv'.ver <= disk'[q]
    <3>1. p # Nil
      BY <1>1 DEF Active
    <3>2. \A q \in Frames : inv.frame[q].up = Nil => inv.ver <= disk[q]
      BY DEF SchemaInv, Below
    <3>3. Frames \subseteq Path \ {d}
      BY <1>2
    <3> QED BY <1>1, <1>4, <1>5, <1>7, <3>1, <3>2, <3>3
  <2> QED BY <1>1, <2>1 DEF SchemaInv, Below
<1>12. EntryFresh' /\ \A r \in Reader : ReaderFresh(r)'
  BY <1>1, <1>8, DropsKeep DEF SchemaInv, EntryFresh, ReaderFresh
<1>13. \A s \in Path : Good(s)' <=> Good(s)
  BY <1>1 DEF Good
<1>14. \A s \in Path : Doomed(s) => Doomed(s)'
  BY <1>2, <1>5, <1>7 DEF Doomed
<1>15. GoodIsIndexed'
  BY <1>1, <1>13, <1>14 DEF SchemaInv, GoodIsIndexed, Indexed
<1>16. \A r \in Reader : Registers(r)'
  BY <1>1, <1>13, <1>14 DEF SchemaInv, Registers
<1>17. RawFresh'
  BY <1>1, <1>4, <1>5, <1>7 DEF SchemaInv, RawFresh
<1>18. Evicted'
  <2> SUFFICES ASSUME NEW s \in inv'.visited,
                      inv'.frame[s].pc \in {"none", "includes", "back"}
               PROVE  ~Good(s)
    BY <1>2, <1>5, <1>13 DEF Evicted
  <2>1. s # d
    BY <1>4, <1>5
  <2> QED BY <1>2, <1>5, <1>7, <2>1 DEF SchemaInv, Evicted
<1>19. Drained'
  <2> SUFFICES ASSUME NEW q \in Frames', NEW s \in Path, Good(s),
                      q \in entry[parsed[s]].deps
               PROVE  /\ inv'.frame[q].pc = "walk" =>
                           s \in inv'.frame[q].todo \cup inv'.visited
                      /\ inv'.frame[q].pc \in {"parsed", "includes", "back"} =>
                           s \in inv'.visited
    BY <1>1, <1>13 DEF Drained
  <2>1. CASE q = d
    BY <1>4, <1>5, <2>1
  <2>2. CASE q = p
    <3>1. s \in Here.todo \cup inv.visited
      BY <1>1, <1>2, <2>2 DEF SchemaInv, Drained, Here
    <3> QED BY <1>2, <1>3, <1>5, <2>2, <3>1
  <2>3. CASE q \in Frames \ {p}
    <3>1. q \in Path \ {p, d}
      BY <1>2, <2>3
    <3> QED BY <1>5, <2>3, <3>1 DEF SchemaInv, Drained
  <2> QED BY <1>7, <2>1, <2>2, <2>3
<1>20. PointsBack'
  <2> SUFFICES ASSUME ~overlap, NEW g \in Path, NEW q \in Path, q \in dependents[g]
               PROVE  IF inv'.frame[q].pc \in {"none", "raw", "read"}
                      THEN /\ Cached(q) /\ g \in entry[parsed[q]].deps
                           /\ g \in includes[q]
                      ELSE g \in inv'.frame[q].incs
    BY <1>1 DEF PointsBack, Cached
  <2>1. CASE q = d
    BY <1>4, <1>5, <1>6, <2>1 DEF SchemaInv, PointsBack
  <2>2. CASE q # d
    BY <1>7, <2>2 DEF SchemaInv, PointsBack
  <2> QED BY <2>1, <2>2
<1> QED
  BY <1>1, <1>8, <1>9, <1>10, <1>11, <1>12, <1>15, <1>16, <1>17, <1>18, <1>19, <1>20,
     DropsKeep
  DEF SchemaInv, SchemaTyped

(* A call that returns to the one that made it takes its frame away.       *)
LEMMA PopKeeps ==
  ASSUME SchemaInv, Return, Here.up # Nil
  PROVE  SchemaInv'
<1> DEFINE p == inv.at
           up == Here.up
<1>1. /\ Active /\ Here.pc = "back" /\ Here.incs = {} /\ SchemaTypeOK
      /\ inv' = [inv EXCEPT !.at = up, !.frame[p] = NoFrame]
      /\ UNCHANGED <<disk, floor, raw, parsed, entry, includes, dependents, reader,
                     overlap>>
  BY DEF Return, At, Here, Active, SchemaInv, SchemaTyped
<1>2. /\ p \in Path /\ p \in Frames /\ p \in inv.visited
      /\ inv \in InvRec /\ inv.frame \in [Path -> FrameRec] /\ up \in Path
      /\ Frames \subseteq inv.visited /\ inv.visited \subseteq Path
      /\ \A q \in Frames \ {p} : inv.frame[q].pc = "walk"
  BY <1>1, RunningFrame DEF FrameRec
<1>3. NoFrame.pc = "none" /\ NoFrame \in FrameRec
  BY SchemaBasics DEF NoFrame
<1>4. /\ inv' \in InvRec /\ inv'.at = up /\ inv'.visited = inv.visited
      /\ inv'.ver = inv.ver /\ inv'.frame[p].pc = "none"
      /\ \A q \in Path \ {p} : inv'.frame[q] = inv.frame[q]
  BY <1>1, <1>2, <1>3 DEF InvRec
<1>5. Active' /\ Frames' = Frames \ {p}
  BY <1>1, <1>2, <1>4, SchemaBasics DEF Active, Frames
<1>6. DropsOnly
  BY <1>1 DEF DropsOnly, SchemaTypeOK
<1>7. SchemaTypeOK'
  BY <1>1, <1>4 DEF SchemaTypeOK
<1>8. Stacked'
  <2>1. PICK n \in Nat \ {0} : \E st \in [1..n -> Path] : StackIs(n, st)
    BY <1>1 DEF SchemaInv, Stacked
  <2>2. PICK st \in [1..n -> Path] : StackIs(n, st)
    BY <2>1
  <2>3. /\ st[n] = p /\ inv.frame[st[1]].up = Nil
        /\ \A i \in 2..n : inv.frame[st[i]].up = st[i - 1]
        /\ \A i, j \in 1..n : st[i] = st[j] => i = j
        /\ Frames = {st[i] : i \in 1..n}
    BY <2>2 DEF StackIs
  <2>4. n # 1 /\ st[n - 1] = up
    <3>1. inv.frame[st[n]].up = up
      BY <2>3 DEF Here
    <3>2. n # 1
      BY <2>3, <3>1
    <3>3. n \in 2..n
      BY <2>1, <3>2
    <3> QED BY <2>3, <3>1, <3>2, <3>3
  <2> DEFINE new == [i \in 1..(n - 1) |-> st[i]]
  <2>5. /\ n - 1 \in Nat \ {0} /\ new \in [1..(n - 1) -> Path]
        /\ \A i \in 1..(n - 1) : new[i] = st[i] /\ i \in 1..n /\ i # n /\ st[i] \in Path
        /\ \A i \in 1..n : i = n \/ i \in 1..(n - 1)
        /\ \A i \in 2..(n - 1) : i \in 2..n /\ i \in 1..(n - 1) /\ i - 1 \in 1..(n - 1)
        /\ 1 \in 1..(n - 1) /\ n - 1 \in 1..(n - 1) /\ n \in 1..n
    BY <2>1, <2>4
  <2> HIDE DEF new
  <2>6. \A i \in 1..(n - 1) : st[i] \in Path \ {p}
    BY <2>3, <2>5
  <2>7. StackIs(n - 1, new)'
    <3>1. Frames' = {new[i] : i \in 1..(n - 1)}
      <4>1. ASSUME NEW q \in Frames' PROVE q \in {new[i] : i \in 1..(n - 1)}
        <5>1. q \in Frames /\ q # p
          BY <1>5
        <5>2. PICK i \in 1..n : q = st[i]
          <6>1. Frames = {st[i] : i \in 1..n}
            BY <2>3
          <6> QED BY <5>1, <6>1
        <5>3. i \in 1..(n - 1)
          BY <2>3, <2>5, <5>1, <5>2
        <5> QED BY <2>5, <5>2, <5>3
      <4>2. ASSUME NEW q \in {new[i] : i \in 1..(n - 1)} PROVE q \in Frames'
        <5>1. PICK i \in 1..(n - 1) : q = new[i]
          OBVIOUS
        <5>2. q = st[i] /\ i \in 1..n /\ q # p
          BY <2>5, <2>6, <5>1
        <5>3. q \in Frames
          BY <2>3, <5>2
        <5> QED BY <1>5, <5>2, <5>3
      <4> QED BY <4>1, <4>2
    <3>2. inv'.frame[new[1]].up = Nil
      BY <1>4, <2>3, <2>5, <2>6
    <3>3. ASSUME NEW i \in 2..(n - 1)
          PROVE  inv'.frame[new[i]].up = new[i - 1]
      <4>1. i \in 2..n /\ i \in 1..(n - 1) /\ i - 1 \in 1..(n - 1)
        BY <2>5
      <4>2. inv.frame[st[i]].up = st[i - 1]
        BY <2>3, <4>1
      <4>3. new[i] = st[i] /\ new[i - 1] = st[i - 1] /\ st[i] \in Path \ {p}
        BY <2>5, <2>6, <4>1
      <4> QED BY <1>4, <4>2, <4>3
    <3>4. ASSUME NEW i \in 1..(n - 1), NEW j \in 1..(n - 1), new[i] = new[j]
          PROVE  i = j
      BY <2>3, <2>5, <3>4
    <3>5. new[n - 1] = inv'.at
      BY <1>4, <2>4, <2>5
    <3> QED BY <3>1, <3>2, <3>3, <3>4, <3>5 DEF StackIs
  <2>8. \E m \in Nat \ {0} : \E u \in [1..m -> Path] : StackIs(m, u)'
    BY <2>5, <2>7, Zenon
  <2>9. Frames' \subseteq inv'.visited
    BY <1>2, <1>4, <1>5
  <2>10. \A q \in Frames' \ {inv'.at} : inv'.frame[q].pc = "walk"
    BY <1>2, <1>4, <1>5
  <2> QED BY <1>5, <2>8, <2>9, <2>10 DEF Stacked
<1>9. Below'
  BY <1>1, <1>2, <1>4, <1>5 DEF SchemaInv, Below
<1>10. EntryFresh' /\ \A r \in Reader : ReaderFresh(r)'
  BY <1>1, <1>6, DropsKeep DEF SchemaInv, EntryFresh, ReaderFresh
<1>11. \A s \in Path : (Good(s)' <=> Good(s)) /\ (Doomed(s) => Doomed(s)')
  <2>1. \A s \in Path : Good(s)' <=> Good(s)
    BY <1>1 DEF Good
  <2>2. ASSUME NEW s \in Path, Doomed(s) PROVE Doomed(s)'
    <3>1. s # p
      BY <1>1, <2>2 DEF Doomed, Here
    <3> QED BY <1>4, <2>2, <3>1 DEF Doomed
  <2> QED BY <2>1, <2>2
<1>12. GoodIsIndexed'
  BY <1>1, <1>11 DEF SchemaInv, GoodIsIndexed, Indexed
<1>13. \A r \in Reader : Registers(r)'
  BY <1>1, <1>11 DEF SchemaInv, Registers
<1>14. RawFresh'
  BY <1>1, <1>4 DEF SchemaInv, RawFresh
<1>15. Evicted'
  <2> SUFFICES ASSUME NEW s \in inv.visited,
                      inv'.frame[s].pc \in {"none", "includes", "back"}
               PROVE  ~Good(s)
    BY <1>2, <1>4, <1>11 DEF Evicted
  <2>1. inv.frame[s].pc \in {"none", "includes", "back"}
    BY <1>1, <1>2, <1>4 DEF Here
  <2> QED BY <2>1 DEF SchemaInv, Evicted
<1>16. Drained'
  <2> SUFFICES ASSUME NEW q \in Frames \ {p}, NEW s \in Path, Good(s),
                      q \in entry[parsed[s]].deps
               PROVE  /\ inv'.frame[q].pc = "walk" =>
                           s \in inv'.frame[q].todo \cup inv.visited
                      /\ inv'.frame[q].pc \in {"parsed", "includes", "back"} =>
                           s \in inv.visited
    BY <1>1, <1>4, <1>5, <1>11 DEF Drained
  <2>1. q \in Path
    BY DEF Frames
  <2> QED BY <1>4, <2>1 DEF SchemaInv, Drained
<1>17. PointsBack'
  <2> SUFFICES ASSUME ~overlap, NEW g \in Path, NEW q \in Path, q \in dependents[g]
               PROVE  IF inv'.frame[q].pc \in {"none", "raw", "read"}
                      THEN /\ Cached(q) /\ g \in entry[parsed[q]].deps
                           /\ g \in includes[q]
                      ELSE g \in inv'.frame[q].incs
    BY <1>1 DEF PointsBack, Cached
  <2>1. q # p
    BY <1>1 DEF SchemaInv, PointsBack, Here
  <2> QED BY <1>4, <2>1 DEF SchemaInv, PointsBack
<1> QED
  BY <1>1, <1>6, <1>7, <1>8, <1>9, <1>10, <1>12, <1>13, <1>14, <1>15, <1>16, <1>17,
     DropsKeep
  DEF SchemaInv, SchemaTyped

(* The first call returns: nothing is doomed any more, and no good parse   *)
(* has read the file.                                                      *)
LEMMA EndInvalidateKeeps ==
  ASSUME SchemaInv, Return, Here.up = Nil
  PROVE  SchemaInv'
<1> DEFINE p == inv.at
<1>1. /\ Active /\ Here.pc = "back" /\ Here.incs = {} /\ SchemaTypeOK
      /\ inv' = Quiet
      /\ floor' = [floor EXCEPT ![p] = IF @ < inv.ver THEN inv.ver ELSE @]
      /\ UNCHANGED <<disk, raw, parsed, entry, includes, dependents, reader, overlap>>
  BY DEF Return, At, Here, Active, SchemaInv, SchemaTyped
<1>2. /\ p \in Path /\ p \in Frames /\ p \in inv.visited
      /\ inv.frame \in [Path -> FrameRec] /\ inv.ver \in Ver
      /\ Frames \subseteq inv.visited /\ inv.visited \subseteq Path
  BY <1>1, RunningFrame
<1>3. Frames = {p}
  <2>1. PICK n \in Nat \ {0} : \E st \in [1..n -> Path] : StackIs(n, st)
    BY <1>1 DEF SchemaInv, Stacked
  <2>2. PICK st \in [1..n -> Path] : StackIs(n, st)
    BY <2>1
  <2>3. /\ st[n] = p /\ \A i \in 2..n : inv.frame[st[i]].up = st[i - 1]
        /\ Frames = {st[i] : i \in 1..n}
    BY <2>2 DEF StackIs
  <2>4. n = 1
    <3> SUFFICES ASSUME n # 1 PROVE FALSE
      OBVIOUS
    <3>1. n \in 2..n /\ n - 1 \in 1..n
      BY <2>1
    <3>2. inv.frame[p].up = st[n - 1] /\ st[n - 1] \in Path
      BY <2>3, <3>1
    <3> QED BY <3>2, SchemaBasics DEF Here
  <2>5. 1..n = {1}
    BY <2>4
  <2> QED BY <2>3, <2>4, <2>5
<1>4. /\ inv'.at = Nil /\ inv'.visited = {} /\ ~Active' /\ Frames' = {}
      /\ \A q \in Path : inv'.frame[q].pc = "none"
      /\ inv' \in InvRec
  BY <1>1, SchemaBasics DEF NoFrame, Active, Frames
<1>5. \A q \in Path : q # p => inv.frame[q].pc = "none"
  BY <1>3 DEF Frames
<1>6. \A s \in Path : ~Doomed(s)
  BY <1>1, <1>5 DEF Doomed, Here
<1>7. \A s \in inv.visited : ~Good(s)
  BY <1>1, <1>2, <1>5 DEF SchemaInv, Evicted, Here
<1>8. \A s \in Path : Good(s) => s # p /\ p \notin entry[parsed[s]].deps
  BY <1>1, <1>2, <1>7 DEF SchemaInv, Drained, Here
<1>9. DropsOnly
  BY <1>1 DEF DropsOnly, SchemaTypeOK
<1>10. /\ floor' \in Vers /\ \A q \in Path \ {p} : floor'[q] = floor[q]
       /\ floor[p] <= floor'[p]
       /\ floor'[p] \in {floor[p], inv.ver}
       /\ \A q \in Path : floor[q] \in Nat /\ floor'[q] \in Nat /\ disk[q] \in Nat
       /\ inv.ver \in Nat
  <2>1. /\ floor \in Vers /\ disk \in Vers
        /\ \A q \in Path : floor[q] \in Nat /\ disk[q] \in Nat
        /\ inv.ver \in Nat
    BY <1>1, <1>2, SchemaBasics DEF SchemaTypeOK, Vers
  <2>2. /\ floor' \in Vers /\ \A q \in Path \ {p} : floor'[q] = floor[q]
        /\ floor'[p] = IF floor[p] < inv.ver THEN inv.ver ELSE floor[p]
    BY <1>1, <1>2, <2>1 DEF Vers
  <2> QED BY <1>2, <2>1, <2>2
<1>11. SchemaTypeOK'
  BY <1>1, <1>4, <1>10 DEF SchemaTypeOK
<1>12. Stacked'
  BY <1>1, <1>4 DEF Stacked
<1>13. Below'
  <2>1. \A q \in Path : floor[q] <= disk[q]
    BY DEF SchemaInv, Below
  <2>2. inv.ver <= disk[p]
    BY <1>2 DEF SchemaInv, Below, Here
  <2>3. \A q \in Path : floor'[q] <= disk[q]
    BY <1>2, <1>10, <2>1, <2>2
  <2>4. ASSUME NEW r \in Reader, NEW q \in Path PROVE reader[r].from[q] <= floor'[q]
    <3>1. reader[r].from[q] <= floor[q]
      BY DEF SchemaInv, Below
    <3>2. reader[r].from[q] \in Nat
      BY <1>1, SchemaBasics DEF SchemaTypeOK, ReaderRec, Vers
    <3> QED BY <1>2, <1>10, <3>1, <3>2
  <2> QED BY <1>1, <1>4, <2>3, <2>4 DEF Below
<1>14. RawFresh'
  <2> SUFFICES ASSUME NEW s \in Path, raw[s] # Nil, ~raw[s].raced
               PROVE  raw[s].ver >= floor'[s]
    BY <1>1, <1>4 DEF RawFresh
  <2>1. raw[s].ver >= floor[s] /\ inv.frame[s].pc \in {"none", "raw"}
    BY DEF SchemaInv, RawFresh
  <2>2. s # p
    BY <1>1, <2>1 DEF Here
  <2> QED BY <1>10, <2>1, <2>2
<1>15. \A s \in Path : Good(s)' <=> Good(s)
  BY <1>1 DEF Good
<1>16. EntryFresh'
  <2> SUFFICES ASSUME NEW s \in Path, Good(s), NEW q \in Path,
                      entry[parsed[s]].got[q] # Nil
               PROVE  entry[parsed[s]].got[q] >= floor'[q]
    BY <1>1, <1>15 DEF EntryFresh
  <2>1. q = s \/ q \in entry[parsed[s]].deps
    BY DEF SchemaInv, EntryReaches
  <2>2. q # p
    BY <1>8, <2>1
  <2> QED BY <1>10, <2>2 DEF SchemaInv, EntryFresh
<1>17. ASSUME NEW r \in Reader PROVE ReaderFresh(r)'
  BY <1>1, <1>4 DEF SchemaInv, RacedWhileActive, ReaderFresh
<1>18. GoodIsIndexed'
  BY <1>1, <1>6, <1>15 DEF SchemaInv, GoodIsIndexed, Indexed
<1>19. \A r \in Reader : Registers(r)'
  BY <1>1, <1>6, <1>15 DEF SchemaInv, Registers
<1>20. Evicted' /\ Drained'
  BY <1>4 DEF Evicted, Drained
<1>21. PointsBack'
  <2> SUFFICES ASSUME ~overlap, NEW g \in Path, NEW q \in Path, q \in dependents[g]
               PROVE  /\ Cached(q) /\ g \in entry[parsed[q]].deps
                      /\ g \in includes[q]
    BY <1>1, <1>4 DEF PointsBack, Cached
  <2>1. q # p
    BY <1>1 DEF SchemaInv, PointsBack, Here
  <2> QED BY <1>5, <2>1 DEF SchemaInv, PointsBack
<1> QED
  BY <1>1, <1>9, <1>11, <1>12, <1>13, <1>14, <1>16, <1>17, <1>18, <1>19, <1>20, <1>21,
     DropsKeep
  DEF SchemaInv, SchemaTyped

-----------------------------------------------------------------------------
LEMMA CheckStepKeeps ==
  ASSUME SchemaInv, NEW r \in Reader, ReaderStep(r)
  PROVE  SchemaInv'
<1>1. CASE ReadRaw(r)
  BY <1>1, ReadRawKeeps
<1>2. CASE Load(r)
  BY <1>2, FindKeeps, MissKeeps
<1>3. CASE Hit(r)
  BY <1>3, HitKeeps
<1>4. CASE BeginParse(r)
  BY <1>4, BeginParseKeeps
<1>5. CASE \E t \in reader[r].todo : Expand(r, t)
  BY <1>5, ExpandKeeps
<1>6. CASE EndParse(r)
  BY <1>6, EndParseKeeps
<1>7. CASE StoreIncludes(r)
  BY <1>7, StoreIncludesKeeps
<1>8. CASE \E f \in Path : Register(r, f)
  BY <1>8, RegisterKeeps
<1>9. CASE Registered(r)
  BY <1>9, RegisteredKeeps
<1>10. CASE EndCheck(r)
  BY <1>10, EndCheckKeeps
<1> QED
  BY <1>1, <1>2, <1>3, <1>4, <1>5, <1>6, <1>7, <1>8, <1>9, <1>10 DEF ReaderStep

LEMMA DropStepKeeps ==
  ASSUME SchemaInv, DropStep
  PROVE  SchemaInv'
<1>1. CASE DropRaw
  BY <1>1, DropRawKeeps
<1>2. CASE ReadIncludes
  BY <1>2, ReadIncludesKeeps
<1>3. CASE Drain
  BY <1>3, DrainKeeps
<1>4. CASE \E d \in Path : Recurse(d)
  BY <1>4, PassOverKeeps, CallKeeps
<1>5. CASE DropDependents
  BY <1>5, DropDependentsKeeps
<1>6. CASE DropParsed
  BY <1>6, DropParsedKeeps
<1>7. CASE DropIncludes
  BY <1>7, DropIncludesKeeps
<1>8. CASE \E f \in Path : DropBackPointer(f)
  BY <1>8, DropBackPointerKeeps
<1>9. CASE Return
  BY <1>9, PopKeeps, EndInvalidateKeeps
<1> QED BY <1>1, <1>2, <1>3, <1>4, <1>5, <1>6, <1>7, <1>8, <1>9 DEF DropStep

LEMMA SchemaStuttersKeep ==
  ASSUME SchemaInv, UNCHANGED schemaVars
  PROVE  SchemaInv'
<1>1. UNCHANGED <<disk, floor, raw, parsed, entry, includes, dependents, reader, inv,
                  overlap>>
  BY DEF schemaVars
<1>2. SchemaTypeOK' /\ Stacked'
  BY <1>1 DEF SchemaInv, SchemaTyped, SchemaTypeOK, Stacked, StackIs, Active, Frames
<1>3. \A s \in Path : (Good(s)' <=> Good(s)) /\ (Doomed(s)' <=> Doomed(s))
                      /\ (Indexed(s)' <=> Indexed(s)) /\ (Cached(s)' <=> Cached(s))
  BY <1>1 DEF Good, Doomed, Indexed, Cached
<1>4. /\ \A r \in Reader : /\ Held(r)' <=> Held(r)
                           /\ AnswerIsFresh(r)' <=> AnswerIsFresh(r)
      /\ Frames' = Frames /\ (Active' <=> Active)
      /\ inv.visited \subseteq Path
  BY <1>1, CallStays DEF Held, AnswerIsFresh
<1>5. Owned' /\ Below' /\ RacedWhileActive' /\ RawFresh' /\ RefFresh'
  BY <1>1, <1>4 DEF SchemaInv, Owned, Below, RacedWhileActive, RawFresh, RefFresh
<1>6. EntryFresh' /\ EntryReaches' /\ GoodIsIndexed' /\ Evicted' /\ Drained'
  BY <1>1, <1>3, <1>4
  DEF SchemaInv, EntryFresh, EntryReaches, GoodIsIndexed, Evicted, Drained
<1>7. NoRaces' /\ PointsBack'
  BY <1>1, <1>3, <1>4 DEF SchemaInv, NoRaces, PointsBack
<1>8. ASSUME NEW r \in Reader
      PROVE  /\ ReaderFits(r)' /\ ReaderFresh(r)' /\ WalkReaches(r)'
             /\ Registers(r)' /\ Undisturbed(r)'
  <2>1. ReaderFits(r)' /\ ReaderFresh(r)' /\ WalkReaches(r)' /\ Undisturbed(r)'
    BY <1>1, <1>4, CheckFacts DEF ReaderFits, ReaderFresh, WalkReaches, Undisturbed
  <2>2. Registers(r)'
    BY <1>1, <1>3, CheckFacts DEF Registers
  <2> QED BY <2>1, <2>2
<1> QED BY <1>2, <1>5, <1>6, <1>7, <1>8 DEF SchemaInv, SchemaTyped

LEMMA SchemaInvStep == SchemaInv /\ [SchemaNext]_schemaVars => SchemaInv'
<1> SUFFICES ASSUME SchemaInv, [SchemaNext]_schemaVars PROVE SchemaInv'
  OBVIOUS
<1>1. CASE \E r \in Reader : ReaderStep(r) \/ \E s \in Schema : BeginCheck(r, s)
  BY <1>1, CheckStepKeeps, BeginCheckKeeps
<1>2. CASE \E p \in Path : Edit(p) \/ BeginInvalidate(p)
  BY <1>2, EditKeeps, BeginInvalidateKeeps
<1>3. CASE DropStep
  BY <1>3, DropStepKeeps
<1>4. CASE UNCHANGED schemaVars
  BY <1>4, SchemaStuttersKeep
<1> QED BY <1>1, <1>2, <1>3, <1>4 DEF SchemaNext

LEMMA SchemaInvHolds == SchemaSpec => []SchemaInv
BY SchemaInvInit, SchemaInvStep, PTL DEF SchemaSpec

-----------------------------------------------------------------------------
(* The schema slots, the index and the checks at work hold what their      *)
(* declarations say, however the checks, the edits and the recursive       *)
(* Invalidate interleave (pkg/markdown/runcache.go).                       *)
THEOREM SchemaTypeCorrect == SchemaSpec => []SchemaTypeOK
<1>1. SchemaInv => SchemaTypeOK
  BY DEF SchemaInv, SchemaTyped
<1> QED BY <1>1, SchemaInvHolds, PTL

(* A parse is never served past the Invalidate of a file it was made from, *)
(* unless an Invalidate overlapped the check that made it or read its      *)
(* bytes: for every include graph, cyclic or not, and any number of checks.*)
THEOREM InvalidateReachesReaders == SchemaSpec => []OnlyRacesAreStale
<1>1. SchemaInv => OnlyRacesAreStale
  <2> SUFFICES ASSUME SchemaInv, NEW r \in Reader, reader[r].pc = "done",
                      ~entry[reader[r].ref].raced
               PROVE  AnswerIsFresh(r)
    BY DEF OnlyRacesAreStale
  <2>1. Held(r) /\ entry[reader[r].ref].done
    BY CheckFacts DEF Held, ReaderFits
  <2> QED BY <2>1 DEF SchemaInv, RefFresh
<1> QED BY <1>1, SchemaInvHolds, PTL

(* Without a race the reverse-include index says, at rest, exactly which   *)
(* cached schemas reached which fragments.                                 *)
THEOREM IndexStaysExact == SchemaSpec => []IndexIsExact
<1>1. SchemaInv => IndexIsExact
  <2> SUFFICES ASSUME SchemaInv, AtRest, ~overlap, NEW f \in Path
               PROVE  dependents[f] =
                        {s \in Path : Cached(s) /\ f \in entry[parsed[s]].deps}
    BY DEF IndexIsExact
  <2>1. /\ ~Active /\ inv.visited = {} /\ \A q \in Path : inv.frame[q].pc = "none"
    BY SchemaBasics DEF AtRest, Active, NoFrame
  <2>2. dependents[f] \subseteq Path
    BY DEF SchemaInv, SchemaTyped, SchemaTypeOK
  <2>3. ASSUME NEW s \in dependents[f]
        PROVE  Cached(s) /\ f \in entry[parsed[s]].deps
    BY <2>1, <2>2 DEF SchemaInv, PointsBack
  <2>4. ASSUME NEW s \in Path, Cached(s), f \in entry[parsed[s]].deps
        PROVE  s \in dependents[f]
    <3>1. Good(s)
      BY <2>4, EntriesAreEntries DEF SchemaInv, NoRaces, Cached, Good
    <3>2. \A r \in Reader : ~Held(r)
      BY DEF AtRest, Held
    <3> QED BY <2>1, <2>4, <3>1, <3>2 DEF SchemaInv, GoodIsIndexed, Indexed, Doomed
  <2> QED BY <2>2, <2>3, <2>4
<1> QED BY <1>1, SchemaInvHolds, PTL
=============================================================================
