--------------------------- MODULE RunCache_proofs ---------------------------
(***************************************************************************)
(* RunCache keeps its types and never answers a read with content older    *)
(* than an Invalidate that returned before the read began, for any number  *)
(* of paths, readers, invalidating goroutines and entries, as long as      *)
(* builds read the files as they are (Snapshots is FALSE).                 *)
(*                                                                         *)
(* ReadIsFresh is not inductive: it speaks of answers, and an answer is as *)
(* new as the entry it was read from, which may no longer be in the map.   *)
(* The strengthening gives every entry the list of those who will read it: *)
(* a value is good for an entry when it is as new as each of them needs.   *)
(*                                                                         *)
(* From the same invariant, which entry serves what gives that a value has *)
(* one builder at a time, snapshots or not; and, with what is written and  *)
(* what was asked for, that RunCache implements FreshReads.                *)
(***************************************************************************)
EXTENDS RunCache, TLAPS

(* v is new enough for whoever finds p's slot from now on, also once the   *)
(* invalidations that have emptied it return.                              *)
AtLeast(p, v) ==
  /\ v >= floor[p]
  /\ \A e \in Editor : editor[e].pc = "agg" /\ editor[e].path = p
                         => v >= editor[e].ver

(* v is new enough for p in the aggregate entry x: for whoever finds x in  *)
(* the map and for everyone who already holds it.                          *)
AggOK(x, p, v) ==
  /\ x = agg => v >= floor[p]
  /\ \A r \in Reader : reader[r].aggRef = x => v >= reader[r].from[p]

(* v is new enough for the entry y as p's slot, in the same sense; a       *)
(* holder that is building an aggregate passes its needs on.               *)
LeafOK(y, p, v) ==
  /\ y = leaf[p] => AtLeast(p, v)
  /\ \A r \in Reader : reader[r].ref = y /\ reader[r].cur = p =>
       /\ v >= reader[r].from[p]
       /\ reader[r].aggRef # None => AggOK(reader[r].aggRef, p, v)

(* Nobody is promised what has not been written.                           *)
Bounds ==
  /\ \A p \in Path : floor[p] <= disk[p]
  /\ \A r \in Reader, p \in Path : reader[r].from[p] <= floor[p]
  /\ \A e \in Editor : editor[e].pc # "idle" =>
       editor[e].path \in Path /\ editor[e].ver <= disk[editor[e].path]

(* What a goroutine holds at each place.                                   *)
Shape ==
  \A r \in Reader :
    /\ reader[r].pc \in {"lock", "read", "store"} => reader[r].ref \in Entry
    /\ reader[r].pc \notin {"lock", "read", "store"} => reader[r].ref = None
    /\ reader[r].pc \in {"leaf", "lock", "read", "store"} => reader[r].cur \in Path
    /\ reader[r].pc \in {"lockAgg", "next", "storeAgg"} => reader[r].aggRef \in Entry
    /\ reader[r].pc \in {"idle", "agg", "done"} => reader[r].aggRef = None
    /\ reader[r].pc = "storeAgg" => reader[r].todo = {}
    /\ reader[r].pc \in {"leaf", "lock", "read", "store"} /\ reader[r].aggRef = None
         => \A p \in Path \ {reader[r].cur} : reader[r].from[p] = 0

(* An entry serves one path, or the aggregate, as long as anyone holds it. *)
Roles ==
  /\ \A p, q \in Path : leaf[p] = leaf[q] /\ leaf[p] # None => p = q
  /\ \A p \in Path : leaf[p] # None => leaf[p] # agg
  /\ \A r \in Reader : reader[r].ref # None =>
       /\ reader[r].ref # agg
       /\ \A q \in Path : leaf[q] = reader[r].ref => q = reader[r].cur
  /\ \A r \in Reader : reader[r].aggRef # None =>
       \A q \in Path : leaf[q] # reader[r].aggRef
  /\ \A r, s \in Reader : reader[r].ref # None =>
       /\ reader[r].ref = reader[s].ref => reader[r].cur = reader[s].cur
       /\ reader[r].ref # reader[s].aggRef

FreshLeaf ==
  \A y \in Entry, p \in Path : entry[y].done => LeafOK(y, p, entry[y].val[p])

FreshAgg ==
  \A x \in Entry, p \in Path : entry[x].done => AggOK(x, p, entry[x].val[p])

(* What a goroutine has read, has gathered for an aggregate, or answers.   *)
FreshReader(r) ==
  /\ reader[r].pc = "store" =>
       LeafOK(reader[r].ref, reader[r].cur, reader[r].seen)
  /\ reader[r].aggRef # None /\ reader[r].pc # "lockAgg" =>
       \A p \in Path \ reader[r].todo : AggOK(reader[r].aggRef, p, reader[r].got[p])
  /\ reader[r].pc = "done" =>
       \A p \in Path : reader[r].got[p] >= reader[r].from[p]

Fresher == FreshLeaf /\ FreshAgg /\ \A r \in Reader : FreshReader(r)

IInv == TypeOK /\ Shape /\ Bounds /\ Roles /\ Fresher

TInv == TypeOK /\ Shape

-----------------------------------------------------------------------------
LEMMA Zeros == 0 \in Ver /\ Zero \in Vers
BY ConstantsAssumption DEF Ver, Vers, Zero

LEMMA FreshUnused == Unused # {} => Fresh \in Unused /\ Fresh \in Entry
BY DEF Fresh, Unused

LEMMA NewType == New \in EntryRec
BY Zeros DEF New, EntryRec

LEMMA IdleType == Idle \in ReaderRec
BY Zeros DEF Idle, ReaderRec, ReaderPc

(* A reader that was given the value of its file is still a reader.        *)
LEMMA WithValueType ==
  ASSUME NEW rec \in ReaderRec, rec.cur \in Path, NEW v \in Ver
  PROVE  WithValue(rec, v) \in ReaderRec
<1> DEFINE left == rec.todo \ {rec.cur}
           got  == [rec.got EXCEPT ![rec.cur] = v]
           pc   == IF rec.aggRef = None THEN "done"
                   ELSE IF left = {} THEN "storeAgg" ELSE "next"
<1>1. got \in Vers
  BY DEF ReaderRec, Vers
<1>2. left \in SUBSET Path /\ pc \in ReaderPc
  BY DEF ReaderRec, ReaderPc
<1>3. WithValue(rec, v) =
        [rec EXCEPT !.got = got, !.todo = left, !.cur = None, !.ref = None,
                    !.seen = 0, !.pc = pc]
  BY DEF WithValue
<1> HIDE DEF left, got, pc
<1> QED
  BY <1>1, <1>2, <1>3, Zeros DEF ReaderRec

(* The types hold at first and are kept, together with what a goroutine    *)
(* holds at each place: a value is read through the entry held.            *)
LEMMA TInvInit == Init => TInv
<1> SUFFICES ASSUME Init PROVE TInv
  OBVIOUS
<1>1. \A r \in Reader : reader[r] = Idle
  BY DEF Init
<1>2. Shape
  BY <1>1 DEF Shape, Idle
<1>3. [val |-> Zero, done |-> FALSE, lock |-> None] \in EntryRec
  BY Zeros DEF EntryRec
<1>4. Resting \in EditorRec
  BY Zeros DEF Resting, EditorRec
<1> QED
  BY <1>2, <1>3, <1>4, Zeros, IdleType DEF Init, TInv, TypeOK

LEMMA TInvNext == TInv /\ [Next]_vars => TInv'
<1> SUFFICES ASSUME TInv, [Next]_vars PROVE TInv'
  OBVIOUS
<1> USE DEF TInv, TypeOK
<1>1. ASSUME NEW p \in Path, Edit(p) PROVE TInv'
  <2>1. disk' \in Vers
    BY <1>1, ConstantsAssumption DEF Edit, Vers, Ver
  <2> QED
    BY <1>1, <2>1 DEF Edit, Shape
<1>2. ASSUME NEW e \in Editor, NEW p \in Path, Invalidate(e, p) PROVE TInv'
  <2>1. editor' \in [Editor -> EditorRec]
    BY <1>2 DEF Invalidate, EditorRec, Vers
  <2> QED
    BY <1>2, <2>1 DEF Invalidate, Shape
<1>3. ASSUME NEW e \in Editor, DropLeaf(e) PROVE TInv'
  <2>1. editor' \in [Editor -> EditorRec]
    BY <1>3 DEF DropLeaf, EditorRec
  <2> QED
    BY <1>3, <2>1 DEF DropLeaf, Shape
<1>4. ASSUME NEW e \in Editor, DropAgg(e) PROVE TInv'
  <2>1. editor' \in [Editor -> EditorRec]
    BY <1>4, Zeros DEF DropAgg, EditorRec, Resting
  <2>2. floor' \in Vers
    BY <1>4 DEF DropAgg, EditorRec, Vers
  <2> QED
    BY <1>4, <2>1, <2>2 DEF DropAgg, Shape
<1>5. ASSUME NEW r \in Reader, NEW p \in Path, ReadFile(r, p) PROVE TInv'
  <2> DEFINE from == [q \in Path |-> IF q \in {p} THEN floor[q] ELSE 0]
             view == IF Snapshots THEN disk ELSE Zero
             rec  == [Idle EXCEPT !.scope = {p}, !.view = view, !.from = from,
                                  !.pc = "leaf", !.cur = p]
  <2>1. from \in Vers /\ view \in Vers
    BY Zeros DEF Vers
  <2>2. reader' = [reader EXCEPT ![r] = rec]
    BY <1>5 DEF ReadFile, Start
  <2>3. \A q \in Path \ {p} : from[q] = 0
    OBVIOUS
  <2> HIDE DEF from, view
  <2>4. /\ rec.pc = "leaf" /\ rec.cur = p /\ rec.ref = None /\ rec.aggRef = None
        /\ rec.from = from
    BY DEF Idle
  <2>5. rec \in ReaderRec
    BY <2>1, IdleType DEF ReaderRec, ReaderPc
  <2> HIDE DEF rec
  <2>6. Shape'
    BY <2>2, <2>3, <2>4 DEF Shape
  <2> QED
    BY <1>5, <2>2, <2>5, <2>6 DEF ReadFile, Start
<1>6. ASSUME NEW r \in Reader, ReadCorpus(r) PROVE TInv'
  <2> DEFINE from == [q \in Path |-> IF q \in Path THEN floor[q] ELSE 0]
             view == IF Snapshots THEN disk ELSE Zero
             rec  == [Idle EXCEPT !.scope = Path, !.view = view, !.from = from,
                                  !.pc = "agg", !.cur = None]
  <2>1. from \in Vers /\ view \in Vers
    BY Zeros DEF Vers
  <2>2. reader' = [reader EXCEPT ![r] = rec]
    BY <1>6 DEF ReadCorpus, Start
  <2>3. \A q \in Path \ Path : from[q] = 0
    OBVIOUS
  <2> HIDE DEF from, view
  <2>4. /\ rec.pc = "agg" /\ rec.cur = None /\ rec.ref = None /\ rec.aggRef = None
        /\ rec.from = from
    BY DEF Idle
  <2>5. rec \in ReaderRec
    BY <2>1, IdleType DEF ReaderRec, ReaderPc
  <2> HIDE DEF rec
  <2>6. Shape'
    BY <2>2, <2>3, <2>4 DEF Shape
  <2> QED
    BY <1>6, <2>2, <2>5, <2>6 DEF ReadCorpus, Start
<1>7. ASSUME NEW r \in Reader, LeafLoad(r) PROVE TInv'
  <2> DEFINE x == IF leaf[reader[r].cur] # None THEN leaf[reader[r].cur] ELSE Fresh
             rec == [reader[r] EXCEPT !.pc = "lock", !.ref = x]
  <2>1. reader[r].cur \in Path
    BY <1>7 DEF LeafLoad, Shape
  <2>2. x \in Entry
    BY <1>7, <2>1, FreshUnused DEF LeafLoad
  <2>3. rec \in ReaderRec
    BY <1>7, <2>1, <2>2 DEF ReaderRec, ReaderPc
  <2>4. reader' = [reader EXCEPT ![r] = rec]
    BY <1>7, <2>1, <2>2 DEF LeafLoad
  <2>5. /\ rec.pc = "lock" /\ rec.ref = x /\ rec.cur = reader[r].cur /\ reader[r].pc = "leaf"
        /\ rec.aggRef = reader[r].aggRef /\ rec.from = reader[r].from
    BY <1>7, <2>1, <2>2 DEF LeafLoad, ReaderRec
  <2>6. entry' \in [Entry -> EntryRec]
    BY <1>7, <2>1, <2>2, FreshUnused, NewType DEF LeafLoad
  <2> HIDE DEF rec
  <2>7. Shape'
    BY <1>7, <2>4, <2>5, <2>1, <2>2 DEF Shape
  <2> QED
    BY <1>7, <2>1, <2>2, <2>3, <2>4, <2>6, <2>7 DEF LeafLoad
<1>8. ASSUME NEW r \in Reader, LeafHit(r) PROVE TInv'
  <2> DEFINE v == entry[reader[r].ref].val[reader[r].cur]
             rec == WithValue(reader[r], v)
  <2>1. reader[r].cur \in Path /\ reader[r].ref \in Entry
    BY <1>8 DEF LeafHit, Shape
  <2>2. v \in Ver
    BY <1>8, <2>1 DEF LeafHit, EntryRec, ReaderRec, Vers
  <2>3. reader' = [reader EXCEPT ![r] = rec]
    BY <1>8 DEF LeafHit
  <2>4. /\ rec.ref = None /\ rec.aggRef = reader[r].aggRef /\ rec.from = reader[r].from
        /\ rec.pc = "done" => rec.aggRef = None
        /\ rec.pc \in {"next", "storeAgg"} => rec.aggRef # None
        /\ rec.pc \in {"done", "next", "storeAgg"}
        /\ rec.pc = "storeAgg" => rec.todo = {}
    BY DEF WithValue, ReaderRec
  <2>5. rec \in ReaderRec
    BY <2>1, <2>2, WithValueType
  <2>6. rec.aggRef \in Entry \cup {None}
    BY <2>5 DEF ReaderRec
  <2> HIDE DEF rec, v
  <2>8. Shape'
    BY <2>3, <2>4, <2>6 DEF Shape
  <2> QED
    BY <1>8, <2>3, <2>5, <2>8 DEF LeafHit
<1>9. ASSUME NEW r \in Reader, LeafLock(r) PROVE TInv'
  <2>1. reader[r].ref \in Entry
    BY <1>9 DEF LeafLock, Shape
  <2>2. reader' \in [Reader -> ReaderRec]
    BY <1>9, <2>1 DEF LeafLock, ReaderRec, ReaderPc
  <2>3. entry' \in [Entry -> EntryRec]
    BY <1>9, <2>1 DEF LeafLock, EntryRec
  <2>4. Shape'
    BY <1>9, <2>1 DEF LeafLock, Shape
  <2> QED
    BY <1>9, <2>1, <2>2, <2>3, <2>4 DEF LeafLock
<1>10. ASSUME NEW r \in Reader, LeafRead(r) PROVE TInv'
  <2> DEFINE seen == IF Snapshots THEN reader[r].view[reader[r].cur]
                     ELSE disk[reader[r].cur]
             rec  == [reader[r] EXCEPT !.pc = "store", !.seen = seen]
  <2>1. reader[r].cur \in Path /\ reader[r].ref \in Entry
    BY <1>10 DEF LeafRead, Shape
  <2>2. seen \in Ver
    BY <2>1 DEF Vers, ReaderRec
  <2>3. reader' = [reader EXCEPT ![r] = rec]
    BY <1>10 DEF LeafRead
  <2> HIDE DEF seen
  <2>4. rec \in ReaderRec
    BY <2>2 DEF ReaderRec, ReaderPc
  <2>5. /\ rec.pc = "store" /\ rec.ref = reader[r].ref /\ rec.cur = reader[r].cur
        /\ rec.aggRef = reader[r].aggRef /\ rec.from = reader[r].from /\ reader[r].pc = "read"
    BY <1>10 DEF LeafRead, ReaderRec
  <2> HIDE DEF rec
  <2>6. Shape'
    BY <1>10, <2>1, <2>3, <2>5 DEF Shape
  <2> QED
    BY <1>10, <2>3, <2>4, <2>6 DEF LeafRead
<1>11. ASSUME NEW r \in Reader, LeafStore(r) PROVE TInv'
  <2> DEFINE v == reader[r].seen
             rec == WithValue(reader[r], v)
  <2>1. reader[r].cur \in Path /\ reader[r].ref \in Entry
    BY <1>11 DEF LeafStore, Shape
  <2>2. v \in Ver
    BY <1>11, <2>1 DEF LeafStore, EntryRec, ReaderRec, Vers
  <2>3. reader' = [reader EXCEPT ![r] = rec]
    BY <1>11 DEF LeafStore
  <2>4. /\ rec.ref = None /\ rec.aggRef = reader[r].aggRef /\ rec.from = reader[r].from
        /\ rec.pc = "done" => rec.aggRef = None
        /\ rec.pc \in {"next", "storeAgg"} => rec.aggRef # None
        /\ rec.pc \in {"done", "next", "storeAgg"}
        /\ rec.pc = "storeAgg" => rec.todo = {}
    BY DEF WithValue, ReaderRec
  <2>5. rec \in ReaderRec
    BY <2>1, <2>2, WithValueType
  <2>6. rec.aggRef \in Entry \cup {None}
    BY <2>5 DEF ReaderRec
  <2>7. entry' \in [Entry -> EntryRec]
    <3>1. [Zero EXCEPT ![reader[r].cur] = v] \in Vers
      BY <2>1, <2>2, Zeros DEF Vers
    <3> HIDE DEF v
    <3> QED
      BY <1>11, <2>1, <3>1 DEF LeafStore, EntryRec, v
  <2> HIDE DEF rec, v
  <2>8. Shape'
    BY <2>3, <2>4, <2>6 DEF Shape
  <2> QED
    BY <1>11, <2>3, <2>5, <2>7, <2>8 DEF LeafStore
<1>12. ASSUME NEW r \in Reader, AggLoad(r) PROVE TInv'
  <2> DEFINE x == IF agg # None THEN agg ELSE Fresh
             rec == [reader[r] EXCEPT !.pc = "lockAgg", !.aggRef = x]
  <2>1. x \in Entry
    BY <1>12, FreshUnused DEF AggLoad
  <2>2. rec \in ReaderRec
    BY <1>12, <2>1 DEF ReaderRec, ReaderPc
  <2>3. reader' = [reader EXCEPT ![r] = rec]
    BY <1>12, <2>1 DEF AggLoad
  <2>4. /\ rec.pc = "lockAgg" /\ rec.aggRef = x /\ rec.ref = reader[r].ref /\ reader[r].pc = "agg"
    BY <1>12, <2>1 DEF AggLoad, ReaderRec
  <2>5. entry' \in [Entry -> EntryRec]
    BY <1>12, <2>1, FreshUnused, NewType DEF AggLoad
  <2> HIDE DEF rec
  <2>6. Shape'
    BY <1>12, <2>3, <2>4, <2>1 DEF Shape
  <2> QED
    BY <1>12, <2>1, <2>2, <2>3, <2>5, <2>6 DEF AggLoad
<1>13. ASSUME NEW r \in Reader, AggHit(r) PROVE TInv'
  <2> DEFINE rec == [reader[r] EXCEPT !.pc = "done", !.aggRef = None,
                                 !.got = entry[reader[r].aggRef].val]
  <2>1. reader[r].aggRef \in Entry
    BY <1>13 DEF AggHit, Shape
  <2>2. rec \in ReaderRec
    BY <1>13, <2>1 DEF EntryRec, ReaderRec, ReaderPc
  <2>3. reader' = [reader EXCEPT ![r] = rec]
    BY <1>13, <2>1 DEF AggHit
  <2>4. /\ rec.pc = "done" /\ rec.aggRef = None /\ rec.ref = reader[r].ref /\ reader[r].pc = "lockAgg"
    BY <1>13, <2>1 DEF AggHit, ReaderRec
  <2> HIDE DEF rec
  <2>5. Shape'
    BY <1>13, <2>3, <2>4 DEF Shape
  <2> QED
    BY <1>13, <2>1, <2>2, <2>3, <2>5 DEF AggHit
<1>14. ASSUME NEW r \in Reader, AggLock(r) PROVE TInv'
  <2> DEFINE rec == [reader[r] EXCEPT !.pc = "next", !.todo = Path]
  <2>1. reader[r].aggRef \in Entry
    BY <1>14 DEF AggLock, Shape
  <2>2. rec \in ReaderRec
    BY <1>14, <2>1 DEF ReaderRec, ReaderPc
  <2>3. reader' = [reader EXCEPT ![r] = rec]
    BY <1>14, <2>1 DEF AggLock
  <2>4. /\ rec.pc = "next" /\ rec.aggRef = reader[r].aggRef /\ rec.ref = reader[r].ref
        /\ reader[r].pc = "lockAgg"
    BY <1>14, <2>1 DEF AggLock, ReaderRec
  <2>5. entry' \in [Entry -> EntryRec]
    BY <1>14, <2>1 DEF AggLock, EntryRec
  <2> HIDE DEF rec
  <2>6. Shape'
    BY <1>14, <2>3, <2>4, <2>1 DEF Shape
  <2> QED
    BY <1>14, <2>1, <2>2, <2>3, <2>5, <2>6 DEF AggLock
<1>15. ASSUME NEW r \in Reader, NEW p \in Path, AggNext(r, p) PROVE TInv'
  <2> DEFINE rec == [reader[r] EXCEPT !.pc = "leaf", !.cur = p]
  <2>1. reader[r].aggRef \in Entry
    BY <1>15 DEF AggNext, Shape
  <2>2. rec \in ReaderRec
    BY <1>15, <2>1 DEF ReaderRec, ReaderPc
  <2>3. reader' = [reader EXCEPT ![r] = rec]
    BY <1>15, <2>1 DEF AggNext
  <2>4. /\ rec.pc = "leaf" /\ rec.aggRef = reader[r].aggRef /\ rec.ref = reader[r].ref
        /\ rec.cur = p /\ reader[r].pc = "next"
    BY <1>15, <2>1 DEF AggNext, ReaderRec
  <2> HIDE DEF rec
  <2>5. Shape'
    BY <1>15, <2>3, <2>4, <2>1, ConstantsAssumption DEF Shape
  <2> QED
    BY <1>15, <2>1, <2>2, <2>3, <2>5 DEF AggNext
<1>16. ASSUME NEW r \in Reader, AggStore(r) PROVE TInv'
  <2> DEFINE rec == [reader[r] EXCEPT !.pc = "done", !.aggRef = None]
  <2>1. reader[r].aggRef \in Entry
    BY <1>16 DEF AggStore, Shape
  <2>2. rec \in ReaderRec
    BY <1>16, <2>1 DEF ReaderRec, ReaderPc
  <2>3. reader' = [reader EXCEPT ![r] = rec]
    BY <1>16, <2>1 DEF AggStore
  <2>4. /\ rec.pc = "done" /\ rec.aggRef = None /\ rec.ref = reader[r].ref /\ reader[r].pc = "storeAgg"
    BY <1>16, <2>1 DEF AggStore, ReaderRec
  <2>5. entry' \in [Entry -> EntryRec]
    BY <1>16, <2>1 DEF AggStore, EntryRec, ReaderRec
  <2> HIDE DEF rec
  <2>6. Shape'
    BY <1>16, <2>3, <2>4 DEF Shape
  <2> QED
    BY <1>16, <2>1, <2>2, <2>3, <2>5, <2>6 DEF AggStore
<1>17. ASSUME NEW r \in Reader, Finish(r) PROVE TInv'
  <2>1. Shape'
    BY <1>17 DEF Finish, Shape, Idle
  <2> QED
    BY <1>17, <2>1, IdleType DEF Finish
<1>18. CASE UNCHANGED vars
  BY <1>18 DEF vars, Shape
<1> QED
  BY <1>1, <1>2, <1>3, <1>4, <1>5, <1>6, <1>7, <1>8, <1>9, <1>10, <1>11, <1>12,
     <1>13, <1>14, <1>15, <1>16, <1>17, <1>18 DEF Next, ReaderStep, EditorStep

(* The variables hold what their declarations say.                         *)
THEOREM TypeCorrect == Spec => []TypeOK
<1>1. TInv => TypeOK
  BY DEF TInv
<1> QED
  BY TInvInit, TInvNext, <1>1, PTL DEF Spec

-----------------------------------------------------------------------------
(* What one step changes.                                                  *)
Moved(r, pc, todo, cur, ref, aggRef, seen, got) ==
  /\ \A s \in Reader \ {r} : reader'[s] = reader[s]
  /\ reader'[r].pc = pc /\ reader'[r].todo = todo /\ reader'[r].cur = cur
  /\ reader'[r].ref = ref /\ reader'[r].aggRef = aggRef /\ reader'[r].seen = seen
  /\ reader'[r].got = got /\ reader'[r].from = reader[r].from
  /\ reader'[r].scope = reader[r].scope

Found(slot) == IF slot # None THEN slot ELSE Fresh

(* The entry x is new, and everything else is as it was.                   *)
Created(x) ==
  /\ x \in Unused /\ x \in Entry /\ x # None
  /\ ~entry'[x].done
  /\ \A y \in Entry \ {x} : entry'[y] = entry[y]

(* The entry x is done with val, and everything else is as it was.         *)
Stored(x, val) ==
  /\ entry'[x].done /\ entry'[x].val = val
  /\ \A y \in Entry \ {x} : entry'[y] = entry[y]

AfterValue(r) ==
  IF reader[r].aggRef = None THEN "done"
  ELSE IF reader[r].todo \ {reader[r].cur} = {} THEN "storeAgg" ELSE "next"

LEMMA LeafLoadMoves ==
  ASSUME TInv, NEW r \in Reader, LeafLoad(r)
  PROVE  /\ Moved(r, "lock", reader[r].todo, reader[r].cur, Found(leaf[reader[r].cur]),
                  reader[r].aggRef, reader[r].seen, reader[r].got)
         /\ reader[r].pc = "leaf" /\ reader[r].ref = None /\ reader[r].cur \in Path
         /\ UNCHANGED <<disk, floor, agg, editor>>
         /\ leaf[reader[r].cur] # None => UNCHANGED <<leaf, entry>>
         /\ leaf[reader[r].cur] = None =>
              /\ Created(Fresh)
              /\ \A q \in Path : leaf'[q] = IF q = reader[r].cur THEN Fresh ELSE leaf[q]
<1>1. Moved(r, "lock", reader[r].todo, reader[r].cur, Found(leaf[reader[r].cur]),
               reader[r].aggRef, reader[r].seen, reader[r].got)
  BY DEF LeafLoad, Moved, TInv, TypeOK, ReaderRec, Found
<1>2. reader[r].pc = "leaf" /\ reader[r].ref = None /\ reader[r].cur \in Path
  BY DEF LeafLoad, TInv, Shape
<1>3. ASSUME leaf[reader[r].cur] = None
      PROVE  /\ Created(Fresh)
             /\ \A q \in Path : leaf'[q] = IF q = reader[r].cur THEN Fresh ELSE leaf[q]
  <2>1. Fresh \in Unused /\ Fresh \in Entry /\ Fresh # None
    BY <1>3, FreshUnused, ConstantsAssumption DEF LeafLoad
  <2>2. ~New.done
    BY DEF New
  <2>3. entry' = [entry EXCEPT ![Fresh] = New] /\ entry \in [Entry -> EntryRec]
    BY <1>3 DEF LeafLoad, TInv, TypeOK
  <2>4. leaf' = [leaf EXCEPT ![reader[r].cur] = Fresh]
    BY <1>3 DEF LeafLoad
  <2> QED
    BY <2>1, <2>2, <2>3, <2>4 DEF Created, TInv, TypeOK
<1> QED
  BY <1>1, <1>2, <1>3 DEF LeafLoad

LEMMA LeafHitMoves ==
  ASSUME TInv, NEW r \in Reader, LeafHit(r)
  PROVE  /\ Moved(r, AfterValue(r), reader[r].todo \ {reader[r].cur}, None, None,
                  reader[r].aggRef, 0, [reader[r].got EXCEPT ![reader[r].cur] = entry[reader[r].ref].val[reader[r].cur]])
         /\ reader[r].pc = "lock" /\ reader[r].ref \in Entry /\ reader[r].cur \in Path
         /\ UNCHANGED <<disk, floor, leaf, agg, entry, editor>>
         /\ entry[reader[r].ref].done
<1>1. Moved(r, AfterValue(r), reader[r].todo \ {reader[r].cur}, None, None,
                  reader[r].aggRef, 0, [reader[r].got EXCEPT ![reader[r].cur] = entry[reader[r].ref].val[reader[r].cur]])
  BY DEF LeafHit, Moved, TInv, TypeOK, ReaderRec, AfterValue, WithValue
<1>2. reader[r].pc = "lock" /\ reader[r].ref \in Entry /\ reader[r].cur \in Path
  BY DEF LeafHit, TInv, Shape
<1>3. entry[reader[r].ref].done
  BY DEF LeafHit
<1> QED
  BY <1>1, <1>2, <1>3 DEF LeafHit

LEMMA LeafLockMoves ==
  ASSUME TInv, NEW r \in Reader, LeafLock(r)
  PROVE  /\ Moved(r, "read", reader[r].todo, reader[r].cur, reader[r].ref,
                  reader[r].aggRef, reader[r].seen, reader[r].got)
         /\ reader[r].pc = "lock" /\ reader[r].ref \in Entry /\ reader[r].cur \in Path
         /\ UNCHANGED <<disk, floor, leaf, agg, editor>>
         /\ \A x \in Entry : entry'[x].done = entry[x].done /\ entry'[x].val = entry[x].val
<1>1. Moved(r, "read", reader[r].todo, reader[r].cur, reader[r].ref,
                  reader[r].aggRef, reader[r].seen, reader[r].got)
  BY DEF LeafLock, Moved, TInv, TypeOK, ReaderRec
<1>2. reader[r].pc = "lock" /\ reader[r].ref \in Entry /\ reader[r].cur \in Path
  BY DEF LeafLock, TInv, Shape
<1>3. \A x \in Entry : entry'[x].done = entry[x].done /\ entry'[x].val = entry[x].val
  BY DEF LeafLock, TInv, TypeOK, EntryRec
<1> QED
  BY <1>1, <1>2, <1>3 DEF LeafLock

(* What a build of p reads of the file.                                    *)
Content(r, p) == IF Snapshots THEN reader[r].view[p] ELSE disk[p]

LEMMA LeafReadMoves ==
  ASSUME TInv, NEW r \in Reader, LeafRead(r)
  PROVE  /\ Moved(r, "store", reader[r].todo, reader[r].cur, reader[r].ref,
                  reader[r].aggRef, Content(r, reader[r].cur), reader[r].got)
         /\ reader[r].pc = "read" /\ reader[r].ref \in Entry /\ reader[r].cur \in Path
         /\ UNCHANGED <<disk, floor, leaf, agg, entry, editor>>
<1>1. Moved(r, "store", reader[r].todo, reader[r].cur, reader[r].ref,
                  reader[r].aggRef, Content(r, reader[r].cur), reader[r].got)
  BY DEF LeafRead, Moved, TInv, TypeOK, ReaderRec, Content
<1>2. reader[r].pc = "read" /\ reader[r].ref \in Entry /\ reader[r].cur \in Path
  BY DEF LeafRead, TInv, Shape
<1> QED
  BY <1>1, <1>2 DEF LeafRead

LEMMA LeafStoreMoves ==
  ASSUME TInv, NEW r \in Reader, LeafStore(r)
  PROVE  /\ Moved(r, AfterValue(r), reader[r].todo \ {reader[r].cur}, None, None,
                  reader[r].aggRef, 0, [reader[r].got EXCEPT ![reader[r].cur] = reader[r].seen])
         /\ reader[r].pc = "store" /\ reader[r].ref \in Entry /\ reader[r].cur \in Path
         /\ UNCHANGED <<disk, floor, leaf, agg, editor>>
         /\ Stored(reader[r].ref, [Zero EXCEPT ![reader[r].cur] = reader[r].seen])
<1>1. Moved(r, AfterValue(r), reader[r].todo \ {reader[r].cur}, None, None,
                  reader[r].aggRef, 0, [reader[r].got EXCEPT ![reader[r].cur] = reader[r].seen])
  BY DEF LeafStore, Moved, TInv, TypeOK, ReaderRec, AfterValue, WithValue
<1>2. reader[r].pc = "store" /\ reader[r].ref \in Entry /\ reader[r].cur \in Path
  BY DEF LeafStore, TInv, Shape
<1>3. Stored(reader[r].ref, [Zero EXCEPT ![reader[r].cur] = reader[r].seen])
  BY <1>2 DEF LeafStore, Stored, TInv, TypeOK
<1> QED
  BY <1>1, <1>2, <1>3 DEF LeafStore

LEMMA AggLoadMoves ==
  ASSUME TInv, NEW r \in Reader, AggLoad(r)
  PROVE  /\ Moved(r, "lockAgg", reader[r].todo, reader[r].cur, reader[r].ref,
                  Found(agg), reader[r].seen, reader[r].got)
         /\ reader[r].pc = "agg" /\ reader[r].ref = None /\ reader[r].aggRef = None
         /\ UNCHANGED <<disk, floor, leaf, editor>>
         /\ agg # None => UNCHANGED <<agg, entry>>
         /\ agg = None => Created(Fresh) /\ agg' = Fresh
<1>1. Moved(r, "lockAgg", reader[r].todo, reader[r].cur, reader[r].ref, Found(agg),
               reader[r].seen, reader[r].got)
  BY DEF AggLoad, Moved, TInv, TypeOK, ReaderRec, Found
<1>2. reader[r].pc = "agg" /\ reader[r].ref = None /\ reader[r].aggRef = None
  BY DEF AggLoad, TInv, Shape
<1>3. ASSUME agg = None PROVE Created(Fresh) /\ agg' = Fresh
  <2>1. Fresh \in Unused /\ Fresh \in Entry /\ Fresh # None
    BY <1>3, FreshUnused, ConstantsAssumption DEF AggLoad
  <2>2. ~New.done
    BY DEF New
  <2>3. entry' = [entry EXCEPT ![Fresh] = New] /\ entry \in [Entry -> EntryRec]
    BY <1>3 DEF AggLoad, TInv, TypeOK
  <2> QED
    BY <1>3, <2>1, <2>2, <2>3 DEF Created, AggLoad
<1> QED
  BY <1>1, <1>2, <1>3 DEF AggLoad

LEMMA AggHitMoves ==
  ASSUME TInv, NEW r \in Reader, AggHit(r)
  PROVE  /\ Moved(r, "done", reader[r].todo, reader[r].cur, reader[r].ref,
                  None, reader[r].seen, entry[reader[r].aggRef].val)
         /\ reader[r].pc = "lockAgg" /\ reader[r].aggRef \in Entry /\ reader[r].ref = None
         /\ UNCHANGED <<disk, floor, leaf, agg, entry, editor>>
         /\ entry[reader[r].aggRef].done
<1>1. Moved(r, "done", reader[r].todo, reader[r].cur, reader[r].ref,
                  None, reader[r].seen, entry[reader[r].aggRef].val)
  BY DEF AggHit, Moved, TInv, TypeOK, ReaderRec
<1>2. reader[r].pc = "lockAgg" /\ reader[r].aggRef \in Entry /\ reader[r].ref = None
  BY DEF AggHit, TInv, Shape
<1>3. entry[reader[r].aggRef].done
  BY DEF AggHit
<1> QED
  BY <1>1, <1>2, <1>3 DEF AggHit

LEMMA AggLockMoves ==
  ASSUME TInv, NEW r \in Reader, AggLock(r)
  PROVE  /\ Moved(r, "next", Path, reader[r].cur, reader[r].ref,
                  reader[r].aggRef, reader[r].seen, reader[r].got)
         /\ reader[r].pc = "lockAgg" /\ reader[r].aggRef \in Entry /\ reader[r].ref = None
         /\ UNCHANGED <<disk, floor, leaf, agg, editor>>
         /\ \A x \in Entry : entry'[x].done = entry[x].done /\ entry'[x].val = entry[x].val
<1>1. Moved(r, "next", Path, reader[r].cur, reader[r].ref,
                  reader[r].aggRef, reader[r].seen, reader[r].got)
  BY DEF AggLock, Moved, TInv, TypeOK, ReaderRec
<1>2. reader[r].pc = "lockAgg" /\ reader[r].aggRef \in Entry /\ reader[r].ref = None
  BY DEF AggLock, TInv, Shape
<1>3. \A x \in Entry : entry'[x].done = entry[x].done /\ entry'[x].val = entry[x].val
  BY DEF AggLock, TInv, TypeOK, EntryRec
<1> QED
  BY <1>1, <1>2, <1>3 DEF AggLock

LEMMA AggNextMoves ==
  ASSUME TInv, NEW r \in Reader, NEW p \in Path, AggNext(r, p)
  PROVE  /\ Moved(r, "leaf", reader[r].todo, p, reader[r].ref,
                  reader[r].aggRef, reader[r].seen, reader[r].got)
         /\ reader[r].pc = "next" /\ reader[r].aggRef \in Entry /\ reader[r].ref = None
         /\ UNCHANGED <<disk, floor, leaf, agg, entry, editor>>
<1>1. Moved(r, "leaf", reader[r].todo, p, reader[r].ref,
                  reader[r].aggRef, reader[r].seen, reader[r].got)
  BY DEF AggNext, Moved, TInv, TypeOK, ReaderRec
<1>2. reader[r].pc = "next" /\ reader[r].aggRef \in Entry /\ reader[r].ref = None
  BY DEF AggNext, TInv, Shape
<1> QED
  BY <1>1, <1>2 DEF AggNext

LEMMA AggStoreMoves ==
  ASSUME TInv, NEW r \in Reader, AggStore(r)
  PROVE  /\ Moved(r, "done", reader[r].todo, reader[r].cur, reader[r].ref,
                  None, reader[r].seen, reader[r].got)
         /\ reader[r].pc = "storeAgg" /\ reader[r].aggRef \in Entry /\ reader[r].ref = None /\ reader[r].todo = {}
         /\ UNCHANGED <<disk, floor, leaf, agg, editor>>
         /\ Stored(reader[r].aggRef, reader[r].got)
<1>1. Moved(r, "done", reader[r].todo, reader[r].cur, reader[r].ref,
                  None, reader[r].seen, reader[r].got)
  BY DEF AggStore, Moved, TInv, TypeOK, ReaderRec
<1>2. reader[r].pc = "storeAgg" /\ reader[r].aggRef \in Entry /\ reader[r].ref = None /\ reader[r].todo = {}
  BY DEF AggStore, TInv, Shape
<1>3. Stored(reader[r].aggRef, reader[r].got)
  BY <1>2 DEF AggStore, Stored, TInv, TypeOK
<1> QED
  BY <1>1, <1>2, <1>3 DEF AggStore

LEMMA StartMoves ==
  ASSUME TInv, NEW r \in Reader, NEW S, NEW pc, NEW cur, Start(r, S, pc, cur)
  PROVE  /\ \A s \in Reader \ {r} : reader'[s] = reader[s]
         /\ reader'[r].pc = pc /\ reader'[r].cur = cur
         /\ reader'[r].ref = None /\ reader'[r].aggRef = None
         /\ \A q \in Path : reader'[r].from[q] \in {floor[q], 0}
         /\ UNCHANGED <<disk, floor, leaf, agg, entry, editor>>
BY DEF Start, TInv, TypeOK, Idle

LEMMA FinishMoves ==
  ASSUME TInv, NEW r \in Reader, Finish(r)
  PROVE  /\ \A s \in Reader \ {r} : reader'[s] = reader[s]
         /\ reader'[r].pc = "idle" /\ \A q \in Path : reader'[r].from[q] = 0
         /\ reader'[r].ref = None /\ reader'[r].aggRef = None
         /\ UNCHANGED <<disk, floor, leaf, agg, entry, editor>>
BY DEF Finish, TInv, TypeOK, Idle, Zero

LEMMA DropLeafMoves ==
  ASSUME TInv, NEW e \in Editor, DropLeaf(e)
  PROVE  /\ \A f \in Editor \ {e} : editor'[f] = editor[f]
         /\ editor[e].pc = "leaf" /\ editor'[e].pc = "agg"
         /\ editor'[e].path = editor[e].path /\ editor'[e].ver = editor[e].ver
         /\ \A q \in Path : leaf'[q] = IF q = editor[e].path THEN None ELSE leaf[q]
         /\ UNCHANGED <<disk, floor, agg, entry, reader>>
BY DEF DropLeaf, TInv, TypeOK, EditorRec

LEMMA NatFacts ==
  ASSUME TInv
  PROVE  /\ \A q \in Path : disk[q] \in Nat /\ floor[q] \in Nat
         /\ \A s \in Reader, q \in Path : reader[s].from[q] \in Nat /\ reader[s].got[q] \in Nat
         /\ \A s \in Reader : reader[s].seen \in Nat
         /\ \A x \in Entry, q \in Path : entry[x].val[q] \in Nat
         /\ \A e \in Editor : editor[e].ver \in Nat
<1> USE DEF TInv, TypeOK
<1>1. Ver \subseteq Nat
  BY ConstantsAssumption DEF Ver
<1>2. \A s \in Reader : reader[s].from \in Vers /\ reader[s].got \in Vers /\ reader[s].seen \in Ver
  BY DEF ReaderRec
<1>3. \A x \in Entry : entry[x].val \in Vers
  BY DEF EntryRec
<1>4. \A e \in Editor : editor[e].ver \in Ver
  BY DEF EditorRec
<1> QED
  BY <1>1, <1>2, <1>3, <1>4 DEF Vers

LEMMA DropAggMoves ==
  ASSUME TInv, NEW e \in Editor, DropAgg(e)
  PROVE  /\ \A f \in Editor \ {e} : editor'[f] = editor[f]
         /\ editor[e].pc = "agg" /\ editor'[e].pc = "idle"
         /\ \A q \in Path : floor'[q] = IF q = editor[e].path /\ floor[q] < editor[e].ver
                                       THEN editor[e].ver ELSE floor[q]
         /\ agg' = None
         /\ UNCHANGED <<disk, leaf, entry, reader>>
<1>1. editor'[e].pc = "idle" /\ \A f \in Editor \ {e} : editor'[f] = editor[f]
  BY DEF DropAgg, TInv, TypeOK, Resting
<1>2. floor' = [floor EXCEPT ![editor[e].path] = IF floor[editor[e].path] < editor[e].ver
                                                 THEN editor[e].ver ELSE floor[editor[e].path]]
  BY DEF DropAgg
<1>3. \A q \in Path : floor'[q] = IF q = editor[e].path /\ floor[q] < editor[e].ver
                                  THEN editor[e].ver ELSE floor[q]
  BY <1>2 DEF TInv, TypeOK, Vers
<1> QED
  BY <1>1, <1>3 DEF DropAgg

-----------------------------------------------------------------------------
(* Nobody is promised what has not been written.                           *)
LEMMA BoundsNext == TInv /\ Bounds /\ [Next]_vars => Bounds'
<1> SUFFICES ASSUME TInv, Bounds, [Next]_vars PROVE Bounds'
  OBVIOUS
<1> USE NatFacts
<1>1. ASSUME NEW p \in Path, Edit(p) PROVE Bounds'
  BY <1>1 DEF Edit, Bounds, TInv, TypeOK, Vers
<1>2. ASSUME NEW e \in Editor, NEW p \in Path, Invalidate(e, p) PROVE Bounds'
  BY <1>2 DEF Invalidate, Bounds, TInv, TypeOK
<1>3. ASSUME NEW e \in Editor, DropLeaf(e) PROVE Bounds'
  BY <1>3, DropLeafMoves DEF Bounds
<1>4. ASSUME NEW e \in Editor, DropAgg(e) PROVE Bounds'
  <2>1. editor[e].path \in Path /\ editor[e].ver <= disk[editor[e].path]
    BY <1>4, DropAggMoves DEF Bounds
  <2>2. ASSUME NEW q \in Path PROVE floor'[q] <= disk'[q]
    <3>1. /\ floor'[q] = IF q = editor[e].path /\ floor[q] < editor[e].ver
                         THEN editor[e].ver ELSE floor[q]
          /\ disk' = disk
      BY <1>4, DropAggMoves
    <3> QED
      BY <2>1, <3>1 DEF Bounds
  <2>3. ASSUME NEW s \in Reader, NEW q \in Path PROVE reader'[s].from[q] <= floor'[q]
    <3>1. /\ floor'[q] = IF q = editor[e].path /\ floor[q] < editor[e].ver
                         THEN editor[e].ver ELSE floor[q]
          /\ reader' = reader
      BY <1>4, DropAggMoves
    <3> QED
      BY <3>1 DEF Bounds
  <2>4. ASSUME NEW f \in Editor, editor'[f].pc # "idle"
        PROVE  editor'[f].path \in Path /\ editor'[f].ver <= disk'[editor'[f].path]
    <3>1. disk' = disk /\ f # e /\ editor'[f] = editor[f]
      BY <1>4, <2>4, DropAggMoves
    <3> QED
      BY <2>4, <3>1 DEF Bounds
  <2> QED
    BY <2>2, <2>3, <2>4 DEF Bounds
<1>5. ASSUME NEW r \in Reader, NEW p \in Path, ReadFile(r, p) PROVE Bounds'
  <2>1. Start(r, {p}, "leaf", p)
    BY <1>5 DEF ReadFile
  <2> QED
    BY <2>1, StartMoves DEF Bounds
<1>6. ASSUME NEW r \in Reader, ReadCorpus(r) PROVE Bounds'
  <2>1. Start(r, Path, "agg", None)
    BY <1>6 DEF ReadCorpus
  <2> QED
    BY <2>1, StartMoves DEF Bounds
<1>7. ASSUME NEW r \in Reader, LeafLoad(r) PROVE Bounds'
  BY <1>7, LeafLoadMoves DEF Moved, Bounds
<1>8. ASSUME NEW r \in Reader, LeafHit(r) PROVE Bounds'
  BY <1>8, LeafHitMoves DEF Moved, Bounds
<1>9. ASSUME NEW r \in Reader, LeafLock(r) PROVE Bounds'
  BY <1>9, LeafLockMoves DEF Moved, Bounds
<1>10. ASSUME NEW r \in Reader, LeafRead(r) PROVE Bounds'
  BY <1>10, LeafReadMoves DEF Moved, Bounds
<1>11. ASSUME NEW r \in Reader, LeafStore(r) PROVE Bounds'
  BY <1>11, LeafStoreMoves DEF Moved, Bounds
<1>12. ASSUME NEW r \in Reader, AggLoad(r) PROVE Bounds'
  BY <1>12, AggLoadMoves DEF Moved, Bounds
<1>13. ASSUME NEW r \in Reader, AggHit(r) PROVE Bounds'
  BY <1>13, AggHitMoves DEF Moved, Bounds
<1>14. ASSUME NEW r \in Reader, AggLock(r) PROVE Bounds'
  BY <1>14, AggLockMoves DEF Moved, Bounds
<1>15. ASSUME NEW r \in Reader, NEW p \in Path, AggNext(r, p) PROVE Bounds'
  BY <1>15, AggNextMoves DEF Moved, Bounds
<1>16. ASSUME NEW r \in Reader, AggStore(r) PROVE Bounds'
  BY <1>16, AggStoreMoves DEF Moved, Bounds
<1>17. ASSUME NEW r \in Reader, Finish(r) PROVE Bounds'
  BY <1>17, FinishMoves DEF Bounds
<1>18. CASE UNCHANGED vars
  BY <1>18 DEF vars, Bounds
<1> QED
  BY <1>1, <1>2, <1>3, <1>4, <1>5, <1>6, <1>7, <1>8, <1>9, <1>10, <1>11, <1>12,
     <1>13, <1>14, <1>15, <1>16, <1>17, <1>18 DEF Next, ReaderStep, EditorStep

(* An entry serves one path or the aggregate, as long as anyone holds it.  *)
LEMMA RolesNext == TInv /\ Roles /\ [Next]_vars => Roles'
<1> SUFFICES ASSUME TInv, Roles, [Next]_vars PROVE Roles'
  OBVIOUS
<1>1. ASSUME NEW p \in Path, Edit(p) PROVE Roles'
  BY <1>1 DEF Edit, Roles
<1>2. ASSUME NEW e \in Editor, NEW p \in Path, Invalidate(e, p) PROVE Roles'
  BY <1>2 DEF Invalidate, Roles
<1>3. ASSUME NEW e \in Editor, DropLeaf(e) PROVE Roles'
  BY <1>3, DropLeafMoves DEF Roles
<1>4. ASSUME NEW e \in Editor, DropAgg(e) PROVE Roles'
  BY <1>4, DropAggMoves DEF Roles
<1>5. ASSUME NEW r \in Reader, NEW p \in Path, ReadFile(r, p) PROVE Roles'
  <2>1. Start(r, {p}, "leaf", p)
    BY <1>5 DEF ReadFile
  <2> QED
    BY <2>1, StartMoves DEF Roles
<1>6. ASSUME NEW r \in Reader, ReadCorpus(r) PROVE Roles'
  <2>1. Start(r, Path, "agg", None)
    BY <1>6 DEF ReadCorpus
  <2> QED
    BY <2>1, StartMoves DEF Roles
<1>7. ASSUME NEW r \in Reader, LeafLoad(r) PROVE Roles'
  <2>1. CASE leaf[reader[r].cur] # None
    BY <1>7, <2>1, LeafLoadMoves DEF Moved, Found, Roles
  <2>2. CASE leaf[reader[r].cur] = None
    BY <1>7, <2>2, LeafLoadMoves DEF Moved, Found, Created, Unused, Roles
  <2> QED
    BY <2>1, <2>2
<1>8. ASSUME NEW r \in Reader, LeafHit(r) PROVE Roles'
  <2>1. /\ \A s \in Reader \ {r} : reader'[s] = reader[s]
        /\ reader'[r].ref = None /\ reader'[r].aggRef = reader[r].aggRef
        /\ UNCHANGED <<leaf, agg>>
    BY <1>8, LeafHitMoves DEF Moved
  <2> QED
    BY <2>1 DEF Roles
<1>9. ASSUME NEW r \in Reader, LeafLock(r) PROVE Roles'
  BY <1>9, LeafLockMoves DEF Moved, Roles
<1>10. ASSUME NEW r \in Reader, LeafRead(r) PROVE Roles'
  BY <1>10, LeafReadMoves DEF Moved, Roles
<1>11. ASSUME NEW r \in Reader, LeafStore(r) PROVE Roles'
  <2>1. /\ \A s \in Reader \ {r} : reader'[s] = reader[s]
        /\ reader'[r].ref = None /\ reader'[r].aggRef = reader[r].aggRef
        /\ UNCHANGED <<leaf, agg>>
    BY <1>11, LeafStoreMoves DEF Moved
  <2> QED
    BY <2>1 DEF Roles
<1>12. ASSUME NEW r \in Reader, AggLoad(r) PROVE Roles'
  <2>1. CASE agg # None
    BY <1>12, <2>1, AggLoadMoves DEF Moved, Found, Roles
  <2>2. CASE agg = None
    BY <1>12, <2>2, AggLoadMoves DEF Moved, Found, Created, Unused, Roles
  <2> QED
    BY <2>1, <2>2
<1>13. ASSUME NEW r \in Reader, AggHit(r) PROVE Roles'
  BY <1>13, AggHitMoves DEF Moved, Roles
<1>14. ASSUME NEW r \in Reader, AggLock(r) PROVE Roles'
  BY <1>14, AggLockMoves DEF Moved, Roles
<1>15. ASSUME NEW r \in Reader, NEW p \in Path, AggNext(r, p) PROVE Roles'
  BY <1>15, AggNextMoves DEF Moved, Roles
<1>16. ASSUME NEW r \in Reader, AggStore(r) PROVE Roles'
  BY <1>16, AggStoreMoves DEF Moved, Roles
<1>17. ASSUME NEW r \in Reader, Finish(r) PROVE Roles'
  BY <1>17, FinishMoves DEF Roles
<1>18. CASE UNCHANGED vars
  BY <1>18 DEF vars, Roles
<1> QED
  BY <1>1, <1>2, <1>3, <1>4, <1>5, <1>6, <1>7, <1>8, <1>9, <1>10, <1>11, <1>12,
     <1>13, <1>14, <1>15, <1>16, <1>17, <1>18 DEF Next, ReaderStep, EditorStep

-----------------------------------------------------------------------------
(* A step keeps the entries E fresh: what was new enough for them still is.*)
Keeps(E) ==
  \A x \in E, p \in Path, v \in Nat :
    /\ AggOK(x, p, v) => AggOK(x, p, v)'
    /\ LeafOK(x, p, v) => LeafOK(x, p, v)'

LEMMA KeptEntries ==
  ASSUME TInv, Fresher, NEW E \in SUBSET Entry, Keeps(E),
         \A x \in Entry : entry'[x].done =>
           x \in E /\ entry[x].done /\ entry'[x].val = entry[x].val
  PROVE  FreshLeaf' /\ FreshAgg'
BY NatFacts DEF Keeps, Fresher, FreshLeaf, FreshAgg

LEMMA KeptReader ==
  ASSUME TInv, Fresher, NEW E \in SUBSET Entry, Keeps(E), NEW s \in Reader,
         reader'[s] = reader[s],
         reader[s].ref # None => reader[s].ref \in E,
         reader[s].aggRef # None => reader[s].aggRef \in E
  PROVE  FreshReader(s)'
<1>1. reader[s].pc = "store" => reader[s].cur \in Path /\ reader[s].ref \in E
  BY ConstantsAssumption DEF TInv, Shape
<1>2. FreshReader(s)
  BY DEF Fresher
<1>3. reader[s].pc = "store" => LeafOK(reader[s].ref, reader[s].cur, reader[s].seen)'
  BY <1>1, <1>2, NatFacts DEF Keeps, FreshReader
<1>4. reader[s].aggRef # None /\ reader[s].pc # "lockAgg" =>
       \A p \in Path \ reader[s].todo : AggOK(reader[s].aggRef, p, reader[s].got[p])'
  BY <1>2, NatFacts DEF Keeps, FreshReader
<1> QED
  BY <1>2, <1>3, <1>4 DEF FreshReader

(* Steps that let go of entries, or leave them, keep them all fresh.       *)
LEMMA KeepsRelease ==
  ASSUME TInv,
         \A p \in Path, v \in Nat :
           leaf'[p] # None /\ AtLeast(p, v) => AtLeast(p, v)',
         \A p \in Path : leaf'[p] \in {leaf[p], None},
         agg' # None => agg' = agg /\ floor' = floor,
         \A s \in Reader : reader'[s].aggRef # None =>
           /\ reader'[s].aggRef = reader[s].aggRef
           /\ reader'[s].from = reader[s].from,
         \A s \in Reader : reader'[s].ref # None =>
           /\ reader'[s].ref = reader[s].ref /\ reader'[s].cur = reader[s].cur
           /\ reader'[s].aggRef = reader[s].aggRef /\ reader'[s].from = reader[s].from
  PROVE  Keeps(Entry)
<1>1. \A x \in Entry : x # None
  BY ConstantsAssumption
<1>2. ASSUME NEW x \in Entry, NEW p \in Path, NEW v \in Nat, AggOK(x, p, v)
      PROVE  AggOK(x, p, v)'
  <2>1. x = agg' => v >= floor'[p]
    BY <1>1, <1>2 DEF AggOK
  <2>2. \A s \in Reader : reader'[s].aggRef = x => v >= reader'[s].from[p]
    BY <1>1, <1>2 DEF AggOK
  <2> QED
    BY <2>1, <2>2 DEF AggOK
<1>3. ASSUME NEW x \in Entry, NEW p \in Path, NEW v \in Nat, LeafOK(x, p, v)
      PROVE  LeafOK(x, p, v)'
  <2>1. x = leaf'[p] => AtLeast(p, v)'
    <3>1. x = leaf'[p] => x = leaf[p]
      BY <1>1
    <3>2. x = leaf[p] => AtLeast(p, v)
      BY <1>3 DEF LeafOK
    <3> QED
      BY <1>1, <3>1, <3>2
  <2>2. ASSUME NEW s \in Reader, reader'[s].ref = x, reader'[s].cur = p
        PROVE  (/\ v >= reader[s].from[p]
                /\ reader[s].aggRef # None => AggOK(reader[s].aggRef, p, v))'
    <3>1. /\ reader[s].ref = x /\ reader[s].cur = p
          /\ reader'[s].aggRef = reader[s].aggRef /\ reader'[s].from = reader[s].from
      BY <1>1, <2>2
    <3>2. /\ v >= reader[s].from[p]
          /\ reader[s].aggRef # None => AggOK(reader[s].aggRef, p, v)
      BY <1>3, <3>1 DEF LeafOK
    <3>3. reader[s].aggRef # None => reader[s].aggRef \in Entry
      BY DEF TInv, TypeOK, ReaderRec
    <3>4. ASSUME NEW a \in Entry, a = reader[s].aggRef PROVE AggOK(a, p, v)'
      BY <1>2, <3>2, <3>4, ConstantsAssumption
    <3>5. ASSUME reader[s].aggRef # None
          PROVE  (/\ reader[s].aggRef = agg => v >= floor[p]
                  /\ \A q \in Reader : reader[q].aggRef = reader[s].aggRef => v >= reader[q].from[p])'
      BY <3>1, <3>3, <3>4, <3>5 DEF AggOK
    <3> QED
      BY <3>1, <3>2, <3>5 DEF AggOK
  <2> QED
    BY <2>1, <2>2 DEF LeafOK
<1> QED
  BY <1>2, <1>3 DEF Keeps

LEMMA AtLeastSame == UNCHANGED <<floor, editor>> => \A p \in Path, v \in Nat : AtLeast(p, v) => AtLeast(p, v)'
BY DEF AtLeast

(* A load adds a holder to an entry that is in the map, and so is at least *)
(* as new as anything promised so far, or makes a new one.                 *)
LEMMA NewEnough ==
  ASSUME TInv, Bounds, NEW p \in Path, NEW v \in Nat, v >= floor[p], NEW x
  PROVE  AggOK(x, p, v) /\ \A s \in Reader : v >= reader[s].from[p]
BY NatFacts DEF AggOK, Bounds

LEMMA KeepsLeafLoad ==
  ASSUME TInv, Bounds, NEW r \in Reader, LeafLoad(r),
         NEW E \in SUBSET Entry, leaf[reader[r].cur] = None => Fresh \notin E
  PROVE  Keeps(E)
<1>1. /\ \A s \in Reader : /\ reader'[s].aggRef = reader[s].aggRef
                           /\ reader'[s].from = reader[s].from
                           /\ reader'[s].cur = reader[s].cur
      /\ \A s \in Reader \ {r} : reader'[s].ref = reader[s].ref
      /\ reader'[r].ref = Found(leaf[reader[r].cur]) /\ reader[r].ref = None
      /\ UNCHANGED <<floor, agg, editor>>
  BY LeafLoadMoves DEF Moved
<1>2. ASSUME NEW x, NEW p \in Path, NEW v \in Nat, AggOK(x, p, v)
      PROVE  AggOK(x, p, v)'
  BY <1>1, <1>2 DEF AggOK
<1>3. ASSUME NEW x \in E, NEW p \in Path, NEW v \in Nat, LeafOK(x, p, v)
      PROVE  LeafOK(x, p, v)'
  <2>1. x = leaf'[p] => x = leaf[p]
    BY LeafLoadMoves, <1>1
  <2>2. x = leaf'[p] => AtLeast(p, v)'
    BY <2>1, <1>1, <1>3 DEF LeafOK, AtLeast
  <2>3. ASSUME NEW s \in Reader, reader'[s].ref = x, reader'[s].cur = p
        PROVE  /\ v >= reader[s].from[p]
               /\ reader[s].aggRef # None => AggOK(reader[s].aggRef, p, v)
    <3>1. CASE s # r
      BY <1>1, <1>3, <2>3, <3>1 DEF LeafOK
    <3>2. CASE s = r
      <4>1. x = leaf[p]
        BY <1>1, <2>3, <3>2 DEF Found
      <4>2. v >= floor[p]
        BY <1>3, <4>1 DEF LeafOK, AtLeast
      <4> QED
        BY <4>2, NewEnough
    <3> QED
      BY <3>1, <3>2
  <2>4. ASSUME NEW s \in Reader, reader'[s].ref = x, reader'[s].cur = p
        PROVE  (/\ v >= reader[s].from[p]
                /\ reader[s].aggRef # None => AggOK(reader[s].aggRef, p, v))'
    BY <1>1, <2>3, <2>4 DEF AggOK
  <2> QED
    BY <2>2, <2>4 DEF LeafOK
<1> QED
  BY <1>2, <1>3 DEF Keeps

LEMMA KeepsAggLoad ==
  ASSUME TInv, Bounds, NEW r \in Reader, AggLoad(r),
         NEW E \in SUBSET Entry, agg = None => Fresh \notin E
  PROVE  Keeps(E)
<1>1. /\ \A s \in Reader : /\ reader'[s].ref = reader[s].ref
                           /\ reader'[s].from = reader[s].from
                           /\ reader'[s].cur = reader[s].cur
      /\ \A s \in Reader \ {r} : reader'[s].aggRef = reader[s].aggRef
      /\ reader'[r].aggRef = Found(agg) /\ reader[r].ref = None
      /\ UNCHANGED <<floor, leaf, editor>>
  BY AggLoadMoves DEF Moved
<1>2. ASSUME NEW x, x # None, agg = None => x # Fresh, NEW p \in Path, NEW v \in Nat,
             AggOK(x, p, v)
      PROVE  AggOK(x, p, v)'
  <2>1. x = agg' => x = agg
    BY <1>2, AggLoadMoves
  <2>2. ASSUME NEW s \in Reader, reader'[s].aggRef = x PROVE v >= reader[s].from[p]
    <3>1. CASE s # r
      BY <1>1, <1>2, <2>2, <3>1 DEF AggOK
    <3>2. CASE s = r
      <4>1. x = agg
        BY <1>1, <1>2, <2>2, <3>2 DEF Found
      <4> QED
        BY <1>2, <4>1, NewEnough DEF AggOK
    <3> QED
      BY <3>1, <3>2
  <2> QED
    BY <1>1, <1>2, <2>1, <2>2 DEF AggOK
<1>3. ASSUME NEW x \in E, NEW p \in Path, NEW v \in Nat, LeafOK(x, p, v)
      PROVE  LeafOK(x, p, v)'
  <2>1. x = leaf'[p] => AtLeast(p, v)'
    BY <1>1, <1>3 DEF LeafOK, AtLeast
  <2>2. ASSUME NEW s \in Reader, reader'[s].ref = x, reader'[s].cur = p
        PROVE  (/\ v >= reader[s].from[p]
                /\ reader[s].aggRef # None => AggOK(reader[s].aggRef, p, v))'
    <3>1. s # r /\ reader[s].ref = x /\ reader[s].cur = p
      BY <1>1, <2>2, ConstantsAssumption
    <3>2. /\ v >= reader[s].from[p]
          /\ reader[s].aggRef # None => AggOK(reader[s].aggRef, p, v)
      BY <1>3, <3>1 DEF LeafOK
    <3>3. agg = None => reader[s].aggRef # Fresh
      BY AggLoadMoves DEF Created, Unused
    <3>4. ASSUME NEW a, a = reader[s].aggRef, a # None PROVE AggOK(a, p, v)'
      BY <1>2, <3>2, <3>3, <3>4
    <3>5. ASSUME reader[s].aggRef # None
          PROVE  (/\ reader[s].aggRef = agg => v >= floor[p]
                  /\ \A q \in Reader : reader[q].aggRef = reader[s].aggRef => v >= reader[q].from[p])'
      BY <1>1, <3>1, <3>4, <3>5 DEF AggOK
    <3> QED
      BY <1>1, <3>1, <3>2, <3>5 DEF AggOK
  <2> QED
    BY <2>1, <2>2 DEF LeafOK
<1>4. \A x \in E : x # None /\ (agg = None => x # Fresh)
  BY ConstantsAssumption
<1> QED
  BY <1>2, <1>3, <1>4 DEF Keeps

-----------------------------------------------------------------------------
(* Every step keeps what is held fresh.                                    *)
LEMMA ReaderReleases ==
  ASSUME TInv, NEW r \in Reader, UNCHANGED <<floor, leaf, agg, editor>>,
         \A s \in Reader \ {r} : reader'[s] = reader[s],
         \/ /\ reader'[r].ref \in {reader[r].ref, None} /\ reader'[r].from = reader[r].from
            /\ reader'[r].aggRef \in {reader[r].aggRef, None}
            /\ reader'[r].ref # None =>
                 reader'[r].cur = reader[r].cur /\ reader'[r].aggRef = reader[r].aggRef
         \/ reader'[r].ref = None /\ reader'[r].aggRef = None
  PROVE  Keeps(Entry)
<1>1. /\ \A p \in Path, v \in Nat : AtLeast(p, v) => AtLeast(p, v)'
      /\ \A p \in Path : leaf'[p] \in {leaf[p], None}
  BY AtLeastSame
<1>2. \A s \in Reader : reader'[s].aggRef # None =>
           /\ reader'[s].aggRef = reader[s].aggRef
           /\ reader'[s].from = reader[s].from
  OBVIOUS
<1>3. \A s \in Reader : reader'[s].ref # None =>
           /\ reader'[s].ref = reader[s].ref /\ reader'[s].cur = reader[s].cur
           /\ reader'[s].aggRef = reader[s].aggRef /\ reader'[s].from = reader[s].from
  OBVIOUS
<1> QED
  BY <1>1, <1>2, <1>3, KeepsRelease

LEMMA OtherReaders ==
  ASSUME TInv, Fresher, Keeps(Entry), NEW r \in Reader,
         \A s \in Reader \ {r} : reader'[s] = reader[s], FreshReader(r)'
  PROVE  \A s \in Reader : FreshReader(s)'
<1>1. \A s \in Reader : reader[s].ref \in Entry \cup {None}
                      /\ reader[s].aggRef \in Entry \cup {None}
  BY DEF TInv, TypeOK, ReaderRec
<1>2. ASSUME NEW s \in Reader \ {r} PROVE FreshReader(s)'
  BY <1>1, KeptReader
<1> QED
  BY <1>2

(* Somebody goes: nothing it held matters any more.                        *)
LEMMA GoneIsFresh ==
  ASSUME NEW r \in Reader, reader'[r].aggRef = None, reader'[r].pc \notin {"store", "done"}
  PROVE  FreshReader(r)'
BY DEF FreshReader

(* A value that is new enough for the slot it was read from is new enough  *)
(* for the reader that goes on with it.                                    *)
LEMMA ValueIsFresh ==
  ASSUME TInv, Fresher, Keeps(Entry), NEW r \in Reader, NEW v \in Nat,
         reader[r].pc \in {"lock", "store"},
         LeafOK(reader[r].ref, reader[r].cur, v),
         Moved(r, AfterValue(r), reader[r].todo \ {reader[r].cur}, None, None,
               reader[r].aggRef, 0, [reader[r].got EXCEPT ![reader[r].cur] = v])
  PROVE  FreshReader(r)'
<1>1. reader[r].cur \in Path /\ reader[r].ref \in Entry
  BY DEF TInv, Shape
<1>2. /\ v >= reader[r].from[reader[r].cur]
      /\ reader[r].aggRef # None => AggOK(reader[r].aggRef, reader[r].cur, v)
  BY <1>1 DEF LeafOK
<1>3. \A q \in Path : reader'[r].got[q] = IF q = reader[r].cur THEN v ELSE reader[r].got[q]
  BY DEF Moved, TInv, TypeOK, ReaderRec, Vers
<1>4. /\ reader'[r].pc = AfterValue(r) /\ reader'[r].aggRef = reader[r].aggRef
      /\ reader'[r].from = reader[r].from
      /\ reader'[r].todo = reader[r].todo \ {reader[r].cur}
  BY DEF Moved
<1>5. reader'[r].pc # "store" /\ (reader'[r].pc = "done" => reader[r].aggRef = None)
  BY <1>4 DEF AfterValue
<1>6. ASSUME reader'[r].pc = "done", NEW q \in Path
      PROVE  reader'[r].got[q] >= reader'[r].from[q]
  <2>1. CASE q = reader[r].cur
    BY <1>2, <1>3, <1>4, <2>1
  <2>2. CASE q # reader[r].cur
    <3>1. reader[r].from[q] = 0
      BY <1>5, <1>6, <2>2 DEF TInv, Shape
    <3>2. reader'[r].got[q] = reader[r].got[q] /\ reader[r].got[q] \in Nat
      BY <1>3, <2>2, NatFacts
    <3> QED
      BY <1>4, <3>1, <3>2
  <2> QED
    BY <2>1, <2>2
<1>7. ASSUME NEW a \in Entry, a = reader[r].aggRef, NEW q \in Path \ (reader[r].todo \ {reader[r].cur}),
             NEW w, w = reader'[r].got[q]
      PROVE  AggOK(a, q, w)'
  <2>1. a # None
    BY ConstantsAssumption
  <2>2. w \in Nat /\ AggOK(a, q, w)
    <3>1. CASE q = reader[r].cur
      BY <1>2, <1>3, <1>7, <2>1, <3>1
    <3>2. CASE q # reader[r].cur
      BY <1>3, <1>7, <2>1, <3>2, NatFacts DEF Fresher, FreshReader
    <3> QED
      BY <3>1, <3>2
  <2> QED
    BY <2>2 DEF Keeps
<1>8. reader[r].aggRef \in Entry \cup {None}
  BY DEF TInv, TypeOK, ReaderRec
<1> QED
  BY <1>4, <1>5, <1>6, <1>7, <1>8 DEF FreshReader, AggOK

LEMMA FresherNext ==
  TInv /\ Bounds /\ Roles /\ Fresher /\ ~Snapshots /\ [Next]_vars => Fresher'
<1> SUFFICES ASSUME TInv, Bounds, Roles, Fresher, ~Snapshots, [Next]_vars PROVE Fresher'
  OBVIOUS
<1>0. \A s \in Reader : reader[s].ref \in Entry \cup {None}
                      /\ reader[s].aggRef \in Entry \cup {None}
  BY DEF TInv, TypeOK, ReaderRec
<1>a. ASSUME Keeps(Entry), UNCHANGED <<entry, reader>> PROVE Fresher'
  <2>1. FreshLeaf' /\ FreshAgg'
    BY <1>a, KeptEntries
  <2>2. ASSUME NEW s \in Reader PROVE FreshReader(s)'
    BY <1>0, <1>a, KeptReader
  <2> QED
    BY <2>1, <2>2 DEF Fresher
<1>b. ASSUME NEW r \in Reader, Keeps(Entry),
             \A x \in Entry : entry'[x].done = entry[x].done /\ entry'[x].val = entry[x].val,
             \A s \in Reader \ {r} : reader'[s] = reader[s], FreshReader(r)'
      PROVE  Fresher'
  <2>1. FreshLeaf' /\ FreshAgg'
    BY <1>b, KeptEntries
  <2>2. \A s \in Reader : FreshReader(s)'
    BY <1>b, OtherReaders
  <2> QED
    BY <2>1, <2>2 DEF Fresher
<1>1. ASSUME NEW p \in Path, Edit(p) PROVE Fresher'
  <2>1. UNCHANGED <<floor, leaf, agg, entry, reader, editor>>
    BY <1>1 DEF Edit
  <2>2. Keeps(Entry)
    BY <2>1, KeepsRelease, AtLeastSame
  <2> QED
    BY <1>a, <2>1, <2>2
<1>2. ASSUME NEW e \in Editor, NEW p \in Path, Invalidate(e, p) PROVE Fresher'
  <2>1. /\ UNCHANGED <<floor, leaf, agg, entry, reader>>
        /\ \A f \in Editor : editor'[f].pc = "agg" => editor'[f] = editor[f]
    BY <1>2 DEF Invalidate, TInv, TypeOK
  <2>2. \A q \in Path, v \in Nat : AtLeast(q, v) => AtLeast(q, v)'
    BY <2>1 DEF AtLeast
  <2>3. Keeps(Entry)
    BY <2>1, <2>2, KeepsRelease
  <2> QED
    BY <1>a, <2>1, <2>3
<1>3. ASSUME NEW e \in Editor, DropLeaf(e) PROVE Fresher'
  <2>1. UNCHANGED <<floor, agg, entry, reader>>
    BY <1>3, DropLeafMoves
  <2>2. ASSUME NEW q \in Path, NEW v \in Nat, leaf'[q] # None, AtLeast(q, v)
        PROVE  AtLeast(q, v)'
    BY <1>3, <2>2, DropLeafMoves DEF AtLeast
  <2>3. \A q \in Path : leaf'[q] \in {leaf[q], None}
    BY <1>3, DropLeafMoves
  <2>4. Keeps(Entry)
    BY <2>1, <2>2, <2>3, KeepsRelease
  <2> QED
    BY <1>a, <2>1, <2>4
<1>4. ASSUME NEW e \in Editor, DropAgg(e) PROVE Fresher'
  <2>1. UNCHANGED <<leaf, entry, reader>> /\ agg' = None
    BY <1>4, DropAggMoves
  <2>2. ASSUME NEW q \in Path, NEW v \in Nat, AtLeast(q, v) PROVE AtLeast(q, v)'
    BY <1>4, <2>2, DropAggMoves DEF AtLeast
  <2>3. Keeps(Entry)
    BY <2>1, <2>2, KeepsRelease
  <2> QED
    BY <1>a, <2>1, <2>3
<1>5. ASSUME NEW r \in Reader, NEW p \in Path, ReadFile(r, p) PROVE Fresher'
  <2>1. Start(r, {p}, "leaf", p)
    BY <1>5 DEF ReadFile
  <2>2. Keeps(Entry)
    BY <2>1, StartMoves, ReaderReleases
  <2>3. FreshReader(r)'
    BY <2>1, StartMoves, GoneIsFresh
  <2> QED
    BY <1>b, <2>1, <2>2, <2>3, StartMoves
<1>6. ASSUME NEW r \in Reader, ReadCorpus(r) PROVE Fresher'
  <2>1. Start(r, Path, "agg", None)
    BY <1>6 DEF ReadCorpus
  <2>2. Keeps(Entry)
    BY <2>1, StartMoves, ReaderReleases
  <2>3. FreshReader(r)'
    BY <2>1, StartMoves, GoneIsFresh
  <2> QED
    BY <1>b, <2>1, <2>2, <2>3, StartMoves
<1>7. ASSUME NEW r \in Reader, LeafLoad(r) PROVE Fresher'
  <2> DEFINE E == IF leaf[reader[r].cur] = None THEN Entry \ {Fresh} ELSE Entry
  <2>1. Keeps(E)
    BY <1>7, KeepsLeafLoad
  <2>2. ASSUME NEW x \in Entry, entry'[x].done
        PROVE  x \in E /\ entry[x].done /\ entry'[x].val = entry[x].val
    BY <1>7, <2>2, LeafLoadMoves DEF Created
  <2>3. FreshLeaf' /\ FreshAgg'
    BY <2>1, <2>2, KeptEntries
  <2>4. \A s \in Reader : /\ reader[s].ref # None => reader[s].ref \in E
                          /\ reader[s].aggRef # None => reader[s].aggRef \in E
    BY <1>0, <1>7, LeafLoadMoves DEF Created, Unused
  <2>5. ASSUME NEW s \in Reader \ {r} PROVE FreshReader(s)'
    BY <1>7, <2>1, <2>4, LeafLoadMoves, KeptReader DEF Moved
  <2>6. /\ reader'[r].pc = "lock" /\ reader[r].pc = "leaf"
        /\ reader'[r].aggRef = reader[r].aggRef /\ reader'[r].todo = reader[r].todo
        /\ reader'[r].got = reader[r].got
    BY <1>7, LeafLoadMoves DEF Moved
  <2>7. ASSUME reader[r].aggRef # None, NEW p \in Path \ reader[r].todo,
               NEW a, a = reader[r].aggRef
        PROVE  AggOK(a, p, reader[r].got[p]) /\ reader[r].got[p] \in Nat /\ a \in E
    BY <2>4, <2>6, <2>7, NatFacts DEF Fresher, FreshReader
  <2>8. ASSUME reader[r].aggRef # None, NEW p \in Path \ reader[r].todo,
               NEW a, a = reader[r].aggRef, NEW v, v = reader[r].got[p]
        PROVE  AggOK(a, p, v)'
    BY <2>1, <2>7, <2>8 DEF Keeps
  <2>9. FreshReader(r)'
    BY <2>6, <2>8 DEF FreshReader, AggOK
  <2> QED
    BY <2>3, <2>5, <2>9 DEF Fresher
<1>8. ASSUME NEW r \in Reader, LeafHit(r) PROVE Fresher'
  <2>1. Keeps(Entry)
    BY <1>8, LeafHitMoves, ReaderReleases DEF Moved
  <2>2. LeafOK(reader[r].ref, reader[r].cur, entry[reader[r].ref].val[reader[r].cur])
    BY <1>8, LeafHitMoves DEF Fresher, FreshLeaf
  <2>3. entry[reader[r].ref].val[reader[r].cur] \in Nat
    BY <1>8, LeafHitMoves, NatFacts
  <2>4. FreshReader(r)'
    BY <1>8, <2>1, <2>2, <2>3, LeafHitMoves, ValueIsFresh
  <2> QED
    BY <1>8, <1>b, <2>1, <2>4, LeafHitMoves DEF Moved
<1>9. ASSUME NEW r \in Reader, LeafLock(r) PROVE Fresher'
  <2>1. Keeps(Entry)
    BY <1>9, LeafLockMoves, ReaderReleases DEF Moved
  <2>2. /\ reader'[r].aggRef = reader[r].aggRef /\ reader'[r].todo = reader[r].todo
        /\ reader'[r].got = reader[r].got /\ reader'[r].pc = "read" /\ reader[r].pc = "lock"
    BY <1>9, LeafLockMoves DEF Moved
  <2>3. ASSUME reader[r].aggRef # None, NEW q \in Path \ reader[r].todo,
               NEW a, a = reader[r].aggRef, NEW v, v = reader[r].got[q]
        PROVE  AggOK(a, q, v)'
    <3>1. AggOK(a, q, v) /\ v \in Nat /\ a \in Entry
      BY <1>0, <2>2, <2>3, NatFacts DEF Fresher, FreshReader
    <3> QED
      BY <2>1, <3>1 DEF Keeps
  <2>4. FreshReader(r)'
    BY <2>2, <2>3 DEF FreshReader, AggOK
  <2> QED
    BY <1>9, <1>b, <2>1, <2>4, LeafLockMoves DEF Moved
<1>10. ASSUME NEW r \in Reader, LeafRead(r) PROVE Fresher'
  <2>1. Keeps(Entry)
    BY <1>10, LeafReadMoves, ReaderReleases DEF Moved
  <2>2. /\ reader'[r].aggRef = reader[r].aggRef /\ reader'[r].todo = reader[r].todo
        /\ reader'[r].got = reader[r].got /\ reader'[r].pc = "store" /\ reader[r].pc = "read"
    BY <1>10, LeafReadMoves DEF Moved
  <2>3. ASSUME reader[r].aggRef # None, NEW q \in Path \ reader[r].todo,
               NEW a, a = reader[r].aggRef, NEW v, v = reader[r].got[q]
        PROVE  AggOK(a, q, v)'
    <3>1. AggOK(a, q, v) /\ v \in Nat /\ a \in Entry
      BY <1>0, <2>2, <2>3, NatFacts DEF Fresher, FreshReader
    <3> QED
      BY <2>1, <3>1 DEF Keeps
  <2>4. /\ reader'[r].ref = reader[r].ref /\ reader'[r].cur = reader[r].cur
        /\ reader'[r].seen = disk[reader[r].cur]
        /\ reader[r].ref \in Entry /\ reader[r].cur \in Path
    BY <1>10, LeafReadMoves DEF Moved, Content
  <2>5. ASSUME NEW y \in Entry, NEW q \in Path PROVE LeafOK(y, q, disk[q])
    <3>1. disk[q] \in Nat /\ disk[q] >= floor[q]
      BY NatFacts DEF Bounds
    <3>2. AtLeast(q, disk[q])
      BY <3>1, NatFacts DEF AtLeast, Bounds
    <3>3. \A x : AggOK(x, q, disk[q])
      BY <3>1, NewEnough
    <3>4. \A s \in Reader : disk[q] >= reader[s].from[q]
      BY <3>1, NewEnough
    <3> QED
      BY <3>2, <3>3, <3>4 DEF LeafOK
  <2>6. ASSUME NEW y \in Entry, NEW q \in Path, NEW v, v = disk[q] PROVE LeafOK(y, q, v)'
    BY <2>1, <2>5, <2>6, NatFacts DEF Keeps
  <2>7. LeafOK(reader[r].ref, reader[r].cur, reader[r].seen)'
    BY <2>4, <2>6 DEF LeafOK
  <2>8. FreshReader(r)'
    BY <2>2, <2>3, <2>7 DEF FreshReader, AggOK
  <2> QED
    BY <1>10, <1>b, <2>1, <2>8, LeafReadMoves DEF Moved
<1>11. ASSUME NEW r \in Reader, LeafStore(r) PROVE Fresher'
  <2>1. Keeps(Entry)
    BY <1>11, LeafStoreMoves, ReaderReleases DEF Moved
  <2> DEFINE y == reader[r].ref
             c == reader[r].cur
             v == reader[r].seen
  <2>2. /\ y \in Entry /\ c \in Path /\ reader[r].pc = "store" /\ v \in Nat
        /\ Stored(y, [Zero EXCEPT ![c] = v])
    BY <1>11, LeafStoreMoves, NatFacts
  <2>3. LeafOK(y, c, v)
    BY <2>2 DEF Fresher, FreshReader
  <2>4. FreshReader(r)'
    BY <1>11, <2>1, <2>2, <2>3, LeafStoreMoves, ValueIsFresh
  <2>5. \A s \in Reader : FreshReader(s)'
    BY <1>11, <2>1, <2>4, LeafStoreMoves, OtherReaders DEF Moved
  <2>6. /\ \A q \in Path \ {c} : leaf[q] # y
        /\ \A s \in Reader : reader[s].ref = y => reader[s].cur = c
        /\ y # agg /\ \A s \in Reader : reader[s].aggRef # y
    BY <2>2, ConstantsAssumption DEF Roles
  <2>7. ASSUME NEW q \in Path, NEW w \in Nat PROVE AggOK(y, q, w)
    BY <2>6 DEF AggOK
  <2>8. ASSUME NEW q \in Path \ {c}, NEW w \in Nat PROVE LeafOK(y, q, w)
    BY <2>6 DEF LeafOK
  <2>9. \A q \in Path : [Zero EXCEPT ![c] = v][q] = IF q = c THEN v ELSE 0
    BY <2>2 DEF Zero
  <2> HIDE DEF y, c, v
  <2>10. ASSUME NEW x \in Entry, NEW q \in Path, entry'[x].done, NEW w, w = entry'[x].val[q]
         PROVE  w \in Nat /\ LeafOK(x, q, w) /\ AggOK(x, q, w)
    <3>1. CASE x # y
      <4>1. entry'[x] = entry[x]
        BY <2>2, <3>1 DEF Stored
      <4> QED
        BY <2>10, <4>1, NatFacts DEF Fresher, FreshLeaf, FreshAgg
    <3>2. CASE x = y
      <4>1. w = IF q = c THEN v ELSE 0
        BY <2>2, <2>9, <2>10, <3>2 DEF Stored
      <4> QED
        BY <2>2, <2>3, <2>7, <2>8, <3>2, <4>1
    <3> QED
      BY <3>1, <3>2
  <2>11. FreshLeaf' /\ FreshAgg'
    BY <2>1, <2>10 DEF Keeps, FreshLeaf, FreshAgg
  <2> QED
    BY <2>5, <2>11 DEF Fresher
<1>12. ASSUME NEW r \in Reader, AggLoad(r) PROVE Fresher'
  <2> DEFINE E == IF agg = None THEN Entry \ {Fresh} ELSE Entry
  <2>1. Keeps(E)
    BY <1>12, KeepsAggLoad
  <2>2. ASSUME NEW x \in Entry, entry'[x].done
        PROVE  x \in E /\ entry[x].done /\ entry'[x].val = entry[x].val
    BY <1>12, <2>2, AggLoadMoves DEF Created
  <2>3. FreshLeaf' /\ FreshAgg'
    BY <2>1, <2>2, KeptEntries
  <2>4. \A s \in Reader : /\ reader[s].ref # None => reader[s].ref \in E
                          /\ reader[s].aggRef # None => reader[s].aggRef \in E
    BY <1>0, <1>12, AggLoadMoves DEF Created, Unused
  <2>5. ASSUME NEW s \in Reader \ {r} PROVE FreshReader(s)'
    BY <1>12, <2>1, <2>4, AggLoadMoves, KeptReader DEF Moved
  <2>6. reader'[r].pc = "lockAgg"
    BY <1>12, AggLoadMoves DEF Moved
  <2>7. FreshReader(r)'
    BY <2>6 DEF FreshReader
  <2> QED
    BY <2>3, <2>5, <2>7 DEF Fresher
<1>13. ASSUME NEW r \in Reader, AggHit(r) PROVE Fresher'
  <2>1. Keeps(Entry)
    BY <1>13, AggHitMoves, ReaderReleases DEF Moved
  <2>2. /\ reader'[r].pc = "done" /\ reader'[r].aggRef = None
        /\ reader'[r].got = entry[reader[r].aggRef].val /\ reader'[r].from = reader[r].from
    BY <1>13, AggHitMoves DEF Moved
  <2>3. reader[r].aggRef \in Entry /\ entry[reader[r].aggRef].done
    BY <1>13, AggHitMoves
  <2>4. \A q \in Path : entry[reader[r].aggRef].val[q] >= reader[r].from[q]
    BY <2>3 DEF Fresher, FreshAgg, AggOK
  <2>5. FreshReader(r)'
    BY <2>2, <2>4 DEF FreshReader
  <2> QED
    BY <1>13, <1>b, <2>1, <2>5, AggHitMoves DEF Moved
<1>14. ASSUME NEW r \in Reader, AggLock(r) PROVE Fresher'
  <2>1. Keeps(Entry)
    BY <1>14, AggLockMoves, ReaderReleases DEF Moved
  <2>2. reader'[r].pc = "next" /\ reader'[r].todo = Path
    BY <1>14, AggLockMoves DEF Moved
  <2>3. FreshReader(r)'
    BY <2>2 DEF FreshReader
  <2> QED
    BY <1>14, <1>b, <2>1, <2>3, AggLockMoves DEF Moved
<1>15. ASSUME NEW r \in Reader, NEW p \in Path, AggNext(r, p) PROVE Fresher'
  <2>1. Keeps(Entry)
    BY <1>15, AggNextMoves, ReaderReleases DEF Moved
  <2>2. /\ reader'[r].aggRef = reader[r].aggRef /\ reader'[r].todo = reader[r].todo
        /\ reader'[r].got = reader[r].got /\ reader'[r].pc = "leaf" /\ reader[r].pc = "next"
    BY <1>15, AggNextMoves DEF Moved
  <2>3. ASSUME reader[r].aggRef # None, NEW q \in Path \ reader[r].todo,
               NEW a, a = reader[r].aggRef, NEW v, v = reader[r].got[q]
        PROVE  AggOK(a, q, v)'
    <3>1. AggOK(a, q, v) /\ v \in Nat /\ a \in Entry
      BY <1>0, <2>2, <2>3, NatFacts DEF Fresher, FreshReader
    <3> QED
      BY <2>1, <3>1 DEF Keeps
  <2>4. FreshReader(r)'
    BY <2>2, <2>3 DEF FreshReader, AggOK
  <2> QED
    BY <1>15, <1>b, <2>1, <2>4, AggNextMoves DEF Moved
<1>16. ASSUME NEW r \in Reader, AggStore(r) PROVE Fresher'
  <2>1. Keeps(Entry)
    BY <1>16, AggStoreMoves, ReaderReleases DEF Moved
  <2> DEFINE x == reader[r].aggRef
             g == reader[r].got
  <2>2. /\ x \in Entry /\ x # None /\ reader[r].pc = "storeAgg" /\ reader[r].todo = {}
        /\ Stored(x, g)
    BY <1>16, AggStoreMoves, ConstantsAssumption
  <2>3. ASSUME NEW q \in Path PROVE g[q] \in Nat /\ AggOK(x, q, g[q])
    BY <2>2, NatFacts DEF Fresher, FreshReader
  <2>4. \A q \in Path : g[q] >= reader[r].from[q]
    BY <2>3 DEF AggOK
  <2>5. /\ reader'[r].pc = "done" /\ reader'[r].aggRef = None /\ reader'[r].got = g
        /\ reader'[r].from = reader[r].from
    BY <1>16, AggStoreMoves DEF Moved
  <2>6. FreshReader(r)'
    BY <2>4, <2>5 DEF FreshReader
  <2>7. \A s \in Reader : FreshReader(s)'
    BY <1>16, <2>1, <2>6, AggStoreMoves, OtherReaders DEF Moved
  <2>8. (\A q \in Path : leaf[q] # x) /\ (\A s \in Reader : reader[s].ref # x)
    BY <2>2 DEF Roles
  <2>9. ASSUME NEW q \in Path, NEW w \in Nat PROVE LeafOK(x, q, w)
    BY <2>8 DEF LeafOK
  <2> HIDE DEF x, g
  <2>10. ASSUME NEW y \in Entry, NEW q \in Path, entry'[y].done, NEW w, w = entry'[y].val[q]
         PROVE  w \in Nat /\ LeafOK(y, q, w) /\ AggOK(y, q, w)
    <3>1. CASE y # x
      <4>1. entry'[y] = entry[y]
        BY <2>2, <3>1 DEF Stored
      <4> QED
        BY <2>10, <4>1, NatFacts DEF Fresher, FreshLeaf, FreshAgg
    <3>2. CASE y = x
      BY <2>2, <2>3, <2>9, <2>10, <3>2 DEF Stored
    <3> QED
      BY <3>1, <3>2
  <2>11. FreshLeaf' /\ FreshAgg'
    BY <2>1, <2>10 DEF Keeps, FreshLeaf, FreshAgg
  <2> QED
    BY <2>7, <2>11 DEF Fresher
<1>17. ASSUME NEW r \in Reader, Finish(r) PROVE Fresher'
  <2>1. Keeps(Entry)
    BY <1>17, FinishMoves, ReaderReleases
  <2>2. FreshReader(r)'
    BY <1>17, FinishMoves, GoneIsFresh
  <2> QED
    BY <1>17, <1>b, <2>1, <2>2, FinishMoves
<1>18. CASE UNCHANGED vars
  <2>1. Keeps(Entry)
    BY <1>18, KeepsRelease, AtLeastSame DEF vars
  <2> QED
    BY <1>18, <1>a, <2>1 DEF vars
<1> QED
  BY <1>1, <1>2, <1>3, <1>4, <1>5, <1>6, <1>7, <1>8, <1>9, <1>10, <1>11, <1>12,
     <1>13, <1>14, <1>15, <1>16, <1>17, <1>18 DEF Next, ReaderStep, EditorStep

-----------------------------------------------------------------------------
LEMMA InitIInv == Init => IInv
<1> SUFFICES ASSUME Init PROVE IInv
  OBVIOUS
<1>1. TypeOK /\ Shape
  BY TInvInit DEF TInv
<1>2. /\ \A r \in Reader : reader[r].pc = "idle" /\ reader[r].ref = None
                          /\ reader[r].aggRef = None /\ \A p \in Path : reader[r].from[p] = 0
      /\ \A p \in Path : leaf[p] = None /\ disk[p] = 0 /\ floor[p] = 0
      /\ agg = None /\ \A x \in Entry : ~entry[x].done
      /\ \A e \in Editor : editor[e].pc = "idle"
  BY DEF Init, Idle, Zero, Resting
<1>3. Bounds
  BY <1>2 DEF Bounds
<1>4. Roles
  BY <1>2 DEF Roles
<1>5. Fresher
  BY <1>2 DEF Fresher, FreshLeaf, FreshAgg, FreshReader
<1> QED
  BY <1>1, <1>3, <1>4, <1>5 DEF IInv

(* No read answers with content older than what an Invalidate that         *)
(* returned before the read began had vouched for, when builds read the    *)
(* files as they are.                                                      *)
THEOREM ReadsAreFresh == ASSUME ~Snapshots PROVE Spec => []ReadIsFresh
<1>1. IInv /\ [Next]_vars => IInv'
  BY TInvNext, BoundsNext, RolesNext, FresherNext DEF IInv, TInv
<1>2. IInv => ReadIsFresh
  <2> SUFFICES ASSUME IInv, NEW r \in Reader, reader[r].pc = "done",
                      NEW p \in reader[r].scope
               PROVE  reader[r].got[p] >= reader[r].from[p]
    BY DEF ReadIsFresh
  <2>1. p \in Path
    BY DEF IInv, TypeOK, ReaderRec
  <2> QED
    BY <2>1 DEF IInv, Fresher, FreshReader
<1> QED
  BY InitIInv, <1>1, <1>2, PTL DEF Spec

-----------------------------------------------------------------------------
(* The mutex of the entry x is as it was, or x is new.                     *)
SameMutex(x) ==
  \/ entry'[x].lock = entry[x].lock
  \/ entry'[x].lock = None /\ x \in Unused

(* One goroutine builds an entry.  A step of r that leaves what it builds   *)
(* as it was, and the mutex of every entry but a new one, changes nothing.  *)
LEMMA SameBuilder ==
  ASSUME TInv, OneBuilder, NEW r \in Reader,
         \A s \in Reader \ {r} : reader'[s] = reader[s],
         \A x \in Entry : Building(r, x)' <=> Building(r, x),
         \A x \in Entry : SameMutex(x)
  PROVE  OneBuilder'
<1>1. ASSUME NEW x \in Entry, NEW s \in Reader PROVE Building(s, x)' <=> Building(s, x)
  BY DEF Building
<1>2. ASSUME NEW x \in Unused, NEW s \in Reader PROVE x \in Entry /\ ~Building(s, x)
  BY DEF Building, Unused
<1> QED
  BY <1>1, <1>2, ConstantsAssumption DEF OneBuilder, SameMutex

LEMMA SameEntries ==
  ASSUME TInv, OneBuilder, NEW r \in Reader,
         \A s \in Reader \ {r} : reader'[s] = reader[s],
         \A x \in Entry : Building(r, x)' <=> Building(r, x),
         entry' = entry
  PROVE  OneBuilder'
<1>1. \A x \in Entry : SameMutex(x)
  BY DEF SameMutex
<1> QED
  BY <1>1, SameBuilder

(* A step that takes, or releases, the mutex of the entry y.               *)
LEMMA OtherBuilder ==
  ASSUME TInv, OneBuilder, NEW r \in Reader, NEW y \in Entry,
         \A s \in Reader \ {r} : reader'[s] = reader[s],
         \A x \in Entry \ {y} : Building(r, x)' <=> Building(r, x),
         \A x \in Entry \ {y} : entry'[x].lock = entry[x].lock,
         entry[y].lock \in {r, None}, entry'[y].lock \in {r, None},
         Building(r, y)' <=> entry'[y].lock = r
  PROVE  OneBuilder'
<1>1. ASSUME NEW x \in Entry, NEW s \in Reader \ {r} PROVE Building(s, x)' <=> Building(s, x)
  BY DEF Building
<1> QED
  BY <1>1, ConstantsAssumption DEF OneBuilder

LEMMA BuilderNext == TInv /\ Roles /\ OneBuilder /\ [Next]_vars => OneBuilder'
<1> SUFFICES ASSUME TInv, Roles, OneBuilder, [Next]_vars PROVE OneBuilder'
  OBVIOUS
<1>0. None \notin Entry /\ None \notin Reader
  BY ConstantsAssumption
<1>1. ASSUME UNCHANGED <<entry, reader>> PROVE OneBuilder'
  BY <1>1 DEF OneBuilder, Building
<1>2. ASSUME NEW p \in Path, Edit(p) PROVE OneBuilder'
  BY <1>1, <1>2 DEF Edit
<1>3. ASSUME NEW e \in Editor, NEW p \in Path, Invalidate(e, p) PROVE OneBuilder'
  BY <1>1, <1>3 DEF Invalidate
<1>4. ASSUME NEW e \in Editor, EditorStep(e) PROVE OneBuilder'
  BY <1>1, <1>4 DEF EditorStep, DropLeaf, DropAgg
<1>5. ASSUME NEW r \in Reader, NEW S, NEW pc, NEW cur, Start(r, S, pc, cur),
             pc \in {"leaf", "agg"}
      PROVE  OneBuilder'
  <2>1. reader[r].pc = "idle" /\ reader[r].aggRef = None
    BY <1>5 DEF Start, TInv, Shape
  <2>2. \A x \in Entry : ~Building(r, x) /\ ~Building(r, x)'
    BY <1>0, <1>5, <2>1, StartMoves DEF Building
  <2> QED
    BY <1>5, <2>2, StartMoves, SameEntries
<1>6. ASSUME NEW r \in Reader, LeafLoad(r) PROVE OneBuilder'
  <2>1. \A x \in Entry : Building(r, x)' <=> Building(r, x)
    BY <1>6, LeafLoadMoves DEF Moved, Building
  <2>2. \A x \in Entry : SameMutex(x)
    <3>1. CASE leaf[reader[r].cur] # None
      BY <1>6, <3>1 DEF LeafLoad, SameMutex
    <3>2. CASE leaf[reader[r].cur] = None
      <4>1. Fresh \in Unused /\ Fresh \in Entry /\ entry' = [entry EXCEPT ![Fresh] = New]
        BY <1>6, <3>2, FreshUnused DEF LeafLoad
      <4>2. New.lock = None
        BY DEF New
      <4> QED
        BY <4>1, <4>2 DEF TInv, TypeOK, SameMutex
    <3> QED
      BY <3>1, <3>2
  <2> QED
    BY <1>6, <2>1, <2>2, LeafLoadMoves, SameBuilder DEF Moved
<1>7. ASSUME NEW r \in Reader, LeafHit(r) PROVE OneBuilder'
  <2>1. \A x \in Entry : Building(r, x)' <=> Building(r, x)
    BY <1>0, <1>7, LeafHitMoves DEF Moved, Building, AfterValue
  <2> QED
    BY <1>7, <2>1, LeafHitMoves, SameEntries DEF Moved
<1>8. ASSUME NEW r \in Reader, LeafLock(r) PROVE OneBuilder'
  <2> SUFFICES ASSUME NEW y \in Entry, y = reader[r].ref PROVE OneBuilder'
    BY <1>8, LeafLockMoves
  <2>1. y \in Entry /\ y # reader[r].aggRef
    BY <1>0, <1>8, LeafLockMoves DEF Roles
  <2>2. /\ entry[y].lock = None /\ entry'[y].lock = r
        /\ \A x \in Entry \ {y} : entry'[x].lock = entry[x].lock
    BY <1>8, <2>1 DEF LeafLock, TInv, TypeOK, EntryRec
  <2>3. /\ \A x \in Entry \ {y} : Building(r, x)' <=> Building(r, x)
        /\ Building(r, y)'
    BY <1>8, <2>1, LeafLockMoves DEF Moved, Building
  <2> QED
    BY <1>8, <2>1, <2>2, <2>3, LeafLockMoves, OtherBuilder DEF Moved
<1>9. ASSUME NEW r \in Reader, LeafRead(r) PROVE OneBuilder'
  <2>1. \A x \in Entry : Building(r, x)' <=> Building(r, x)
    BY <1>9, LeafReadMoves DEF Moved, Building
  <2> QED
    BY <1>9, <2>1, LeafReadMoves, SameEntries DEF Moved
<1>10. ASSUME NEW r \in Reader, LeafStore(r) PROVE OneBuilder'
  <2> SUFFICES ASSUME NEW y \in Entry, y = reader[r].ref PROVE OneBuilder'
    BY <1>10, LeafStoreMoves
  <2>0. y \in Entry /\ reader[r].pc = "store" /\ Building(r, y)
    BY <1>10, LeafStoreMoves DEF Building
  <2>1. y \in Entry /\ y # reader[r].aggRef /\ entry[y].lock = r
    BY <1>0, <2>0 DEF Roles, OneBuilder
  <2>2. /\ entry'[y].lock = None
        /\ \A x \in Entry \ {y} : entry'[x].lock = entry[x].lock
    BY <1>10, <2>1 DEF LeafStore, TInv, TypeOK
  <2>3. /\ \A x \in Entry \ {y} : Building(r, x)' <=> Building(r, x)
        /\ ~Building(r, y)'
    BY <1>0, <1>10, <2>1, LeafStoreMoves DEF Moved, Building, AfterValue
  <2>4. /\ \A s \in Reader \ {r} : reader'[s] = reader[s]
        /\ entry[y].lock \in {r, None} /\ entry'[y].lock \in {r, None}
        /\ Building(r, y)' <=> entry'[y].lock = r
    BY <1>0, <1>10, <2>1, <2>2, <2>3, LeafStoreMoves DEF Moved
  <2> QED
    BY <2>1, <2>2, <2>3, <2>4, OtherBuilder
<1>11. ASSUME NEW r \in Reader, AggLoad(r) PROVE OneBuilder'
  <2>1. \A x \in Entry : ~Building(r, x)' /\ ~Building(r, x)
    BY <1>0, <1>11, AggLoadMoves DEF Moved, Building
  <2>2. \A x \in Entry : SameMutex(x)
    <3>1. CASE agg # None
      BY <1>11, <3>1 DEF AggLoad, SameMutex
    <3>2. CASE agg = None
      <4>1. Fresh \in Unused /\ Fresh \in Entry /\ entry' = [entry EXCEPT ![Fresh] = New]
        BY <1>11, <3>2, FreshUnused DEF AggLoad
      <4>2. New.lock = None
        BY DEF New
      <4> QED
        BY <4>1, <4>2 DEF TInv, TypeOK, SameMutex
    <3> QED
      BY <3>1, <3>2
  <2> QED
    BY <1>11, <2>1, <2>2, AggLoadMoves, SameBuilder DEF Moved
<1>12. ASSUME NEW r \in Reader, AggHit(r) PROVE OneBuilder'
  <2>1. \A x \in Entry : ~Building(r, x)' /\ ~Building(r, x)
    BY <1>0, <1>12, AggHitMoves DEF Moved, Building
  <2> QED
    BY <1>12, <2>1, AggHitMoves, SameEntries DEF Moved
<1>13. ASSUME NEW r \in Reader, AggLock(r) PROVE OneBuilder'
  <2> SUFFICES ASSUME NEW y \in Entry, y = reader[r].aggRef PROVE OneBuilder'
    BY <1>13 DEF AggLock, TInv, Shape
  <2>1. y \in Entry /\ reader[r].pc = "lockAgg" /\ reader[r].ref = None
    BY <1>13 DEF AggLock, TInv, Shape
  <2>2. /\ entry[y].lock = None /\ entry'[y].lock = r
        /\ \A x \in Entry \ {y} : entry'[x].lock = entry[x].lock
    BY <1>13, <2>1 DEF AggLock, TInv, TypeOK, EntryRec
  <2>3. /\ \A x \in Entry \ {y} : Building(r, x)' <=> Building(r, x)
        /\ Building(r, y)'
    BY <1>13, <2>1, AggLockMoves DEF Moved, Building
  <2> QED
    BY <1>13, <2>1, <2>2, <2>3, AggLockMoves, OtherBuilder DEF Moved
<1>14. ASSUME NEW r \in Reader, NEW p \in Path, AggNext(r, p) PROVE OneBuilder'
  <2>1. \A x \in Entry : Building(r, x)' <=> Building(r, x)
    BY <1>14, AggNextMoves DEF Moved, Building
  <2> QED
    BY <1>14, <2>1, AggNextMoves, SameEntries DEF Moved
<1>15. ASSUME NEW r \in Reader, AggStore(r) PROVE OneBuilder'
  <2> SUFFICES ASSUME NEW y \in Entry, y = reader[r].aggRef PROVE OneBuilder'
    BY <1>15 DEF AggStore, TInv, Shape
  <2>1. /\ y \in Entry /\ reader[r].pc = "storeAgg" /\ reader[r].ref = None
        /\ entry[y].lock = r
    BY <1>15 DEF AggStore, TInv, Shape, OneBuilder, Building
  <2>2. /\ entry'[y].lock = None
        /\ \A x \in Entry \ {y} : entry'[x].lock = entry[x].lock
    BY <1>15, <2>1 DEF AggStore, TInv, TypeOK
  <2>3. /\ \A x \in Entry \ {y} : Building(r, x)' <=> Building(r, x)
        /\ ~Building(r, y)'
    BY <1>0, <1>15, <2>1, AggStoreMoves DEF Moved, Building
  <2>4. /\ \A s \in Reader \ {r} : reader'[s] = reader[s]
        /\ entry[y].lock \in {r, None} /\ entry'[y].lock \in {r, None}
        /\ Building(r, y)' <=> entry'[y].lock = r
    BY <1>0, <1>15, <2>1, <2>2, <2>3, AggStoreMoves DEF Moved
  <2> QED
    BY <2>1, <2>2, <2>3, <2>4, OtherBuilder
<1>16. ASSUME NEW r \in Reader, Finish(r) PROVE OneBuilder'
  <2>1. \A x \in Entry : ~Building(r, x)' /\ ~Building(r, x)
    BY <1>0, <1>16, FinishMoves DEF Building, Finish, TInv, Shape
  <2> QED
    BY <1>16, <2>1, FinishMoves, SameEntries
<1>17. CASE UNCHANGED vars
  BY <1>1, <1>17 DEF vars
<1> QED
  BY <1>2, <1>3, <1>4, <1>5, <1>6, <1>7, <1>8, <1>9, <1>10, <1>11, <1>12, <1>13,
     <1>14, <1>15, <1>16, <1>17 DEF Next, ReaderStep, ReadFile, ReadCorpus

(* Of all goroutines that hold an entry, the one that holds its mutex, and  *)
(* no other, builds it, also after Invalidate has taken it out of the map.  *)
THEOREM BuiltByOne == Spec => []OneBuilder
<1>1. Init => TInv /\ Roles /\ OneBuilder
  <2> SUFFICES ASSUME Init PROVE OneBuilder
    BY TInvInit, InitIInv DEF IInv
  <2>1. \A r \in Reader : reader[r].pc = "idle" /\ reader[r].aggRef = None
    BY DEF Init, Idle
  <2>2. \A x \in Entry : entry[x].lock = None
    BY DEF Init
  <2> QED
    BY <2>1, <2>2, ConstantsAssumption DEF OneBuilder, Building
<1> QED
  BY <1>1, TInvNext, RolesNext, BuilderNext, PTL DEF Spec

-----------------------------------------------------------------------------
(* RunCache implements FreshReads.                                         *)

(* Nothing is cached, carried or answered that has not been written.       *)
Written ==
  /\ \A x \in Entry, p \in Path : entry[x].val[p] <= disk[p]
  /\ \A r \in Reader : \A p \in Path : reader[r].got[p] <= disk[p]
  /\ \A r \in Reader : reader[r].pc = "store" => reader[r].seen <= disk[reader[r].cur]

(* A goroutine looks up what it was asked for, and answers for nothing else.*)
AsAsked ==
  \A r \in Reader :
    /\ reader[r].cur # None => reader[r].cur \in reader[r].scope
    /\ reader[r].pc = "agg" \/ reader[r].aggRef # None => reader[r].scope = Path
    /\ \A p \in Path \ reader[r].scope : reader[r].got[p] = 0

(* A step of r that leaves the files as they are.                          *)
LEMMA WrittenBy ==
  ASSUME TInv, Written, NEW r \in Reader, disk' = disk,
         \A s \in Reader \ {r} : reader'[s] = reader[s],
         \A x \in Entry, p \in Path : entry'[x].val[p] <= disk[p],
         \A p \in Path : reader'[r].got[p] <= disk[p],
         reader'[r].pc = "store" => reader'[r].seen <= disk[reader'[r].cur]
  PROVE  Written'
<1>1. ASSUME NEW s \in Reader
      PROVE  /\ \A p \in Path : reader'[s].got[p] <= disk'[p]
             /\ reader'[s].pc = "store" => reader'[s].seen <= disk'[reader'[s].cur]
  BY DEF Written
<1> QED
  BY <1>1 DEF Written

LEMMA ZeroWritten ==
  ASSUME TInv
  PROVE  \A p \in Path : Zero[p] <= disk[p] /\ New.val[p] <= disk[p] /\ Idle.got[p] <= disk[p]
BY NatFacts DEF Zero, New, Idle

(* A value for one file, in a new value, or in what was got so far.         *)
LEMMA PutWritten ==
  ASSUME TInv, NEW p \in Path, NEW v, v <= disk[p],
         NEW w \in Vers, \A q \in Path : w[q] <= disk[q]
  PROVE  \A q \in Path : [w EXCEPT ![p] = v][q] <= disk[q]
BY DEF Vers

LEMMA WrittenNext == TInv /\ Written /\ ~Snapshots /\ [Next]_vars => Written'
<1> SUFFICES ASSUME TInv, Written, ~Snapshots, [Next]_vars PROVE Written'
  OBVIOUS
<1>1. ASSUME UNCHANGED <<disk, entry, reader>> PROVE Written'
  BY <1>1 DEF Written
<1>2. ASSUME NEW p \in Path, Edit(p) PROVE Written'
  <2>1. \A q \in Path : disk[q] \in Nat /\ disk'[q] \in Nat /\ disk[q] <= disk'[q]
    BY <1>2, NatFacts DEF Edit, TInv, TypeOK, Vers
  <2>2. ASSUME NEW x \in Entry, NEW q \in Path PROVE entry'[x].val[q] <= disk'[q]
    BY <1>2, <2>1, NatFacts DEF Edit, Written
  <2>3. ASSUME NEW s \in Reader, NEW q \in Path PROVE reader'[s].got[q] <= disk'[q]
    BY <1>2, <2>1, NatFacts DEF Edit, Written
  <2>4. ASSUME NEW s \in Reader, reader'[s].pc = "store"
        PROVE  reader'[s].seen <= disk'[reader'[s].cur]
    <3>1. reader' = reader /\ reader[s].cur \in Path
      BY <1>2, <2>4 DEF Edit, TInv, Shape
    <3> QED
      BY <2>1, <2>4, <3>1, NatFacts DEF Written
  <2> QED
    BY <2>2, <2>3, <2>4 DEF Written
<1>3. ASSUME NEW e \in Editor, NEW p \in Path, Invalidate(e, p) PROVE Written'
  BY <1>1, <1>3 DEF Invalidate
<1>4. ASSUME NEW e \in Editor, EditorStep(e) PROVE Written'
  BY <1>1, <1>4 DEF EditorStep, DropLeaf, DropAgg
<1>5. ASSUME NEW r \in Reader, NEW S, NEW pc, NEW cur, Start(r, S, pc, cur),
             pc \in {"leaf", "agg"}
      PROVE  Written'
  <2>1. reader'[r].got = Zero /\ reader'[r].pc # "store"
    BY <1>5 DEF Start, Idle, TInv, TypeOK
  <2>2. \A x \in Entry, p \in Path : entry'[x].val[p] <= disk[p]
    BY <1>5, StartMoves DEF Written
  <2> QED
    BY <1>5, <2>1, <2>2, StartMoves, ZeroWritten, WrittenBy
<1>6. ASSUME NEW r \in Reader, LeafLoad(r) PROVE Written'
  <2>1. ASSUME NEW x \in Entry, NEW p \in Path PROVE entry'[x].val[p] <= disk[p]
    <3>1. entry'[x] = entry[x] \/ entry'[x] = New
      BY <1>6 DEF LeafLoad, TInv, TypeOK
    <3> QED
      BY <3>1, ZeroWritten DEF Written
  <2>2. /\ reader'[r].got = reader[r].got /\ reader'[r].pc # "store" /\ disk' = disk
        /\ \A s \in Reader \ {r} : reader'[s] = reader[s]
    BY <1>6, LeafLoadMoves DEF Moved
  <2>3. \A p \in Path : reader'[r].got[p] <= disk[p]
    BY <2>2 DEF Written
  <2> QED
    BY <2>1, <2>2, <2>3, WrittenBy
<1>7. ASSUME NEW r \in Reader, LeafHit(r) PROVE Written'
  <2> DEFINE p == reader[r].cur
             w == reader[r].got
             v == entry[reader[r].ref].val[p]
  <2>1. /\ reader'[r].got = [w EXCEPT ![p] = v] /\ reader'[r].pc # "store"
        /\ disk' = disk /\ entry' = entry
        /\ \A s \in Reader \ {r} : reader'[s] = reader[s]
        /\ p \in Path /\ reader[r].ref \in Entry
    BY <1>7, LeafHitMoves DEF Moved, AfterValue
  <2>2. v <= disk[p] /\ w \in Vers /\ \A q \in Path : w[q] <= disk[q]
    BY <2>1 DEF Written, TInv, TypeOK, ReaderRec
  <2>3. \A q \in Path : reader'[r].got[q] <= disk[q]
    BY <2>1, <2>2, PutWritten
  <2>4. \A x \in Entry, q \in Path : entry'[x].val[q] <= disk[q]
    BY <2>1 DEF Written
  <2> QED
    BY <2>1, <2>3, <2>4, WrittenBy
<1>8. ASSUME NEW r \in Reader, LeafLock(r) PROVE Written'
  <2>1. \A x \in Entry, q \in Path : entry'[x].val[q] <= disk[q]
    BY <1>8, LeafLockMoves DEF Written
  <2>2. /\ reader'[r].got = reader[r].got /\ reader'[r].pc # "store" /\ disk' = disk
        /\ \A s \in Reader \ {r} : reader'[s] = reader[s]
    BY <1>8, LeafLockMoves DEF Moved
  <2>3. \A q \in Path : reader'[r].got[q] <= disk[q]
    BY <2>2 DEF Written
  <2> QED
    BY <2>1, <2>2, <2>3, WrittenBy
<1>9. ASSUME NEW r \in Reader, LeafRead(r) PROVE Written'
  <2>1. \A x \in Entry, q \in Path : entry'[x].val[q] <= disk[q]
    BY <1>9, LeafReadMoves DEF Written
  <2>2. /\ reader'[r].got = reader[r].got /\ disk' = disk
        /\ \A s \in Reader \ {r} : reader'[s] = reader[s]
        /\ reader'[r].cur = reader[r].cur /\ reader[r].cur \in Path
        /\ reader'[r].seen = disk[reader[r].cur]
    BY <1>9, LeafReadMoves DEF Moved, Content
  <2>3. \A q \in Path : reader'[r].got[q] <= disk[q]
    BY <2>2 DEF Written
  <2>4. reader'[r].seen <= disk[reader'[r].cur]
    BY <2>2, NatFacts
  <2> QED
    BY <2>1, <2>2, <2>3, <2>4, WrittenBy
<1>10. ASSUME NEW r \in Reader, LeafStore(r) PROVE Written'
  <2> DEFINE p == reader[r].cur
             w == reader[r].got
             v == reader[r].seen
  <2>1. /\ reader'[r].got = [w EXCEPT ![p] = v] /\ reader'[r].pc # "store"
        /\ disk' = disk /\ Stored(reader[r].ref, [Zero EXCEPT ![p] = v])
        /\ \A s \in Reader \ {r} : reader'[s] = reader[s]
        /\ p \in Path /\ reader[r].ref \in Entry /\ reader[r].pc = "store"
    BY <1>10, LeafStoreMoves DEF Moved, AfterValue
  <2>2. v <= disk[p] /\ w \in Vers /\ \A q \in Path : w[q] <= disk[q]
    BY <2>1 DEF Written, TInv, TypeOK, ReaderRec
  <2>3. \A q \in Path : reader'[r].got[q] <= disk[q]
    BY <2>1, <2>2, PutWritten
  <2>4. \A q \in Path : [Zero EXCEPT ![p] = v][q] <= disk[q]
    BY <2>1, <2>2, Zeros, ZeroWritten, PutWritten
  <2>5. \A x \in Entry, q \in Path : entry'[x].val[q] <= disk[q]
    BY <2>1, <2>4 DEF Written, Stored
  <2> QED
    BY <2>1, <2>3, <2>5, WrittenBy
<1>11. ASSUME NEW r \in Reader, AggLoad(r) PROVE Written'
  <2>1. ASSUME NEW x \in Entry, NEW p \in Path PROVE entry'[x].val[p] <= disk[p]
    <3>1. entry'[x] = entry[x] \/ entry'[x] = New
      BY <1>11 DEF AggLoad, TInv, TypeOK
    <3> QED
      BY <3>1, ZeroWritten DEF Written
  <2>2. /\ reader'[r].got = reader[r].got /\ reader'[r].pc # "store" /\ disk' = disk
        /\ \A s \in Reader \ {r} : reader'[s] = reader[s]
    BY <1>11, AggLoadMoves DEF Moved
  <2>3. \A p \in Path : reader'[r].got[p] <= disk[p]
    BY <2>2 DEF Written
  <2> QED
    BY <2>1, <2>2, <2>3, WrittenBy
<1>12. ASSUME NEW r \in Reader, AggHit(r) PROVE Written'
  <2>1. /\ reader'[r].got = entry[reader[r].aggRef].val /\ reader'[r].pc # "store"
        /\ disk' = disk /\ entry' = entry /\ reader[r].aggRef \in Entry
        /\ \A s \in Reader \ {r} : reader'[s] = reader[s]
    BY <1>12, AggHitMoves DEF Moved
  <2>2. \A q \in Path : reader'[r].got[q] <= disk[q]
    BY <2>1 DEF Written
  <2>3. \A x \in Entry, q \in Path : entry'[x].val[q] <= disk[q]
    BY <2>1 DEF Written
  <2> QED
    BY <2>1, <2>2, <2>3, WrittenBy
<1>13. ASSUME NEW r \in Reader, AggLock(r) PROVE Written'
  <2>1. \A x \in Entry, q \in Path : entry'[x].val[q] <= disk[q]
    BY <1>13, AggLockMoves DEF Written
  <2>2. /\ reader'[r].got = reader[r].got /\ reader'[r].pc # "store" /\ disk' = disk
        /\ \A s \in Reader \ {r} : reader'[s] = reader[s]
    BY <1>13, AggLockMoves DEF Moved
  <2>3. \A q \in Path : reader'[r].got[q] <= disk[q]
    BY <2>2 DEF Written
  <2> QED
    BY <2>1, <2>2, <2>3, WrittenBy
<1>14. ASSUME NEW r \in Reader, NEW p \in Path, AggNext(r, p) PROVE Written'
  <2>1. \A x \in Entry, q \in Path : entry'[x].val[q] <= disk[q]
    BY <1>14, AggNextMoves DEF Written
  <2>2. /\ reader'[r].got = reader[r].got /\ reader'[r].pc # "store" /\ disk' = disk
        /\ \A s \in Reader \ {r} : reader'[s] = reader[s]
    BY <1>14, AggNextMoves DEF Moved
  <2>3. \A q \in Path : reader'[r].got[q] <= disk[q]
    BY <2>2 DEF Written
  <2> QED
    BY <2>1, <2>2, <2>3, WrittenBy
<1>15. ASSUME NEW r \in Reader, AggStore(r) PROVE Written'
  <2>1. /\ reader'[r].got = reader[r].got /\ reader'[r].pc # "store" /\ disk' = disk
        /\ \A s \in Reader \ {r} : reader'[s] = reader[s]
        /\ Stored(reader[r].aggRef, reader[r].got)
    BY <1>15, AggStoreMoves DEF Moved
  <2>2. \A q \in Path : reader'[r].got[q] <= disk[q]
    BY <2>1 DEF Written
  <2>3. \A x \in Entry, q \in Path : entry'[x].val[q] <= disk[q]
    BY <2>1 DEF Written, Stored
  <2> QED
    BY <2>1, <2>2, <2>3, WrittenBy
<1>16. ASSUME NEW r \in Reader, Finish(r) PROVE Written'
  <2>1. reader'[r] = Idle /\ reader'[r].pc # "store"
    BY <1>16 DEF Finish, Idle, TInv, TypeOK
  <2>2. \A x \in Entry, q \in Path : entry'[x].val[q] <= disk[q]
    BY <1>16 DEF Finish, Written
  <2> QED
    BY <1>16, <2>1, <2>2, FinishMoves, ZeroWritten, WrittenBy
<1>17. CASE UNCHANGED vars
  BY <1>1, <1>17 DEF vars
<1> QED
  BY <1>2, <1>3, <1>4, <1>5, <1>6, <1>7, <1>8, <1>9, <1>10, <1>11, <1>12, <1>13,
     <1>14, <1>15, <1>16, <1>17 DEF Next, ReaderStep, ReadFile, ReadCorpus

(* The same for a step of r.                                               *)
LEMMA AskedBy ==
  ASSUME AsAsked, NEW r \in Reader,
         \A s \in Reader \ {r} : reader'[s] = reader[s],
         reader'[r].cur # None => reader'[r].cur \in reader'[r].scope,
         reader'[r].pc = "agg" \/ reader'[r].aggRef # None => reader'[r].scope = Path,
         \A p \in Path \ reader'[r].scope : reader'[r].got[p] = 0
  PROVE  AsAsked'
BY DEF AsAsked

(* A step of r that changes neither its question nor what it has got.       *)
LEMMA AskedStays ==
  ASSUME AsAsked, NEW r \in Reader, NEW pc, NEW todo, NEW ref, NEW seen, pc # "agg",
         Moved(r, pc, todo, reader[r].cur, ref, reader[r].aggRef, seen, reader[r].got)
  PROVE  AsAsked'
<1>1. /\ \A s \in Reader \ {r} : reader'[s] = reader[s]
      /\ reader'[r].cur = reader[r].cur /\ reader'[r].scope = reader[r].scope
      /\ reader'[r].pc # "agg" /\ reader'[r].aggRef = reader[r].aggRef
      /\ reader'[r].got = reader[r].got
  BY DEF Moved
<1>2. /\ reader[r].cur # None => reader[r].cur \in reader[r].scope
      /\ reader[r].aggRef # None => reader[r].scope = Path
      /\ \A p \in Path \ reader[r].scope : reader[r].got[p] = 0
  BY DEF AsAsked
<1> QED
  BY <1>1, <1>2, AskedBy

(* A step of r that gets the value v of its file.                          *)
LEMMA AskedGets ==
  ASSUME TInv, AsAsked, NEW r \in Reader, reader[r].cur \in Path,
         NEW pc, NEW todo, NEW seen, NEW v, pc # "agg",
         Moved(r, pc, todo, None, None, reader[r].aggRef, seen,
               [reader[r].got EXCEPT ![reader[r].cur] = v])
  PROVE  AsAsked'
<1>1. /\ \A s \in Reader \ {r} : reader'[s] = reader[s]
      /\ reader'[r].cur = None /\ reader'[r].scope = reader[r].scope
      /\ reader'[r].pc # "agg" /\ reader'[r].aggRef = reader[r].aggRef
      /\ reader'[r].got = [reader[r].got EXCEPT ![reader[r].cur] = v]
  BY DEF Moved
<1>2. /\ reader[r].cur \in reader[r].scope
      /\ reader[r].aggRef # None => reader[r].scope = Path
      /\ \A p \in Path \ reader[r].scope : reader[r].got[p] = 0
  BY ConstantsAssumption DEF AsAsked
<1>3. reader[r].got \in Vers
  BY DEF TInv, TypeOK, ReaderRec
<1>4. \A p \in Path \ reader'[r].scope : reader'[r].got[p] = 0
  BY <1>1, <1>2, <1>3 DEF Vers
<1> QED
  BY <1>1, <1>2, <1>4, AskedBy

LEMMA AsAskedNext == TInv /\ AsAsked /\ [Next]_vars => AsAsked'
<1> SUFFICES ASSUME TInv, AsAsked, [Next]_vars PROVE AsAsked'
  OBVIOUS
<1>1. ASSUME reader' = reader PROVE AsAsked'
  BY <1>1 DEF AsAsked
<1>2. ASSUME NEW p \in Path, Edit(p) PROVE AsAsked'
  BY <1>1, <1>2 DEF Edit
<1>3. ASSUME NEW e \in Editor, NEW p \in Path, Invalidate(e, p) PROVE AsAsked'
  BY <1>1, <1>3 DEF Invalidate
<1>4. ASSUME NEW e \in Editor, EditorStep(e) PROVE AsAsked'
  BY <1>1, <1>4 DEF EditorStep, DropLeaf, DropAgg
<1>5. ASSUME NEW r \in Reader, NEW S, NEW pc, NEW cur, Start(r, S, pc, cur),
             cur # None => cur \in S, pc = "agg" => S = Path
      PROVE  AsAsked'
  <2>1. /\ reader'[r].scope = S /\ reader'[r].pc = pc /\ reader'[r].cur = cur
        /\ reader'[r].aggRef = None /\ reader'[r].got = Zero
        /\ \A s \in Reader \ {r} : reader'[s] = reader[s]
    BY <1>5 DEF Start, Idle, TInv, TypeOK
  <2>2. \A p \in Path \ S : Zero[p] = 0
    BY DEF Zero
  <2> QED
    BY <1>5, <2>1, <2>2, AskedBy
<1>6. ASSUME NEW r \in Reader, LeafLoad(r) PROVE AsAsked'
  BY <1>6, LeafLoadMoves, AskedStays
<1>7. ASSUME NEW r \in Reader, LeafHit(r) PROVE AsAsked'
  <2>1. AfterValue(r) # "agg"
    BY DEF AfterValue
  <2> QED
    BY <1>7, <2>1, LeafHitMoves, AskedGets
<1>8. ASSUME NEW r \in Reader, LeafLock(r) PROVE AsAsked'
  BY <1>8, LeafLockMoves, AskedStays
<1>9. ASSUME NEW r \in Reader, LeafRead(r) PROVE AsAsked'
  BY <1>9, LeafReadMoves, AskedStays
<1>10. ASSUME NEW r \in Reader, LeafStore(r) PROVE AsAsked'
  <2>1. AfterValue(r) # "agg"
    BY DEF AfterValue
  <2> QED
    BY <1>10, <2>1, LeafStoreMoves, AskedGets
<1>11. ASSUME NEW r \in Reader, AggLoad(r) PROVE AsAsked'
  <2>1. /\ reader[r].pc = "agg" /\ reader'[r].cur = reader[r].cur
        /\ reader'[r].scope = reader[r].scope /\ reader'[r].got = reader[r].got
        /\ \A s \in Reader \ {r} : reader'[s] = reader[s]
    BY <1>11, AggLoadMoves DEF Moved
  <2>2. /\ reader[r].scope = Path
        /\ reader[r].cur # None => reader[r].cur \in reader[r].scope
    BY <2>1 DEF AsAsked
  <2> QED
    BY <2>1, <2>2, AskedBy
<1>12. ASSUME NEW r \in Reader, AggHit(r) PROVE AsAsked'
  <2>1. /\ reader[r].aggRef # None /\ reader'[r].cur = reader[r].cur
        /\ reader'[r].scope = reader[r].scope
        /\ \A s \in Reader \ {r} : reader'[s] = reader[s]
    BY <1>12, AggHitMoves, ConstantsAssumption DEF Moved
  <2>2. /\ reader[r].scope = Path
        /\ reader[r].cur # None => reader[r].cur \in reader[r].scope
    BY <2>1 DEF AsAsked
  <2> QED
    BY <2>1, <2>2, AskedBy
<1>13. ASSUME NEW r \in Reader, AggLock(r) PROVE AsAsked'
  BY <1>13, AggLockMoves, AskedStays
<1>14. ASSUME NEW r \in Reader, NEW p \in Path, AggNext(r, p) PROVE AsAsked'
  <2>1. /\ reader[r].aggRef # None /\ reader'[r].aggRef = reader[r].aggRef
        /\ reader'[r].cur = p /\ reader'[r].pc # "agg" /\ reader'[r].got = reader[r].got
        /\ reader'[r].scope = reader[r].scope
        /\ \A s \in Reader \ {r} : reader'[s] = reader[s]
    BY <1>14, AggNextMoves, ConstantsAssumption DEF Moved
  <2>2. reader[r].scope = Path
    BY <2>1 DEF AsAsked
  <2> QED
    BY <2>1, <2>2, AskedBy
<1>15. ASSUME NEW r \in Reader, AggStore(r) PROVE AsAsked'
  <2>1. /\ reader'[r].cur = reader[r].cur /\ reader'[r].scope = reader[r].scope
        /\ reader'[r].aggRef = None /\ reader'[r].pc # "agg"
        /\ reader'[r].got = reader[r].got
        /\ \A s \in Reader \ {r} : reader'[s] = reader[s]
    BY <1>15, AggStoreMoves DEF Moved
  <2>2. /\ reader[r].cur # None => reader[r].cur \in reader[r].scope
        /\ \A p \in Path \ reader[r].scope : reader[r].got[p] = 0
    BY DEF AsAsked
  <2> QED
    BY <2>1, <2>2, AskedBy
<1>16. ASSUME NEW r \in Reader, Finish(r) PROVE AsAsked'
  <2>1. /\ reader'[r].cur = None /\ reader'[r].aggRef = None /\ reader'[r].pc # "agg"
        /\ reader'[r].got = Zero /\ \A s \in Reader \ {r} : reader'[s] = reader[s]
    BY <1>16 DEF Finish, Idle, TInv, TypeOK
  <2>2. \A p \in Path : Zero[p] = 0
    BY DEF Zero
  <2> QED
    BY <2>1, <2>2, AskedBy
<1>17. CASE UNCHANGED vars
  BY <1>1, <1>17 DEF vars
<1>18. ASSUME NEW r \in Reader, NEW p \in Path, ReadFile(r, p) PROVE AsAsked'
  BY <1>5, <1>18 DEF ReadFile
<1>19. ASSUME NEW r \in Reader, ReadCorpus(r) PROVE AsAsked'
  BY <1>5, <1>19 DEF ReadCorpus
<1> QED
  BY <1>2, <1>3, <1>4, <1>6, <1>7, <1>8, <1>9, <1>10, <1>11, <1>12, <1>13, <1>14,
     <1>15, <1>16, <1>17, <1>18, <1>19 DEF Next, ReaderStep

(* What FreshReads sees of a goroutine.                                    *)
BarOf(rec) ==
  [st |-> IF rec.pc \in {"idle", "done"} THEN rec.pc ELSE "busy",
   scope |-> rec.scope,
   from |-> rec.from,
   got |-> IF rec.pc = "done" THEN rec.got ELSE Zero]

LEMMA BarMoves ==
  ASSUME NEW r \in Reader, \A s \in Reader \ {r} : reader'[s] = reader[s]
  PROVE  /\ reqBar[r] = BarOf(reader[r])
         /\ reqBar' = [reqBar EXCEPT ![r] = BarOf(reader'[r])]
BY DEF reqBar, BarOf

LEMMA BarStays == reader' = reader => reqBar' = reqBar
BY DEF reqBar

(* A step of r on the way to an answer is none of FreshReads.              *)
LEMMA BusyMaps ==
  ASSUME NEW r \in Reader, NEW pc, NEW todo, NEW cur, NEW ref, NEW aggRef, NEW seen,
         NEW got, Moved(r, pc, todo, cur, ref, aggRef, seen, got),
         reader[r].pc \notin {"idle", "done"}, pc \notin {"idle", "done"},
         UNCHANGED <<disk, floor>>
  PROVE  UNCHANGED Promise!vars
<1>1. BarOf(reader'[r]) = BarOf(reader[r])
  BY DEF Moved, BarOf
<1>2. reqBar' = reqBar
  BY <1>1, BarMoves DEF Moved, reqBar
<1> QED
  BY <1>2 DEF Promise!vars

(* One that ends in an answer is an Answer.                                *)
LEMMA AnswerMaps ==
  ASSUME NEW r \in Reader, NEW todo, NEW cur, NEW ref, NEW aggRef, NEW seen,
         NEW got, Moved(r, "done", todo, cur, ref, aggRef, seen, got),
         reader[r].pc \notin {"idle", "done"}, UNCHANGED <<disk, floor>>,
         TypeOK', Written', AsAsked', FreshReader(r)'
  PROVE  Promise!Answer(r)
<1>1. /\ reader'[r].pc = "done" /\ reader'[r].got = got
      /\ reader'[r].scope = reader[r].scope /\ reader'[r].from = reader[r].from
      /\ reqBar[r] = BarOf(reader[r]) /\ reqBar' = [reqBar EXCEPT ![r] = BarOf(reader'[r])]
  BY BarMoves DEF Moved
<1>2. got \in Vers /\ reader[r].scope \in SUBSET Path
  BY <1>1 DEF TypeOK, ReaderRec
<1>3. /\ \A p \in Path : got[p] <= disk[p] /\ got[p] >= reader[r].from[p]
      /\ \A p \in Path \ reader[r].scope : got[p] = 0
  BY <1>1 DEF Written, AsAsked, FreshReader
<1>4. /\ BarOf(reader[r]) = [st |-> "busy", scope |-> reader[r].scope,
                             from |-> reader[r].from, got |-> Zero]
      /\ BarOf(reader'[r]) = [st |-> "done", scope |-> reader[r].scope,
                              from |-> reader[r].from, got |-> got]
  BY <1>1 DEF BarOf
<1>5. reqBar' = [reqBar EXCEPT ![r].st = "done", ![r].got = got]
  BY <1>1, <1>4 DEF reqBar
<1>6. /\ reqBar[r].st = "busy" /\ reqBar[r].scope = reader[r].scope
      /\ reqBar[r].from = reader[r].from
  BY <1>1, <1>4
<1>7. got \in [Path -> 0..MaxVer]
  BY <1>2 DEF Vers, Ver
<1>8. \A p \in reqBar[r].scope : reqBar[r].from[p] <= got[p] /\ got[p] <= disk[p]
  <2> SUFFICES ASSUME NEW p \in reader[r].scope
               PROVE  reader[r].from[p] <= got[p] /\ got[p] <= disk[p]
    BY <1>6
  <2>1. p \in Path
    BY <1>2
  <2> QED
    BY <1>3, <2>1
<1> QED
  BY <1>3, <1>5, <1>6, <1>7, <1>8 DEF Promise!Answer, Promise!Ver

(* A lookup that begins asks for its scope.                                *)
LEMMA StartMaps ==
  ASSUME TInv, NEW r \in Reader, NEW S \in SUBSET Path, NEW pc, NEW cur,
         Start(r, S, pc, cur), pc \in {"leaf", "agg"}
  PROVE  Promise!Next
<1>1. /\ reqBar[r] = BarOf(reader[r]) /\ reqBar' = [reqBar EXCEPT ![r] = BarOf(reader'[r])]
      /\ UNCHANGED <<disk, floor>>
  BY StartMoves, BarMoves
<1>2. reqBar[r].st = "idle"
  BY <1>1 DEF Start, BarOf
<1>3. BarOf(reader'[r]) = [st |-> "busy", scope |-> S,
                           from |-> [p \in Path |-> IF p \in S THEN floor[p] ELSE 0],
                           got |-> Zero]
  BY DEF Start, Idle, BarOf, TInv, TypeOK
<1>4. Promise!Ask(r, S)
  BY <1>1, <1>2, <1>3 DEF Promise!Ask, Promise!NoReq, Zero
<1> QED
  BY <1>4 DEF Promise!Next

PInv == IInv /\ Written /\ AsAsked

LEMMA PInvNext == ~Snapshots /\ PInv /\ [Next]_vars => PInv'
BY TInvNext, BoundsNext, RolesNext, FresherNext, WrittenNext, AsAskedNext
DEF PInv, IInv, TInv

(* Every step is one of FreshReads: an edit, the return of an Invalidate,   *)
(* a question, an answer, its end, or nothing.                             *)
LEMMA StepsMap ==
  ~Snapshots /\ PInv /\ [Next]_vars => [Promise!Next]_(Promise!vars)
<1> SUFFICES ASSUME ~Snapshots, PInv, [Next]_vars PROVE [Promise!Next]_(Promise!vars)
  OBVIOUS
<1>a. TInv /\ Bounds
  BY DEF PInv, IInv, TInv
<1>b. TypeOK' /\ Written' /\ AsAsked' /\ \A r \in Reader : FreshReader(r)'
  BY PInvNext DEF PInv, IInv, Fresher
<1>1. ASSUME NEW p \in Path, Edit(p) PROVE [Promise!Next]_(Promise!vars)
  <2>1. Promise!Edit(p)
    BY <1>1, BarStays DEF Edit, Promise!Edit
  <2> QED
    BY <2>1 DEF Promise!Next
<1>2. ASSUME NEW e \in Editor, NEW p \in Path, Invalidate(e, p)
      PROVE  [Promise!Next]_(Promise!vars)
  BY <1>2, BarStays DEF Invalidate, Promise!vars
<1>3. ASSUME NEW e \in Editor, DropLeaf(e) PROVE [Promise!Next]_(Promise!vars)
  BY <1>3, BarStays DEF DropLeaf, Promise!vars
<1>4. ASSUME NEW e \in Editor, DropAgg(e) PROVE [Promise!Next]_(Promise!vars)
  <2> DEFINE p == editor[e].path
             v == IF floor[p] < editor[e].ver THEN editor[e].ver ELSE floor[p]
  <2>1. p \in Path /\ editor[e].ver <= disk[p]
    BY <1>4, <1>a DEF DropAgg, Bounds
  <2>2. v \in floor[p]..disk[p]
    <3>1. /\ floor[p] \in Nat /\ disk[p] \in Nat /\ editor[e].ver \in Nat
          /\ floor[p] <= disk[p]
      BY <1>a, <2>1, NatFacts DEF Bounds
    <3> QED
      BY <2>1, <3>1
  <2>3. UNCHANGED <<disk, reqBar>> /\ floor' = [floor EXCEPT ![p] = v]
    BY <1>4, BarStays DEF DropAgg
  <2>4. Promise!Vouch(p)
    BY <2>2, <2>3 DEF Promise!Vouch
  <2> QED
    BY <2>1, <2>4 DEF Promise!Next
<1>5. ASSUME NEW r \in Reader, NEW p \in Path, ReadFile(r, p)
      PROVE  [Promise!Next]_(Promise!vars)
  <2>1. Start(r, {p}, "leaf", p)
    BY <1>5 DEF ReadFile
  <2> QED
    BY <1>a, <2>1, StartMaps
<1>6. ASSUME NEW r \in Reader, ReadCorpus(r) PROVE [Promise!Next]_(Promise!vars)
  <2>1. Start(r, Path, "agg", None)
    BY <1>6 DEF ReadCorpus
  <2> QED
    BY <1>a, <2>1, StartMaps
<1>7. ASSUME NEW r \in Reader, LeafLoad(r) PROVE [Promise!Next]_(Promise!vars)
  BY <1>a, <1>7, LeafLoadMoves, BusyMaps
<1>8. ASSUME NEW r \in Reader, LeafHit(r) PROVE [Promise!Next]_(Promise!vars)
  <2>1. CASE reader[r].aggRef = None
    <3>1. AfterValue(r) = "done"
      BY <2>1 DEF AfterValue
    <3> DEFINE v == entry[reader[r].ref].val[reader[r].cur]
    <3>2. /\ Moved(r, AfterValue(r), reader[r].todo \ {reader[r].cur}, None, None,
                   reader[r].aggRef, 0, [reader[r].got EXCEPT ![reader[r].cur] = v])
          /\ reader[r].pc \notin {"idle", "done"} /\ UNCHANGED <<disk, floor>>
      BY <1>a, <1>8, LeafHitMoves
    <3>3. Moved(r, "done", reader[r].todo \ {reader[r].cur}, None, None,
                reader[r].aggRef, 0, [reader[r].got EXCEPT ![reader[r].cur] = v])
      BY <3>1, <3>2
    <3> HIDE DEF v
    <3>4. Promise!Answer(r)
      BY <1>b, <3>2, <3>3, AnswerMaps
    <3> QED
      BY <3>4 DEF Promise!Next
  <2>2. CASE reader[r].aggRef # None
    <3>1. AfterValue(r) \notin {"idle", "done"}
      BY <2>2 DEF AfterValue
    <3> QED
      BY <1>a, <1>8, <3>1, LeafHitMoves, BusyMaps
  <2> QED
    BY <2>1, <2>2
<1>9. ASSUME NEW r \in Reader, LeafLock(r) PROVE [Promise!Next]_(Promise!vars)
  BY <1>a, <1>9, LeafLockMoves, BusyMaps
<1>10. ASSUME NEW r \in Reader, LeafRead(r) PROVE [Promise!Next]_(Promise!vars)
  BY <1>a, <1>10, LeafReadMoves, BusyMaps
<1>11. ASSUME NEW r \in Reader, LeafStore(r) PROVE [Promise!Next]_(Promise!vars)
  <2>1. CASE reader[r].aggRef = None
    <3>1. AfterValue(r) = "done"
      BY <2>1 DEF AfterValue
    <3>2. /\ Moved(r, AfterValue(r), reader[r].todo \ {reader[r].cur}, None, None,
                   reader[r].aggRef, 0,
                   [reader[r].got EXCEPT ![reader[r].cur] = reader[r].seen])
          /\ reader[r].pc \notin {"idle", "done"} /\ UNCHANGED <<disk, floor>>
      BY <1>a, <1>11, LeafStoreMoves
    <3>3. Moved(r, "done", reader[r].todo \ {reader[r].cur}, None, None,
                reader[r].aggRef, 0,
                [reader[r].got EXCEPT ![reader[r].cur] = reader[r].seen])
      BY <3>1, <3>2
    <3>4. Promise!Answer(r)
      BY <1>b, <3>2, <3>3, AnswerMaps
    <3> QED
      BY <3>4 DEF Promise!Next
  <2>2. CASE reader[r].aggRef # None
    <3>1. AfterValue(r) \notin {"idle", "done"}
      BY <2>2 DEF AfterValue
    <3> QED
      BY <1>a, <1>11, <3>1, LeafStoreMoves, BusyMaps
  <2> QED
    BY <2>1, <2>2
<1>12. ASSUME NEW r \in Reader, AggLoad(r) PROVE [Promise!Next]_(Promise!vars)
  BY <1>a, <1>12, AggLoadMoves, BusyMaps
<1>13. ASSUME NEW r \in Reader, AggHit(r) PROVE [Promise!Next]_(Promise!vars)
  <2>1. Promise!Answer(r)
    BY <1>a, <1>b, <1>13, AggHitMoves, AnswerMaps
  <2> QED
    BY <2>1 DEF Promise!Next
<1>14. ASSUME NEW r \in Reader, AggLock(r) PROVE [Promise!Next]_(Promise!vars)
  BY <1>a, <1>14, AggLockMoves, BusyMaps
<1>15. ASSUME NEW r \in Reader, NEW p \in Path, AggNext(r, p)
      PROVE  [Promise!Next]_(Promise!vars)
  BY <1>a, <1>15, AggNextMoves, BusyMaps
<1>16. ASSUME NEW r \in Reader, AggStore(r) PROVE [Promise!Next]_(Promise!vars)
  <2>1. Promise!Answer(r)
    BY <1>a, <1>b, <1>16, AggStoreMoves, AnswerMaps
  <2> QED
    BY <2>1 DEF Promise!Next
<1>17. ASSUME NEW r \in Reader, Finish(r) PROVE [Promise!Next]_(Promise!vars)
  <2>1. /\ reqBar[r] = BarOf(reader[r])
        /\ reqBar' = [reqBar EXCEPT ![r] = BarOf(reader'[r])]
        /\ UNCHANGED <<disk, floor>>
    BY <1>a, <1>17, FinishMoves, BarMoves
  <2>2. reqBar[r].st = "done"
    BY <1>17, <2>1 DEF Finish, BarOf
  <2>3. BarOf(reader'[r]) = Promise!NoReq
    BY <1>a, <1>17 DEF Finish, BarOf, Idle, Zero, Promise!NoReq, TInv, TypeOK
  <2>4. Promise!Leave(r)
    BY <2>1, <2>2, <2>3 DEF Promise!Leave
  <2> QED
    BY <2>4 DEF Promise!Next
<1>18. CASE UNCHANGED vars
  BY <1>18, BarStays DEF vars, Promise!vars
<1> QED
  BY <1>1, <1>2, <1>3, <1>4, <1>5, <1>6, <1>7, <1>8, <1>9, <1>10, <1>11, <1>12,
     <1>13, <1>14, <1>15, <1>16, <1>17, <1>18 DEF Next, ReaderStep, EditorStep

LEMMA InitMaps == Init => PInv /\ Promise!Init
<1> SUFFICES ASSUME Init PROVE PInv /\ Promise!Init
  OBVIOUS
<1>1. IInv
  BY InitIInv
<1>2. /\ \A r \in Reader : reader[r] = Idle
      /\ \A x \in Entry : entry[x].val = Zero
  BY DEF Init
<1>3. Written
  BY <1>1, <1>2, ZeroWritten DEF IInv, TInv, Written, Idle
<1>4. AsAsked
  BY <1>2 DEF AsAsked, Idle, Zero
<1>5. reqBar = [r \in Reader |-> Promise!NoReq]
  <2>1. BarOf(Idle) = Promise!NoReq
    BY DEF BarOf, Idle, Zero, Promise!NoReq
  <2>2. reqBar = [r \in Reader |-> BarOf(reader[r])]
    BY DEF reqBar, BarOf
  <2> QED
    BY <1>2, <2>1, <2>2
<1> QED
  BY <1>1, <1>3, <1>4, <1>5 DEF PInv, Init, Zero, Promise!Init

(* The run cache implements FreshReads, when builds read the files as they *)
(* are: whoever asks is answered, for what was asked alone, with versions   *)
(* that were written and are no older than what the Invalidates that had   *)
(* returned vouch for.                                                     *)
THEOREM FreshReadsImplemented == ASSUME ~Snapshots PROVE Spec => ImplementsFreshReads
<1>1. PInv /\ [Next]_vars => PInv'
  BY PInvNext
<1>2. PInv /\ [Next]_vars => [Promise!Next]_(Promise!vars)
  BY StepsMap
<1> QED
  BY InitMaps, <1>1, <1>2, PTL DEF Spec, ImplementsFreshReads, Promise!Spec
=============================================================================
