----------------------------- MODULE ParseCache -----------------------------
(***************************************************************************)
(* lint.ParseCache: the parse of one document, keyed by the version of its *)
(* text, with the watermark an Invalidate leaves behind.  Every operation  *)
(* runs under the cache's mutex, so each is a function of the path's slot. *)
(***************************************************************************)
EXTENDS Naturals

CONSTANT None \* no parse

(* The slot of a path nobody has put a parse for.                          *)
NoSlot == [held |-> FALSE, version |-> 0, file |-> None, min |-> 0]

SlotRec(File, V) ==
  [held : BOOLEAN, version : V, file : File \cup {None}, min : V]

Get(slot, version) ==
  IF slot.held /\ slot.version = version THEN slot.file ELSE None

(* Mutant: the watermark is not consulted.                                 *)
Put_NoWatermark(slot, version, file) ==
  [held |-> TRUE, version |-> version, file |-> file, min |-> version]

Put(slot, version, file) ==
  IF slot.held /\ version < slot.min THEN slot
  ELSE [held |-> TRUE, version |-> version, file |-> file, min |-> version]

(* Mutant: the parse stays.                                                *)
Clear_Keeps(slot) ==
  IF slot.held THEN [slot EXCEPT !.min = slot.version + 1] ELSE slot

(* Mutant: the watermark is one too high.                                  *)
Clear_TooHigh(slot) ==
  IF slot.held
  THEN [slot EXCEPT !.file = None, !.min = slot.version + 2]
  ELSE slot

(* Invalidate: a tombstone that accepts newer versions only; a path that   *)
(* has no slot gets none.                                                  *)
Clear(slot) ==
  IF slot.held
  THEN [slot EXCEPT !.file = None, !.min = slot.version + 1]
  ELSE slot
=============================================================================
