----------------------------- MODULE FreshReads -----------------------------
(***************************************************************************)
(* What a read cache with invalidation promises, without the cache.  Files *)
(* are edited; an invalidation of a file returns and from then on vouches  *)
(* for a version of it; a read that begins later answers, for each file    *)
(* it looked at, with that version or a newer one, and never with one that *)
(* has not been written.                                                   *)
(***************************************************************************)
EXTENDS Naturals

CONSTANTS
  Path,    \* absolute paths
  Reader,  \* goroutines that read through the cache
  MaxVer   \* bound on the versions of a file

VARIABLES
  disk,    \* the current version of each file
  floor,   \* the version each file's last invalidation vouched for
  req      \* what each reader asked, from when, and what it was answered

vars == <<disk, floor, req>>

Ver == 0..MaxVer

NoReq == [st |-> "idle", scope |-> {}, from |-> [p \in Path |-> 0],
          got |-> [p \in Path |-> 0]]

Init ==
  /\ disk = [p \in Path |-> 0]
  /\ floor = [p \in Path |-> 0]
  /\ req = [r \in Reader |-> NoReq]

Edit(p) ==
  /\ disk[p] < MaxVer
  /\ disk' = [disk EXCEPT ![p] = @ + 1]
  /\ UNCHANGED <<floor, req>>

(* An invalidation returns: it vouches for a version at least as new as    *)
(* any vouched for before, and that was written.                           *)
Vouch(p) ==
  /\ \E v \in floor[p]..disk[p] : floor' = [floor EXCEPT ![p] = v]
  /\ UNCHANGED <<disk, req>>

Ask(r, S) ==
  /\ req[r].st = "idle"
  /\ req' = [req EXCEPT ![r] =
       [NoReq EXCEPT !.st = "busy", !.scope = S,
                     !.from = [p \in Path |-> IF p \in S THEN floor[p] ELSE 0]]]
  /\ UNCHANGED <<disk, floor>>

Answer(r) ==
  /\ req[r].st = "busy"
  /\ \E got \in [Path -> Ver] :
       /\ \A p \in req[r].scope : req[r].from[p] <= got[p] /\ got[p] <= disk[p]
       /\ \A p \in Path \ req[r].scope : got[p] = 0
       /\ req' = [req EXCEPT ![r].st = "done", ![r].got = got]
  /\ UNCHANGED <<disk, floor>>

Leave(r) ==
  /\ req[r].st = "done"
  /\ req' = [req EXCEPT ![r] = NoReq]
  /\ UNCHANGED <<disk, floor>>

Next ==
  \/ \E p \in Path : Edit(p) \/ Vouch(p)
  \/ \E r \in Reader : \/ \E S \in SUBSET Path : Ask(r, S)
                       \/ Answer(r)
                       \/ Leave(r)

Spec == Init /\ [][Next]_vars
=============================================================================
