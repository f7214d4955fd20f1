------------------------------ MODULE NewestWins ------------------------------
(***************************************************************************)
(* What the workspace singleton promises: servers claim the workspace one  *)
(* after another, each once, and only a server that another has claimed    *)
(* after steps aside.                                                      *)
(***************************************************************************)
EXTENDS Sequences, SequencesExt

CONSTANT Server

VARIABLES
  claims, \* the servers that claimed, in order
  aside   \* those that stepped aside

vars == <<claims, aside>>

Init ==
  /\ claims = <<>>
  /\ aside = {}

Claim(s) ==
  /\ s \notin ToSet(claims)
  /\ claims' = Append(claims, s)
  /\ UNCHANGED aside

StepAside(s) ==
  /\ s \in ToSet(Front(claims))
  /\ aside' = aside \cup {s}
  /\ UNCHANGED claims

Next == \E s \in Server : Claim(s) \/ StepAside(s)

Spec == Init /\ [][Next]_vars
=============================================================================
