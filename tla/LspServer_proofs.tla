--------------------------- MODULE LspServer_proofs ---------------------------
(***************************************************************************)
(* What the language server keeps true, as a process that takes over from  *)
(* another and as the keeper of a session.  HandOver, for any hosts,        *)
(* servers, restarts and troubles: its types, that the newest claimant     *)
(* stays, and that hand-overs start no server.  LspSession, for any        *)
(* goroutines, documents, roots and names: its types, that a rebuild which *)
(* runs alone leaves the session of the configuration in force, and that   *)
(* only a handler which overlapped a rebuild can leave a wrong overlay.    *)
(***************************************************************************)
EXTENDS HandOver, LspSession, SequenceTheorems, FiniteSetTheorems, TLAPS

-----------------------------------------------------------------------------
(* Types.                                                                  *)

(* A new client is a client record, a started server a server record.       *)
LEMMA StartedIsTyped ==
  ASSUME NEW h \in Host, NEW s \in Server \cup {None}
  PROVE  /\ NewClient(s) \in ClientRec
         /\ Started(s, h) \in ServerRec
         /\ Started(s, h).pc = "new"
BY DEF NewClient, ClientRec, Started, NoServer, ServerRec

LEMMA InitTyped == Init => TypeOK
<1> SUFFICES ASSUME Init PROVE TypeOK
  OBVIOUS
<1>1. \A h \in Host : NewClient(None) \in ClientRec
  BY StartedIsTyped
<1>2. NoServer \in ServerRec
  BY DEF NoServer, ServerRec
<1>3. claims \in Seq(Server)
  BY EmptySeq DEF Init
<1> QED BY <1>1, <1>2, <1>3 DEF Init, TypeOK

(* What an editor host and its client do.                                  *)
EditorStep(h) ==
  \/ \E s \in Server : Open(h, s) \/ ManualRestart(h, s)
  \/ Close(h) \/ HostDies(h) \/ Forget(h) \/ ClientStep(h)

(* What a server does but for claiming and stepping aside.                 *)
OtherStep(s) ==
  \/ Initialize(s) \/ Tell(s) \/ Exit(s) \/ Orphaned(s)
  \/ ClaimFails(s) \/ Crash(s)

(* What the editor does keeps the types.                                   *)
LEMMA EditorKeepsTypes ==
  ASSUME TypeOK, NEW h \in Host, EditorStep(h)
  PROVE  TypeOK'
<1>1. ASSUME NEW s \in Server, Open(h, s) PROVE TypeOK'
  <2>1. NewClient(s) \in ClientRec /\ Started(s, h) \in ServerRec
    BY StartedIsTyped
  <2> QED BY <1>1, <2>1 DEF Open, TypeOK
<1>2. ASSUME NEW s \in Server, ManualRestart(h, s) PROVE TypeOK'
  <2>1. NewClient(s) \in ClientRec /\ Started(s, h) \in ServerRec
    BY StartedIsTyped
  <2>2. \A t \in Server : [server[t] EXCEPT !.pc = "gone"] \in ServerRec
    BY DEF TypeOK, ServerRec
  <2>3. server' \in [Server -> ServerRec]
    BY <1>2, <2>1, <2>2 DEF ManualRestart, TypeOK
  <2> QED BY <1>2, <2>1, <2>3 DEF ManualRestart, TypeOK
<1>3. CASE Close(h)
  BY <1>3 DEF Close, TypeOK
<1>4. CASE HostDies(h)
  BY <1>4 DEF HostDies, TypeOK
<1>5. CASE Forget(h)
  <2>1. client[h] \in ClientRec
    BY DEF TypeOK
  <2>2. client[h].restarts - 1 \in Nat
    BY <1>5, <2>1 DEF Forget, ClientRec
  <2>3. [client[h] EXCEPT !.restarts = @ - 1] \in ClientRec
    BY <2>1, <2>2 DEF ClientRec
  <2>4. client' = [client EXCEPT ![h] = [client[h] EXCEPT !.restarts = @ - 1]]
    BY <1>5 DEF Forget, TypeOK
  <2>5. client' \in [Host -> ClientRec]
    BY <2>3, <2>4 DEF TypeOK
  <2> QED BY <1>5, <2>5 DEF Forget, TypeOK
<1>6. CASE Superseded(h)
  <2> DEFINE s == client[h].server
  <2>1. s \in Server
    BY <1>6 DEF Superseded, TypeOK, ClientRec
  <2>2. server' = [server EXCEPT ![s].told = FALSE]
    BY <1>6 DEF Superseded
  <2>3. server' \in [Server -> ServerRec]
    BY <2>1, <2>2 DEF TypeOK, ServerRec
  <2>4. client' \in [Host -> ClientRec]
    BY <1>6 DEF Superseded, TypeOK, ClientRec
  <2> QED BY <1>6, <2>3, <2>4 DEF Superseded, TypeOK
<1>7. CASE GiveUp(h)
  <2>1. client' \in [Host -> ClientRec]
    BY <1>7 DEF GiveUp, TypeOK, ClientRec
  <2> QED BY <1>7, <2>1 DEF GiveUp, TypeOK
<1>8. ASSUME NEW t \in Server, Restart(h, t) PROVE TypeOK'
  <2>1. client' \in [Host -> ClientRec]
    BY <1>8 DEF Restart, TypeOK, ClientRec
  <2> QED BY <1>8, <2>1, StartedIsTyped DEF Restart, TypeOK
<1> QED
  BY <1>1, <1>2, <1>3, <1>4, <1>5, <1>6, <1>7, <1>8 DEF EditorStep, ClientStep

(* What a server does, or what happens to it, keeps the types.             *)
LEMMA ServerKeepsTypes ==
  ASSUME TypeOK, NEW s \in Server, ServerStep(s) \/ ClaimFails(s) \/ Crash(s)
  PROVE  TypeOK'
<1>1. CASE Initialize(s)
  BY <1>1 DEF Initialize, TmpOf, TypeOK, ServerRec
<1>2. CASE Claim(s)
  <2>1. server' \in [Server -> ServerRec]
    BY <1>2 DEF Claim, TypeOK, ServerRec
  <2>2. claims' \in Seq(Server)
    BY <1>2, AppendProperties DEF Claim, TypeOK
  <2> QED BY <1>2, <2>1, <2>2 DEF Claim, TmpOf, TypeOK
<1>3. CASE Poll(s)
  BY <1>3 DEF Poll, TypeOK, ServerRec
<1>4. CASE Tell(s)
  BY <1>4 DEF Tell, TypeOK, ServerRec
<1>5. CASE Exit(s)
  BY <1>5 DEF Exit, TypeOK, ServerRec
<1>6. CASE Orphaned(s)
  BY <1>6 DEF Orphaned, TypeOK, ServerRec
<1>7. CASE ClaimFails(s)
  BY <1>7 DEF ClaimFails, Trouble, TmpOf, TypeOK, ServerRec
<1>8. CASE Crash(s)
  BY <1>8 DEF Crash, Trouble, TypeOK, ServerRec
<1> QED BY <1>1, <1>2, <1>3, <1>4, <1>5, <1>6, <1>7, <1>8 DEF ServerStep

LEMMA TypesKept == TypeOK /\ [Next]_vars => TypeOK'
<1> SUFFICES ASSUME TypeOK, [Next]_vars PROVE TypeOK'
  OBVIOUS
<1>1. CASE Wipe
  BY <1>1 DEF Wipe, Trouble, TypeOK
<1>2. CASE UNCHANGED vars
  BY <1>2 DEF vars, TypeOK
<1> QED BY <1>1, <1>2, EditorKeepsTypes, ServerKeepsTypes DEF Next, EditorStep

(* The variables always have their types.                                  *)
THEOREM TypeCorrect == Spec => []TypeOK
BY InitTyped, TypesKept, PTL DEF Spec

-----------------------------------------------------------------------------
(* The newest claimant stays.                                              *)

(* A temporary file holds the id of the server it is named after.          *)
TmpIsOwn == \A s \in Server : tmp[s] \in {s, None}

(* A server that has not claimed yet has no claim.                         *)
UnclaimedHaveNone ==
  \A s \in Server :
    server[s].pc \in {"none", "new", "claim"} => s \notin ToSet(claims)

(* A server that polls has claimed.                                        *)
WatchersClaimed == \A s \in Server : server[s].pc = "watch" => s \in ToSet(claims)

(* The owner in the registry is the last to have claimed.                  *)
OwnerIsLast == owner # None => claims # <<>> /\ owner = claims[Len(claims)]

ClaimInv ==
  /\ TypeOK
  /\ TmpIsOwn
  /\ UnclaimedHaveNone
  /\ WatchersClaimed
  /\ OwnerIsLast

(* The members of a sequence with one more element.                        *)
LEMMA ToSetAppend ==
  ASSUME NEW S, NEW q \in Seq(S), NEW e \in S
  PROVE  ToSet(Append(q, e)) = ToSet(q) \cup {e}
<1>1. /\ Len(Append(q, e)) = Len(q) + 1
      /\ \A i \in 1..Len(q) : Append(q, e)[i] = q[i]
      /\ Append(q, e)[Len(q) + 1] = e
  BY AppendProperties
<1>2. DOMAIN q = 1..Len(q) /\ Len(q) \in Nat
  BY LenProperties
<1>3. DOMAIN Append(q, e) = 1..(Len(q) + 1)
  BY <1>1, AppendProperties, LenProperties
<1> QED BY <1>1, <1>2, <1>3 DEF ToSet

(* A member that is not the last is in the front.                          *)
LEMMA NotLastIsInFront ==
  ASSUME NEW S, NEW q \in Seq(S), NEW e \in ToSet(q), e # q[Len(q)]
  PROVE  e \in ToSet(Front(q))
<1>1. DOMAIN q = 1..Len(q) /\ Len(q) \in Nat
  BY LenProperties
<1>2. PICK i \in 1..Len(q) : q[i] = e
  BY <1>1 DEF ToSet
<1>3. i \in 1..(Len(q) - 1)
  BY <1>1, <1>2
<1>4. /\ Front(q) \in Seq(S)
      /\ Len(Front(q)) = Len(q) - 1
      /\ Front(q)[i] = q[i]
  BY <1>1, <1>3, SubSeqProperties DEF Front
<1>5. i \in DOMAIN Front(q)
  BY <1>3, <1>4, LenProperties
<1> QED BY <1>2, <1>4, <1>5 DEF ToSet

LEMMA InitClaim == Init => ClaimInv
<1> SUFFICES ASSUME Init PROVE ClaimInv
  OBVIOUS
<1>1. ToSet(claims) = {}
  BY EmptySeq DEF Init, ToSet
<1> QED BY <1>1, InitTyped
  DEF Init, ClaimInv, TmpIsOwn, UnclaimedHaveNone, WatchersClaimed, OwnerIsLast,
      NoServer

(* The servers that start are new, those that stop are gone.               *)
Moves ==
  \A t \in Server :
    \/ server'[t].pc = server[t].pc
    \/ server[t].pc = "none" /\ server'[t].pc = "new"
    \/ server'[t].pc = "gone"

(* A step of the editor touches no claim, and starts servers that have     *)
(* none.                                                                   *)
LEMMA EditorKeepsClaims ==
  ASSUME ClaimInv, NEW h \in Host, EditorStep(h)
  PROVE  ClaimInv' /\ UNCHANGED <<claims, aside>>
<1>1. UNCHANGED <<tmp, owner, claims, aside>>
  BY DEF EditorStep, Open, ManualRestart, Close, HostDies, Forget, ClientStep,
         Superseded, GiveUp, Restart
<1>2. TypeOK'
  BY EditorKeepsTypes DEF ClaimInv
<1>3. Moves
  <2> USE DEF ClaimInv, TypeOK, Moves
  <2>1. ASSUME NEW s \in Server, Open(h, s) PROVE Moves
    <3>1. server[s].pc = "none" /\ server' = [server EXCEPT ![s] = Started(s, h)]
      BY <2>1 DEF Open, Unstarted
    <3> QED BY <3>1, StartedIsTyped
  <2>2. ASSUME NEW s \in Server, ManualRestart(h, s) PROVE Moves
    <3>1. server[s].pc = "none"
      BY <2>2 DEF ManualRestart, Unstarted
    <3>2. \A t \in Server :
            server'[t] \in {Started(s, h), [server[t] EXCEPT !.pc = "gone"], server[t]}
            /\ (server'[t] = Started(s, h) => t = s \/ server'[t] = server[t]
                                               \/ server'[t].pc = "gone")
      BY <2>2 DEF ManualRestart, ServerRec
    <3> QED BY <3>1, <3>2, StartedIsTyped DEF ServerRec
  <2>3. CASE Close(h) \/ HostDies(h) \/ Forget(h) \/ GiveUp(h)
    <3>1. server' = server
      BY <2>3 DEF Close, HostDies, Forget, GiveUp
    <3> QED BY <3>1
  <2>4. CASE Superseded(h)
    <3>1. PICK s \in Server : server' = [server EXCEPT ![s].told = FALSE]
      BY <2>4 DEF Superseded, ClientRec
    <3> QED BY <3>1 DEF ServerRec
  <2>5. ASSUME NEW t \in Server, Restart(h, t) PROVE Moves
    <3>1. server[t].pc = "none" /\ server' = [server EXCEPT ![t] = Started(t, h)]
      BY <2>5 DEF Restart, Unstarted
    <3> QED BY <3>1, StartedIsTyped
  <2> QED BY <2>1, <2>2, <2>3, <2>4, <2>5 DEF EditorStep, ClientStep
<1> QED BY <1>1, <1>2, <1>3
  DEF Moves, ClaimInv, TmpIsOwn, UnclaimedHaveNone, WatchersClaimed, OwnerIsLast

(* The claim of s.                                                         *)
LEMMA ClaimKeepsClaims ==
  ASSUME ClaimInv, NEW s \in Server, Claim(s)
  PROVE  ClaimInv' /\ NewestWins!Claim(s)
<1>1. TypeOK'
  BY ServerKeepsTypes DEF ClaimInv, ServerStep
<1>2. owner' = s /\ claims' = Append(claims, s) /\ UNCHANGED aside
  BY DEF Claim, TmpOf, ClaimInv, TmpIsOwn
<1>3. ToSet(claims') = ToSet(claims) \cup {s}
  BY <1>2, ToSetAppend DEF ClaimInv, TypeOK
<1>4. TmpIsOwn'
  BY DEF Claim, TmpOf, ClaimInv, TypeOK, TmpIsOwn
<1>5. /\ server'[s].pc = "watch"
      /\ \A t \in Server \ {s} : server'[t] = server[t]
  BY DEF Claim, ClaimInv, TypeOK, ServerRec
<1>6. UnclaimedHaveNone' /\ WatchersClaimed'
  BY <1>3, <1>5 DEF ClaimInv, UnclaimedHaveNone, WatchersClaimed
<1>7. OwnerIsLast'
  <2>1. claims \in Seq(Server)
    BY DEF ClaimInv, TypeOK
  <2>2. /\ Len(claims') = Len(claims) + 1
        /\ claims'[Len(claims) + 1] = s
        /\ claims' # <<>>
    BY <1>2, <2>1, AppendProperties
  <2> QED BY <1>2, <2>2 DEF OwnerIsLast
<1>8. s \notin ToSet(claims)
  BY DEF Claim, ClaimInv, UnclaimedHaveNone
<1> QED BY <1>1, <1>2, <1>4, <1>6, <1>7, <1>8 
  DEF ClaimInv, NewestWins!Claim, ToSet, NewestWins!ToSet

(* A server that steps aside has been followed by another.                 *)
LEMMA PollStepsAside ==
  ASSUME ClaimInv, NEW s \in Server, Poll(s)
  PROVE  ClaimInv' /\ NewestWins!StepAside(s)
<1>1. TypeOK'
  BY ServerKeepsTypes DEF ClaimInv, ServerStep
<1>2. s \in ToSet(claims) /\ s # claims[Len(claims)]
  BY DEF Poll, ClaimInv, WatchersClaimed, OwnerIsLast
<1>3. s \in ToSet(Front(claims))
  BY <1>2, NotLastIsInFront DEF ClaimInv, TypeOK
<1>4. /\ server'[s].pc = "leave"
      /\ \A t \in Server \ {s} : server'[t] = server[t]
      /\ UNCHANGED <<tmp, owner, claims>>
  BY DEF Poll, ClaimInv, TypeOK, ServerRec
<1>5. ClaimInv'
  BY <1>1, <1>4
  DEF ClaimInv, TmpIsOwn, UnclaimedHaveNone, WatchersClaimed, OwnerIsLast
<1> QED BY <1>3, <1>5 
  DEF Poll, NewestWins!StepAside, ToSet, NewestWins!ToSet, Front, NewestWins!Front

(* Every other step of a server leaves the claims alone, and moves it to a *)
(* stage that promises no more of them.                                    *)
LEMMA OthersKeepClaims ==
  ASSUME ClaimInv, NEW s \in Server, OtherStep(s)
  PROVE  ClaimInv' /\ UNCHANGED <<claims, aside>>
<1>1. TypeOK'
  BY ServerKeepsTypes DEF ClaimInv, OtherStep, ServerStep
<1>2. UNCHANGED <<owner, claims, aside>>
  BY DEF OtherStep, Initialize, Tell, Exit, Orphaned, ClaimFails, Crash
<1>3. TmpIsOwn'
  BY DEF OtherStep, Initialize, Tell, Exit, Orphaned, ClaimFails, Crash, TmpOf,
         ClaimInv, TypeOK, TmpIsOwn
<1>4. \A t \in Server : \/ server'[t].pc = server[t].pc
                        \/ server[t].pc = "new" /\ server'[t].pc = "claim"
                        \/ server'[t].pc \in {"free", "told", "gone"}
  <2>1. \A t \in Server \ {s} : server'[t] = server[t]
    BY DEF OtherStep, Initialize, Tell, Exit, Orphaned, ClaimFails, Crash, ClaimInv,
           TypeOK
  <2>2. server \in [Server -> ServerRec]
    BY DEF ClaimInv, TypeOK
  <2>3. CASE Initialize(s)
    BY <2>1, <2>2, <2>3 DEF Initialize, ServerRec
  <2>4. CASE Tell(s)
    BY <2>1, <2>2, <2>4 DEF Tell, ServerRec
  <2>5. CASE Exit(s) \/ Orphaned(s) \/ ClaimFails(s) \/ Crash(s)
    BY <2>1, <2>2, <2>5 DEF Exit, Orphaned, ClaimFails, Crash, ServerRec
  <2> QED BY <2>3, <2>4, <2>5 DEF OtherStep
<1>5. UnclaimedHaveNone'
  BY <1>2, <1>4 DEF ClaimInv, UnclaimedHaveNone
<1>6. WatchersClaimed'
  BY <1>2, <1>4 DEF ClaimInv, WatchersClaimed
<1>7. OwnerIsLast'
  BY <1>2 DEF ClaimInv, OwnerIsLast
<1> QED BY <1>1, <1>2, <1>3, <1>5, <1>6, <1>7 DEF ClaimInv

(* Every step keeps the invariant and is a claim, a stepping aside or       *)
(* nothing to NewestWins.                                                  *)
LEMMA StepsMap ==
  ClaimInv /\ [Next]_vars => ClaimInv' /\ [NewestWins!Next]_(NewestWins!vars)
<1> SUFFICES ASSUME ClaimInv, [Next]_vars
             PROVE  ClaimInv' /\ [NewestWins!Next]_(NewestWins!vars)
  OBVIOUS
<1>1. CASE Wipe
  <2>1. TypeOK'
    BY TypesKept DEF ClaimInv
  <2> QED BY <1>1, <2>1
    DEF Wipe, ClaimInv, TmpIsOwn, UnclaimedHaveNone, WatchersClaimed, OwnerIsLast,
        NewestWins!vars
<1>2. CASE UNCHANGED vars
  BY <1>2 DEF vars, ClaimInv, TypeOK, TmpIsOwn, UnclaimedHaveNone, WatchersClaimed,
              OwnerIsLast, NewestWins!vars
<1>3. ASSUME NEW s \in Server, ServerStep(s) \/ ClaimFails(s) \/ Crash(s)
      PROVE  ClaimInv' /\ [NewestWins!Next]_(NewestWins!vars)
  <2>1. CASE Claim(s)
    BY <2>1, ClaimKeepsClaims DEF NewestWins!Next
  <2>2. CASE Poll(s)
    BY <2>2, PollStepsAside DEF NewestWins!Next
  <2>3. CASE OtherStep(s)
    BY <2>3, OthersKeepClaims DEF NewestWins!vars
  <2> QED BY <1>3, <2>1, <2>2, <2>3 DEF ServerStep, OtherStep
<1>4. ASSUME NEW h \in Host, EditorStep(h)
      PROVE  ClaimInv' /\ [NewestWins!Next]_(NewestWins!vars)
  BY <1>4, EditorKeepsClaims DEF NewestWins!vars
<1> QED BY <1>1, <1>2, <1>3, <1>4 DEF Next, EditorStep

LEMMA InitMaps == Init => NewestWins!Init
BY DEF Init, NewestWins!Init

(* HandOver implements NewestWins: each server claims once, and only one    *)
(* that another has claimed after steps aside, whatever crashes, fails or  *)
(* is wiped.                                                               *)
THEOREM NewestStaysAlways == Spec => NewestStays
<1>1. Spec => []ClaimInv
  BY InitClaim, StepsMap, PTL DEF Spec
<1> QED BY <1>1, InitMaps, StepsMap, PTL DEF Spec, NewestStays, NewestWins!Spec

-----------------------------------------------------------------------------
(* Every start was called for.                                             *)

StartedServers == {s \in Server : server[s].pc # "none"}

(* The servers that a client may still start again: their connection has   *)
(* closed without a word, and their host reads.                            *)
OwedTo(s, h) ==
  /\ client[h].server = s
  /\ server[s].pc = "gone" /\ ~server[s].told
  /\ ~client[h].superseded
  /\ host[h] # "dead"

Owed == {s \in Server : \E h \in Host : OwedTo(s, h)}

(* A client's server was started by its host.                              *)
ClientsOwn ==
  \A h \in Host :
    client[h].server # None => /\ server[client[h].server].host = h
                               /\ server[client[h].server].pc # "none"

(* A server that has spoken is heard before its connection closes.         *)
WordIsKept ==
  \A h \in Host :
    client[h].server # None /\ server[client[h].server].pc = "told"
      => server[client[h].server].told \/ client[h].superseded

(* Whatever was started, or may be started again, was called for.          *)
CalledFor == Cardinality(StartedServers) + Cardinality(Owed) <= due

SpawnInv ==
  /\ TypeOK
  /\ ClientsOwn
  /\ WordIsKept
  /\ CalledFor

LEMMA ServersAreFinite ==
  /\ IsFiniteSet(StartedServers) /\ Cardinality(StartedServers) \in Nat
  /\ IsFiniteSet(Owed) /\ Cardinality(Owed) \in Nat
<1>1. IsFiniteSet(Server)
  BY FS_Interval, ConstantsAssumption DEF Server
<1>2. StartedServers \subseteq Server /\ Owed \subseteq Server
  BY DEF StartedServers, Owed
<1> QED BY <1>1, <1>2, FS_Subset, FS_CardinalityType

(* A part of a set with one more element.                                  *)
LEMMA CountWithOne ==
  ASSUME NEW S, IsFiniteSet(S), NEW x, NEW T, T \subseteq S \cup {x}
  PROVE  Cardinality(T) \in Nat /\ Cardinality(T) <= Cardinality(S) + 1
<1>1. /\ IsFiniteSet(S \cup {x})
      /\ Cardinality(S \cup {x}) \in {Cardinality(S), Cardinality(S) + 1}
  BY FS_AddElement
<1>2. Cardinality(S) \in Nat
  BY FS_CardinalityType
<1>3. IsFiniteSet(T) /\ Cardinality(T) <= Cardinality(S \cup {x})
  BY <1>1, FS_Subset
<1>4. Cardinality(T) \in Nat
  BY <1>3, FS_CardinalityType
<1> QED BY <1>1, <1>2, <1>3, <1>4

(* The four ways a step can move the account.                              *)
SameStarted == StartedServers' = StartedServers
OneStarted == \E s \in Server : StartedServers' = StartedServers \cup {s}

Balanced ==
  \/ SameStarted /\ Owed' \subseteq Owed /\ due' = due
  \/ OneStarted /\ Owed' \subseteq Owed /\ due' = due + 1
  \/ SameStarted /\ (\E s \in Server : Owed' \subseteq Owed \cup {s}) /\ due' = due + 1
  \/ OneStarted /\ (\E s \in Owed : Owed' \subseteq Owed \ {s}) /\ due' = due

LEMMA BalanceKeeps ==
  ASSUME TypeOK, CalledFor, Balanced
  PROVE  CalledFor'
<1>1. /\ IsFiniteSet(StartedServers) /\ Cardinality(StartedServers) \in Nat
      /\ IsFiniteSet(Owed) /\ Cardinality(Owed) \in Nat
      /\ due \in Nat
  BY ServersAreFinite DEF TypeOK
<1>2. SameStarted => Cardinality(StartedServers') = Cardinality(StartedServers)
  BY DEF SameStarted
<1>3. OneStarted => /\ Cardinality(StartedServers') \in Nat
                    /\ Cardinality(StartedServers') <= Cardinality(StartedServers) + 1
  BY <1>1, CountWithOne DEF OneStarted
<1>4. ASSUME Owed' \subseteq Owed
      PROVE  Cardinality(Owed') \in Nat /\ Cardinality(Owed') <= Cardinality(Owed)
  BY <1>1, <1>4, FS_Subset, FS_CardinalityType
<1>5. ASSUME NEW s \in Server, Owed' \subseteq Owed \cup {s}
      PROVE  /\ Cardinality(Owed') \in Nat
             /\ Cardinality(Owed') <= Cardinality(Owed) + 1
  BY <1>1, <1>5, CountWithOne
<1>6. ASSUME NEW s \in Owed, Owed' \subseteq Owed \ {s}
      PROVE  /\ Cardinality(Owed') \in Nat
             /\ Cardinality(Owed') <= Cardinality(Owed) - 1
  <2>1. IsFiniteSet(Owed \ {s}) /\ Cardinality(Owed \ {s}) = Cardinality(Owed) - 1
    BY <1>1, FS_RemoveElement
  <2> QED BY <1>6, <2>1, FS_Subset, FS_CardinalityType
<1> QED
  BY <1>1, <1>2, <1>3, <1>4, <1>5, <1>6 DEF Balanced, CalledFor

LEMMA InitSpawns == Init => SpawnInv
<1> SUFFICES ASSUME Init PROVE SpawnInv
  OBVIOUS
<1>1. StartedServers = {} /\ Owed = {}
  BY DEF Init, StartedServers, Owed, OwedTo, NoServer
<1>2. CalledFor
  BY <1>1, FS_EmptySet DEF Init, CalledFor
<1>3. ClientsOwn /\ WordIsKept
  BY DEF Init, NewClient, ClientsOwn, WordIsKept
<1> QED BY <1>2, <1>3, InitTyped DEF SpawnInv

(* A host starts a client of its own and a server for it; the one before   *)
(* is gone and its client with it.                                         *)
LEMMA NewClientKeeps ==
  ASSUME SpawnInv, NEW h \in Host, NEW s \in Server, Open(h, s) \/ ManualRestart(h, s)
  PROVE  SpawnInv'
<1> USE DEF SpawnInv, TypeOK
<1>1. TypeOK'
  BY EditorKeepsTypes DEF EditorStep
<1>2. /\ server[s].pc = "none"
      /\ client' = [client EXCEPT ![h] = NewClient(s)]
      /\ server'[s] = Started(s, h)
      /\ \A t \in Server \ {s} :
           \/ server'[t] = server[t]
           \/ t = client[h].server /\ server'[t] = [server[t] EXCEPT !.pc = "gone"]
      /\ \A g \in Host : host'[g] # "dead" => host[g] # "dead"
      /\ due' = due + 1
  BY DEF Open, ManualRestart, Unstarted
<1>3. /\ Started(s, h).pc = "new" /\ Started(s, h).host = h
      /\ NewClient(s).server = s /\ ~NewClient(s).superseded
  BY DEF Started, NoServer, NewClient
<1>4. \A t \in Server : [server[t] EXCEPT !.pc = "gone"].pc = "gone"
                       /\ [server[t] EXCEPT !.pc = "gone"].host = server[t].host
  BY DEF ServerRec
<1>5. \A g \in Host \ {h} : client'[g] = client[g] /\ client[g].server \notin {s}
                            /\ (client[g].server # None => client[g].server # client[h].server)
  <2> TAKE g \in Host \ {h}
  <2>1. client'[g] = client[g]
    BY <1>2
  <2>2. client[g].server # None =>
          server[client[g].server].host = g /\ server[client[g].server].pc # "none"
    BY DEF ClientsOwn
  <2>3. client[h].server # None => server[client[h].server].host = h
    BY DEF ClientsOwn
  <2>4. s # None
    BY ConstantsAssumption
  <2> QED BY <1>2, <2>1, <2>2, <2>3, <2>4
<1>6. \A g \in Host \ {h} : client[g].server # None =>
                            server'[client[g].server] = server[client[g].server]
  BY <1>2, <1>5 DEF ClientRec
<1>7. client'[h] = NewClient(s)
  BY <1>2
<1>8. ClientsOwn' /\ WordIsKept'
  BY <1>2, <1>3, <1>5, <1>6, <1>7 DEF ClientsOwn, WordIsKept
<1>9. OneStarted
  <2>1. \A t \in Server \ {s} : server'[t].pc # "none" <=> server[t].pc # "none"
    <3> TAKE t \in Server \ {s}
    <3>1. t # None
      BY ConstantsAssumption
    <3>2. t = client[h].server => server[t].pc # "none"
      BY <3>1 DEF ClientsOwn
    <3> QED BY <1>2, <1>4, <3>2
  <2>2. server'[s].pc # "none"
    BY <1>2, <1>3
  <2> QED BY <2>1, <2>2 DEF OneStarted, StartedServers
<1>10. Owed' \subseteq Owed
  <2> SUFFICES ASSUME NEW t \in Server, NEW g \in Host, OwedTo(t, g)'
               PROVE  OwedTo(t, g)
    BY DEF Owed
  <2>1. CASE g = h
    BY <1>2, <1>3, <1>7, <2>1 DEF OwedTo
  <2>2. CASE g # h
    BY <1>2, <1>5, <1>6, <2>2, ConstantsAssumption DEF OwedTo
  <2> QED BY <2>1, <2>2
<1>11. CalledFor'
  BY <1>2, <1>9, <1>10, BalanceKeeps DEF Balanced
<1> QED BY <1>1, <1>8, <1>11

(* A client starts the server it is owed.                                  *)
LEMMA RestartKeeps ==
  ASSUME SpawnInv, NEW h \in Host, NEW s \in Server, Restart(h, s)
  PROVE  SpawnInv'
<1> USE DEF SpawnInv, TypeOK
<1>1. TypeOK'
  BY EditorKeepsTypes DEF EditorStep, ClientStep
<1>2. /\ server[s].pc = "none"
      /\ \A g \in Host \ {h} : client'[g] = client[g]
      /\ client'[h].server = s /\ client'[h].superseded = client[h].superseded
      /\ server' = [server EXCEPT ![s] = Started(s, h)]
      /\ host' = host
      /\ due' = due
  BY DEF Restart, Unstarted, ClientRec
<1>3. PICK u \in Server : OwedTo(u, h)
  BY DEF Restart, Closed, Reads, OwedTo, ClientRec
<1>4. Started(s, h).pc = "new" /\ Started(s, h).host = h
  BY DEF Started, NoServer
<1>5. \A g \in Host \ {h} : client[g].server \notin {s, u}
  <2> TAKE g \in Host \ {h}
  <2>1. client[g].server # None =>
          server[client[g].server].host = g /\ server[client[g].server].pc # "none"
    BY DEF ClientsOwn
  <2>2. client[h].server = u
    BY <1>3 DEF OwedTo
  <2>3. s # None /\ u # None
    BY ConstantsAssumption
  <2>4. server[u].host = h
    BY <2>2, <2>3 DEF ClientsOwn
  <2> QED BY <1>2, <2>1, <2>3, <2>4
<1>6. ClientsOwn' /\ WordIsKept'
  <2>1. server'[s] = Started(s, h)
    BY <1>2
  <2>2. \A g \in Host \ {h} : client[g].server # None =>
                              server'[client[g].server] = server[client[g].server]
    BY <1>2, <1>5 DEF ClientRec
  <2>3. ClientsOwn'
    BY <1>2, <1>4, <2>1, <2>2 DEF ClientsOwn
  <2>4. WordIsKept'
    <3> SUFFICES ASSUME NEW g \in Host, client'[g].server # None,
                        server'[client'[g].server].pc = "told"
                 PROVE  server'[client'[g].server].told \/ client'[g].superseded
      BY DEF WordIsKept
    <3>1. g # h
      BY <1>2, <1>4, <2>1
    <3> QED BY <1>2, <2>2, <3>1 DEF WordIsKept
  <2> QED BY <2>3, <2>4
<1>7. OneStarted
  BY <1>2, <1>4 DEF OneStarted, StartedServers
<1>8. u \in Owed /\ Owed' \subseteq Owed \ {u}
  <2>1. u \in Owed
    BY <1>3 DEF Owed
  <2>2. ASSUME NEW t \in Server, NEW g \in Host, OwedTo(t, g)'
        PROVE  t \in Owed \ {u}
    <3>1. g # h /\ t # s
      BY <1>2, <1>4, <2>2 DEF OwedTo
    <3> QED BY <1>2, <1>5, <2>2, <3>1 DEF OwedTo, Owed
  <2> QED BY <2>1, <2>2 DEF Owed
<1>9. CalledFor'
  BY <1>2, <1>7, <1>8, BalanceKeeps DEF Balanced
<1> QED BY <1>1, <1>6, <1>9

(* A client that is told, gives up, or forgets a restart, and a window that *)
(* closes.                                                                 *)
LEMMA QuietEditorKeeps ==
  ASSUME SpawnInv, NEW h \in Host,
         Close(h) \/ HostDies(h) \/ Forget(h) \/ Superseded(h) \/ GiveUp(h)
  PROVE  SpawnInv'
<1> USE DEF SpawnInv, TypeOK
<1>1. TypeOK'
  BY EditorKeepsTypes DEF EditorStep, ClientStep
<1>2. /\ \A s \in Server : /\ server'[s].pc = server[s].pc
                           /\ server'[s].host = server[s].host
      /\ due' = due
  BY DEF Close, HostDies, Forget, Superseded, GiveUp, ServerRec, ClientRec
<1>3. \A g \in Host : /\ client'[g].server \in {client[g].server, None}
                      /\ client[g].superseded => client'[g].superseded
                      /\ host'[g] # "dead" => host[g] # "dead"
  <2>1. CASE Close(h) \/ HostDies(h)
    BY <2>1 DEF Close, HostDies
  <2>2. CASE Forget(h)
    BY <2>2 DEF Forget, ClientRec
  <2>3. CASE Superseded(h)
    BY <2>3 DEF Superseded, ClientRec
  <2>4. CASE GiveUp(h)
    BY <2>4 DEF GiveUp, ClientRec
  <2> QED BY <2>1, <2>2, <2>3, <2>4
<1>4. \A s \in Server :
        \/ server'[s].told = server[s].told
        \/ Superseded(h) /\ s = client[h].server /\ client'[h].superseded
  <2>1. CASE Superseded(h)
    <3>1. client'[h].superseded
      BY <2>1 DEF Superseded, ClientRec
    <3>2. server' = [server EXCEPT ![client[h].server].told = FALSE]
      BY <2>1 DEF Superseded
    <3>3. \A s \in Server \ {client[h].server} : server'[s] = server[s]
      BY <3>2
    <3> QED BY <2>1, <3>1, <3>3
  <2>2. CASE Close(h) \/ HostDies(h) \/ Forget(h) \/ GiveUp(h)
    <3>1. server' = server
      BY <2>2 DEF Close, HostDies, Forget, GiveUp
    <3> QED BY <3>1
  <2> QED BY <2>1, <2>2
<1>5. None \notin Server
  BY ConstantsAssumption
<1>6. \A g \in Host : client[g].server \in Server \cup {None}
  BY DEF ClientRec
<1>7. ClientsOwn'
  BY <1>2, <1>3, <1>5, <1>6 DEF ClientsOwn
<1>8. \A g, k \in Host : client[g].server = client[k].server /\ client[g].server # None
                         => g = k
  BY DEF ClientsOwn
<1>9. WordIsKept'
  BY <1>2, <1>3, <1>4, <1>5, <1>6, <1>8 DEF WordIsKept
<1>10. SameStarted
  BY <1>2 DEF SameStarted, StartedServers
<1>11. Owed' \subseteq Owed
  <2> SUFFICES ASSUME NEW t \in Server, NEW g \in Host, OwedTo(t, g)'
               PROVE  OwedTo(t, g)
    BY DEF Owed
  <2>1. client[g].server = t /\ t # None
    BY <1>3, <1>5 DEF OwedTo
  <2>2. server'[t].told = server[t].told
    BY <1>4, <1>8, <2>1 DEF OwedTo
  <2> QED BY <1>2, <1>3, <2>1, <2>2 DEF OwedTo
<1>12. CalledFor'
  BY <1>2, <1>10, <1>11, BalanceKeeps DEF Balanced
<1> QED BY <1>1, <1>7, <1>9, <1>12

(* A server's own steps start none; one that ends by itself has told its    *)
(* client or lost its host.                                                *)
LEMMA ServerKeepsSpawns ==
  ASSUME SpawnInv, NEW s \in Server, ServerStep(s) \/ ClaimFails(s)
  PROVE  SpawnInv'
<1> USE DEF SpawnInv, TypeOK
<1>1. TypeOK'
  BY ServerKeepsTypes
<1>2. /\ UNCHANGED <<host, client, due>>
      /\ \A t \in Server \ {s} : server'[t] = server[t]
      /\ server'[s].host = server[s].host
      /\ server[s].pc # "none" /\ server'[s].pc # "none"
      /\ server[s].told => server'[s].told
  BY DEF ServerStep, Initialize, Claim, ClaimFails, Poll, Tell, Exit, Orphaned, Alive,
         ServerRec
<1>3. /\ server'[s].pc = "told" => server'[s].told
      /\ server'[s].pc = "gone" => server[s].pc = "told" \/ host[server[s].host] = "dead"
  BY DEF ServerStep, Initialize, Claim, ClaimFails, Poll, Tell, Exit, Orphaned, ServerRec
<1>4. ClientsOwn'
  BY <1>2 DEF ClientsOwn, ClientRec
<1>5. WordIsKept'
  BY <1>2, <1>3 DEF WordIsKept, ClientRec
<1>6. SameStarted
  BY <1>2 DEF SameStarted, StartedServers
<1>7. Owed' \subseteq Owed
  <2> SUFFICES ASSUME NEW t \in Server, NEW g \in Host, OwedTo(t, g)'
               PROVE  OwedTo(t, g)
    BY DEF Owed
  <2>1. /\ client[g].server = t /\ t # None
        /\ ~client[g].superseded
        /\ host[g] # "dead" /\ ~server'[t].told
    BY <1>2, ConstantsAssumption DEF OwedTo
  <2>2. server[t].host = g
    BY <2>1 DEF ClientsOwn
  <2>3. t # s
    BY <1>2, <1>3, <2>1, <2>2 DEF OwedTo, WordIsKept
  <2> QED BY <1>2, <2>3 DEF OwedTo
<1>8. CalledFor'
  BY <1>2, <1>6, <1>7, BalanceKeeps DEF Balanced
<1> QED BY <1>1, <1>4, <1>5, <1>8

(* A crash may oblige a client to start one server.                        *)
LEMMA CrashKeepsSpawns ==
  ASSUME SpawnInv, NEW s \in Server, Crash(s)
  PROVE  SpawnInv'
<1> USE DEF SpawnInv, TypeOK
<1>1. TypeOK'
  BY ServerKeepsTypes
<1>2. /\ UNCHANGED <<host, client>> /\ due' = due + 1
      /\ \A t \in Server \ {s} : server'[t] = server[t]
      /\ server'[s].host = server[s].host
      /\ server[s].pc # "none" /\ server'[s].pc = "gone"
  BY DEF Crash, Alive, ServerRec
<1>3. ClientsOwn'
  BY <1>2 DEF ClientsOwn, ClientRec
<1>4. WordIsKept'
  BY <1>2 DEF WordIsKept, ClientRec
<1>5. SameStarted
  BY <1>2 DEF SameStarted, StartedServers
<1>6. Owed' \subseteq Owed \cup {s}
  BY <1>2 DEF Owed, OwedTo
<1>7. CalledFor'
  BY <1>2, <1>5, <1>6, BalanceKeeps DEF Balanced
<1> QED BY <1>1, <1>3, <1>4, <1>7

LEMMA StepKeepsSpawns == SpawnInv /\ [Next]_vars => SpawnInv'
<1> SUFFICES ASSUME SpawnInv, [Next]_vars PROVE SpawnInv'
  OBVIOUS
<1>1. CASE Wipe \/ UNCHANGED vars
  <2>1. UNCHANGED <<host, client, server, due>>
    BY <1>1 DEF Wipe, vars
  <2>2. TypeOK'
    BY TypesKept DEF SpawnInv
  <2> QED BY <2>1, <2>2
    DEF SpawnInv, ClientsOwn, WordIsKept, CalledFor, StartedServers, Owed, OwedTo
<1> QED BY <1>1, NewClientKeeps, RestartKeeps, QuietEditorKeeps, ServerKeepsSpawns,
           CrashKeepsSpawns DEF Next, ClientStep

(* No more servers are started than windows opened, restarts by hand and    *)
(* crashes call for, for any number of hosts, servers and restarts allowed. *)
THEOREM HandOversSpawnNone == Spec => []SpawnsAreCalledFor
<1>1. SpawnInv => SpawnsAreCalledFor
  <2> SUFFICES ASSUME SpawnInv PROVE SpawnsAreCalledFor
    OBVIOUS
  <2>1. Cardinality(StartedServers) <= due
    BY ServersAreFinite DEF SpawnInv, CalledFor, TypeOK
  <2> QED BY <2>1 DEF SpawnsAreCalledFor, StartedServers
<1> QED BY <1>1, InitSpawns, StepKeepsSpawns, PTL DEF Spec

-----------------------------------------------------------------------------
(* The session of the language server: the inductive invariant.            *)

(* A job that comes from currentSession never changed the path, and one    *)
(* that seeds has the session it resolved.                                 *)
JobFits(t) ==
  /\ job[t].lazy => ~job[t].changed
  /\ job[t].pc \notin {"lookup", "build", "seed", "notify"} =>
       ~job[t].lazy /\ ~job[t].changed
  /\ job[t].pc = "lookup" => job[t].lazy
  /\ job[t].pc = "notify" => job[t].changed
  /\ job[t].pc = "seed" =>
       /\ job[t].new \in SessRec
       /\ job[t].new.config = job[t].config
       /\ job[t].new.root = RootOf[job[t].config.place]

Working == job[Main].pc \in {"session", "again", "root", "sync"}

(* The handler goroutine has a document exactly while it handles one, and  *)
(* a text that fits it.                                                    *)
MainFits ==
  /\ job[Main].pc = "idle" => job[Main].doc = Nil
  /\ Working => job[Main].doc \in Doc
  /\ Rebuilding(Main) => (job[Main].doc # Nil <=> job[Main].lazy)
  /\ job[Main].pc = "sync" => job[Main].root \in Root
  /\ job[Main].held => job[Main].pc \in {"root", "sync"}
  /\ job[Main].held \/ job[Main].pc = "again" => session \in SessRec

TextFits ==
  /\ \A d \in Doc : doc[d].open => doc[d].text \in Text
  /\ \A d \in Doc : job[Main].doc = d =>
       /\ doc[d].open =>
            job[Main].text = doc[d].text \/ (~doc[d].dirty /\ job[Main].text = Nil)
       /\ ~doc[d].open => job[Main].text = Nil

LspTyped ==
  /\ LspTypeOK
  /\ DOMAIN found = Place
  /\ \A t \in Thread : JobFits(t)
  /\ MainFits

(* A rebuild that was never joined by another is the only one.             *)
Apart ==
  \A t \in Thread : \A u \in Thread \ {t} :
    Rebuilding(t) /\ job[t].alone => ~Rebuilding(u)

(* Such a rebuild works on the configuration in force.                     *)
Lone(t) ==
  Rebuilding(t) /\ job[t].alone =>
    /\ job[t].pc \in {"build", "seed", "notify"} => job[t].config = config
    /\ job[t].pc = "notify" => session # Nil /\ Matched

(* A session being seeded has, or has yet to read, the buffer of each      *)
(* document whose handler it did not overlap.                              *)
Seeded(t) ==
  At(t, "seed") =>
    \A d \in Inside[job[t].new.root] \ job[t].met :
      /\ doc[d].open =>
           d \in job[t].todo \/ job[t].new.overlay[Key[job[t].new.root][d]] = doc[d].text
      /\ ~doc[d].open =>
           d \notin job[t].todo /\ job[t].new.overlay[Key[job[t].new.root][d]] = Nil

(* A rebuild on another goroutine knows of the document being handled.     *)
Meets ==
  job[Main].doc # Nil =>
    \A t \in Thread \ {Main} : Rebuilding(t) => job[Main].doc \in job[t].met

(* A handler whose session has been superseded handles a torn document, or *)
(* one that will be when the rebuild under way ends.                       *)
Late ==
  At(Main, "root") \/ At(Main, "sync") =>
    \/ job[Main].held
    \/ job[Main].doc \in torn
    \/ \E t \in Thread \ {Main} : Rebuilding(t)

(* OnlyTornMislead, of a rebuild that has published and not yet ended.     *)
LoneRead ==
  \A t \in Thread : job[t].alone /\ At(t, "notify") =>
    \A d \in Inside[session.root] \ (job[t].met \cup Handled) : BufferIsRead(d)

Settled == (NoRebuild /\ ~crossed) \/ \E t \in Thread : job[t].alone /\ At(t, "notify")

(* A handler that still holds the published session has its root.          *)
Keyed ==
  Settled /\ At(Main, "sync") /\ job[Main].held => job[Main].root = session.root

LspInv ==
  /\ LspTyped
  /\ TextFits
  /\ Apart
  /\ \A t \in Thread : Lone(t) /\ Seeded(t)
  /\ Meets
  /\ Late
  /\ OnlyCrossedDiffer
  /\ OnlyTornMislead
  /\ LoneRead
  /\ Keyed

-----------------------------------------------------------------------------
LEMMA MainIsAThread == Main \in Thread /\ Nil \notin Doc
BY LspAssumption DEF Thread

LEMMA OneMoves ==
  ASSUME job \in [Thread -> JobRec], NEW t \in Thread, NEW r \in JobRec, Step(t, r)
  PROVE  /\ job' \in [Thread -> JobRec]
         /\ job'[t] = r
         /\ \A u \in Thread \ {t} : job'[u] = job[u]
BY DEF Step

LEMMA IdleIsTyped ==
  /\ Idle \in JobRec
  /\ NoConfig \in Config
BY DEF Idle, JobRec, NoConfig, Config

LEMMA LspTypedInit == LspInit => LspTyped
<1> SUFFICES ASSUME LspInit PROVE LspTyped
  OBVIOUS
<1>1. job \in [Thread -> JobRec]
  BY IdleIsTyped DEF LspInit
<1>2. \A t \in Thread : job[t] = Idle
  BY DEF LspInit
<1>3. doc \in [Doc -> DocRec]
  BY DEF LspInit, DocRec, NotOpen
<1>4. LspTypeOK
  BY <1>1, <1>3, IdleIsTyped DEF LspInit, LspTypeOK
<1>5. \A t \in Thread : JobFits(t)
  BY <1>2 DEF JobFits, Idle
<1>6. MainFits
  BY <1>2, MainIsAThread DEF MainFits, Idle, Working, Rebuilding
<1> QED BY <1>4, <1>5, <1>6 DEF LspTyped, LspInit

LEMMA LspInvInit == LspInit => LspInv
<1> SUFFICES ASSUME LspInit PROVE LspInv
  OBVIOUS
<1>1. \A t \in Thread : job[t] = Idle
  BY DEF LspInit
<1>2. \A t \in Thread : ~Rebuilding(t) /\ ~At(t, "seed") /\ ~At(t, "notify")
  BY <1>1 DEF Rebuilding, At, Idle
<1>3. ~At(Main, "root") /\ ~At(Main, "sync") /\ job[Main].doc = Nil
  BY <1>1, MainIsAThread DEF At, Idle
<1>4. session = Nil
  BY DEF LspInit
<1>5. TextFits
  BY <1>3, MainIsAThread DEF LspInit, NotOpen, TextFits
<1> QED
  BY <1>2, <1>3, <1>4, <1>5, LspTypedInit, MainIsAThread
  DEF LspInv, Apart, Lone, Seeded, Meets, Late, OnlyCrossedDiffer, Matched,
      OnlyTornMislead, LoneRead, Keyed

-----------------------------------------------------------------------------
(* The steps of a rebuild on the way to its publication.                   *)

Kin(r, q) ==
  /\ r.doc = q.doc /\ r.text = q.text /\ r.held = q.held
  /\ r.lazy = q.lazy /\ r.alone = q.alone /\ r.met = q.met

Early == {"resolve", "store", "lookup", "build", "seed"}

Advances(t) ==
  /\ job[t].pc \in Early
  /\ \E r \in JobRec : Step(t, r) /\ Kin(r, job[t]) /\ r.pc \in Early
  /\ UNCHANGED <<doc, disk, found, override, reported, session, crossed, torn>>

Steady(t) ==
  /\ job' \in [Thread -> JobRec]
  /\ \A u \in Thread \ {t} : job'[u] = job[u]
  /\ Kin(job'[t], job[t])
  /\ job[t].pc \in Early
  /\ job'[t].pc \in Early
  /\ UNCHANGED <<doc, disk, found, override, reported, session, crossed, torn>>

LEMMA AdvanceMoves ==
  ASSUME LspTyped, NEW t \in Thread, Advances(t)
  PROVE  Steady(t)
<1> PICK r \in JobRec : Step(t, r) /\ Kin(r, job[t]) /\ r.pc \in Early
  BY DEF Advances
<1>1. job \in [Thread -> JobRec]
  BY DEF LspTyped, LspTypeOK
<1> QED BY <1>1, OneMoves DEF Advances, Steady

(* What such a step leaves alone.                                          *)
LEMMA AdvanceKeeps ==
  ASSUME LspInv, NEW t \in Thread, Steady(t)
  PROVE  /\ \A u \in Thread \ {t} : JobFits(u)' /\ Seeded(u)'
         /\ MainFits' /\ TextFits' /\ Apart' /\ Meets' /\ Late'
         /\ OnlyCrossedDiffer' /\ OnlyTornMislead' /\ LoneRead' /\ Keyed'
<1>1. \A u \in Thread : Rebuilding(u)' <=> Rebuilding(u)
  BY DEF Steady, Rebuilding, Early
<1>2. Rebuilding(t) /\ ~At(t, "notify") /\ ~At(t, "notify")'
      /\ ~At(t, "root") /\ ~At(t, "root")' /\ ~At(t, "sync") /\ ~At(t, "sync")'
  BY DEF Steady, Rebuilding, Early, At
<1>3. ~NoRebuild'
  BY <1>1, <1>2 DEF NoRebuild
<1>4. /\ job'[Main].doc = job[Main].doc
      /\ job'[Main].text = job[Main].text
      /\ job'[Main].held = job[Main].held
      /\ job'[Main].lazy = job[Main].lazy
      /\ \A u \in Thread : job'[u].met = job[u].met /\ job'[u].alone = job[u].alone
  BY MainIsAThread DEF Steady, Kin
<1>5. \A u \in Thread, pc \in {"root", "sync", "notify"} : At(u, pc)' <=> At(u, pc)
  BY <1>2 DEF Steady, At
<1>6. \A u \in Thread \ {t} : JobFits(u)' /\ Seeded(u)'
  BY DEF LspInv, LspTyped, JobFits, Seeded, At, Steady
<1>7. MainFits'
  <2>1. CASE t = Main
    BY <2>1, <1>1, <1>4, <1>2 DEF LspInv, LspTyped, MainFits, Steady, Working, Early, At
  <2>2. CASE t # Main
    BY <2>2, <1>1, MainIsAThread DEF LspInv, LspTyped, MainFits, Steady, Working
  <2> QED BY <2>1, <2>2
<1>8. TextFits'
  BY <1>4 DEF LspInv, TextFits, Steady
<1>9. Apart'
  BY <1>1, <1>4 DEF LspInv, Apart
<1>10. Meets'
  BY <1>1, <1>4 DEF LspInv, Meets
<1>11. Late'
  BY <1>1, <1>4, <1>5, MainIsAThread DEF LspInv, Late, Steady
<1>12. LoneRead'
  BY <1>4, <1>5 DEF LspInv, LoneRead, Handled, BufferIsRead, Overlay, Steady
<1>13. Keyed'
  <2>1. Settled' => Settled
    BY <1>3, <1>4, <1>5 DEF Settled
  <2>2. At(Main, "sync")' => job'[Main] = job[Main]
    BY <1>2, MainIsAThread DEF Steady
  <2> QED BY <2>1, <2>2, <1>5, MainIsAThread DEF LspInv, Keyed, Steady
<1> QED
  BY <1>3, <1>6, <1>7, <1>8, <1>9, <1>10, <1>11, <1>12, <1>13
  DEF OnlyCrossedDiffer, OnlyTornMislead


(* What a step does not change of the types.                               *)
LEMMA TypesOf ==
  ASSUME LspTyped, job' \in [Thread -> JobRec],
         UNCHANGED <<doc, disk, found, override, reported, session, crossed, torn>>,
         config' \in Config
  PROVE  LspTypeOK' /\ DOMAIN found' = Place
BY DEF LspTyped, LspTypeOK

(* The steps of t that read and write no more than t's job: each of them   *)
(* needs only what becomes of that job.                                    *)
LEMMA AdvanceStep ==
  ASSUME LspInv, NEW t \in Thread, Advances(t), config' \in Config,
         \A u \in Thread : Lone(u)', JobFits(t)', Seeded(t)'
  PROVE  LspInv'
<1>1. Steady(t)
  BY AdvanceMoves DEF LspInv
<1>2. LspTypeOK' /\ DOMAIN found' = Place
  BY <1>1, TypesOf DEF LspInv, Steady
<1> QED BY <1>1, <1>2, AdvanceKeeps DEF LspInv, LspTyped

LEMMA ResolveStep ==
  ASSUME LspInv, NEW t \in Thread, Resolve(t)
  PROVE  LspInv'
<1> DEFINE p == IF job[t].over # Nil THEN job[t].over ELSE Home
           c == IF found[p] = 0 THEN NoConfig ELSE [place |-> p, ver |-> found[p]]
           r == [job[t] EXCEPT !.pc = "store", !.over = Nil, !.config = c]
<1>1. job[t] \in JobRec /\ job[t].pc = "resolve"
  BY DEF LspInv, LspTyped, LspTypeOK, Resolve, At
<1>2. c \in Config
  <2>1. p \in Place
    BY <1>1, LspAssumption DEF JobRec
  <2>2. found[p] \in Written[p]
    BY <2>1 DEF LspInv, LspTyped, LspTypeOK
  <2> QED BY <2>1, <2>2, IdleIsTyped DEF Config
<1>3. Step(t, r)
  BY Zenon DEF Resolve
<1> HIDE DEF c
<1>4. r \in JobRec /\ Kin(r, job[t]) /\ r.pc = "store" /\ r.changed = job[t].changed
  BY <1>1, <1>2 DEF JobRec, Kin
<1> HIDE DEF r
<1>5. Advances(t)
  BY <1>1, <1>3, <1>4 DEF Advances, Resolve, Early
<1>6. job'[t] = r
  BY <1>3, <1>4, OneMoves DEF LspInv, LspTyped, LspTypeOK
<1>7. JobFits(t)' /\ Seeded(t)'
  BY <1>1, <1>4, <1>6 DEF LspInv, LspTyped, JobFits, Seeded, At, Kin
<1>8. Steady(t)
  BY <1>5, AdvanceMoves DEF LspInv
<1>9. \A u \in Thread : Lone(u)'
  BY <1>4, <1>6, <1>8 DEF LspInv, Lone, Steady, Rebuilding, Matched, Resolve
<1> QED BY <1>5, <1>7, <1>9, AdvanceStep DEF Resolve, LspInv, LspTyped, LspTypeOK

LEMMA StoreStep ==
  ASSUME LspInv, NEW t \in Thread, Store(t)
  PROVE  LspInv'
<1> DEFINE r == [job[t] EXCEPT !.pc = "build",
                   !.changed = config.place # job[t].config.place]
<1>1. job[t] \in JobRec /\ job[t].pc = "store"
  BY DEF LspInv, LspTyped, LspTypeOK, Store, At
<1>3. Step(t, r)
  BY Zenon DEF Store
<1>4. /\ r \in JobRec /\ Kin(r, job[t]) /\ r.pc = "build"
      /\ r.config = job[t].config
  BY <1>1 DEF JobRec, Kin
<1> HIDE DEF r
<1>5. Advances(t)
  BY <1>1, <1>3, <1>4 DEF Advances, Store, Early
<1>6. job'[t] = r
  BY <1>3, <1>4, OneMoves DEF LspInv, LspTyped, LspTypeOK
<1>7. JobFits(t)' /\ Seeded(t)'
  BY <1>1, <1>4, <1>6 DEF LspInv, LspTyped, JobFits, Seeded, At, Kin
<1>8. Steady(t)
  BY <1>5, AdvanceMoves DEF LspInv
<1>9. config' = job[t].config /\ config' \in Config
  BY <1>1 DEF Store, JobRec
<1>10. \A u \in Thread : Lone(u)'
  <2>1. ASSUME NEW u \in Thread \ {t}
        PROVE  ~(Rebuilding(u)' /\ job'[u].alone)
    <3>1. Rebuilding(t) /\ job'[u] = job[u]
      BY <1>1, <1>8 DEF Rebuilding, Steady
    <3> QED BY <3>1 DEF LspInv, Apart, Rebuilding
  <2>2. Lone(t)'
    BY <1>4, <1>6, <1>9 DEF Lone
  <2> QED BY <2>1, <2>2 DEF Lone
<1> QED BY <1>5, <1>7, <1>9, <1>10, AdvanceStep

LEMMA BuildStep ==
  ASSUME LspInv, NEW t \in Thread, Build(t)
  PROVE  LspInv'
<1> DEFINE n == NewSession(t, RootOf[job[t].config.place])
           r == [job[t] EXCEPT !.pc = "seed", !.todo = OpenDocs, !.new = n]
<1>1. job[t] \in JobRec /\ job[t].pc = "build"
  BY DEF LspInv, LspTyped, LspTypeOK, Build, At
<1>2. /\ n \in SessRec /\ n.config = job[t].config
      /\ n.root = RootOf[job[t].config.place]
      /\ n.root \in Root
      /\ n.overlay = Empty
  <2>1. job[t].config \in Config /\ RootOf[job[t].config.place] \in Root
    BY <1>1, LspAssumption DEF JobRec, Config
  <2>2. Empty \in [Name -> Text \cup {Nil}]
    BY DEF Empty
  <2> QED BY <2>1, <2>2 DEF NewSession, SessRec
<1>3. Step(t, r)
  BY Zenon DEF Build
<1> HIDE DEF n
<1>4. /\ r \in JobRec /\ Kin(r, job[t]) /\ r.pc = "seed"
      /\ r.config = job[t].config
      /\ r.new = n
      /\ r.todo = OpenDocs
      /\ r.changed = job[t].changed
  BY <1>1, <1>2 DEF JobRec, Kin, OpenDocs
<1> HIDE DEF r
<1>5. Advances(t)
  BY <1>1, <1>3, <1>4 DEF Advances, Build, Early
<1>6. job'[t] = r
  BY <1>3, <1>4, OneMoves DEF LspInv, LspTyped, LspTypeOK
<1>7. JobFits(t)'
  BY <1>1, <1>2, <1>4, <1>6 DEF LspInv, LspTyped, JobFits, Kin
<1>8. Steady(t)
  BY <1>5, AdvanceMoves DEF LspInv
<1>9. config' = config /\ config' \in Config
  BY DEF Build, LspInv, LspTyped, LspTypeOK
<1>10. \A u \in Thread : Lone(u)'
  <2>1. Rebuilding(t) /\ job[t].pc = "build"
    BY <1>1 DEF Rebuilding
  <2> QED
    BY <1>4, <1>6, <1>8, <1>9, <2>1 DEF LspInv, Lone, Steady, Rebuilding, Matched, Kin
<1>11. Seeded(t)'
  <2>1. /\ job'[t].new.root \in Root /\ job'[t].new.overlay = Empty
        /\ job'[t].todo = OpenDocs
    BY <1>2, <1>4, <1>6
  <2>2. doc' = doc
    BY DEF Build
  <2> SUFFICES ASSUME NEW d \in Inside[job'[t].new.root]
               PROVE  /\ doc[d].open => d \in job'[t].todo
                      /\ ~doc[d].open =>
                           /\ d \notin job'[t].todo
                           /\ job'[t].new.overlay[Key[job'[t].new.root][d]] = Nil
    BY <2>2 DEF Seeded
  <2>3. d \in Doc /\ Key[job'[t].new.root][d] \in Name
    BY <2>1, LspAssumption
  <2> QED BY <2>1, <2>3 DEF OpenDocs, Empty
<1> QED BY <1>5, <1>7, <1>9, <1>10, <1>11, AdvanceStep

LEMMA LookupStep ==
  ASSUME LspInv, NEW t \in Thread, Lookup(t)
  PROVE  LspInv'
<1> DEFINE r == [job[t] EXCEPT !.pc = "build", !.config = config]
<1>1. job[t] \in JobRec /\ job[t].pc = "lookup" /\ config \in Config
  BY DEF LspInv, LspTyped, LspTypeOK, Lookup, At
<1>3. Step(t, r)
  BY Zenon DEF Lookup
<1>4. /\ r \in JobRec /\ Kin(r, job[t]) /\ r.pc = "build"
      /\ r.config = config
      /\ r.changed = job[t].changed
  BY <1>1 DEF JobRec, Kin
<1> HIDE DEF r
<1>5. Advances(t)
  BY <1>1, <1>3, <1>4 DEF Advances, Lookup, Early
<1>6. job'[t] = r
  BY <1>3, <1>4, OneMoves DEF LspInv, LspTyped, LspTypeOK
<1>7. JobFits(t)' /\ Seeded(t)'
  BY <1>1, <1>4, <1>6 DEF LspInv, LspTyped, JobFits, Seeded, At, Kin
<1>8. Steady(t)
  BY <1>5, AdvanceMoves DEF LspInv
<1>9. config' = config
  BY DEF Lookup
<1>10. \A u \in Thread : Lone(u)'
  BY <1>4, <1>6, <1>8, <1>9 DEF LspInv, Lone, Steady, Rebuilding, Matched
<1> QED BY <1>1, <1>5, <1>7, <1>9, <1>10, AdvanceStep

LEMMA SeedStep ==
  ASSUME LspInv, NEW t \in Thread, NEW d \in Doc, Seed(t, d)
  PROVE  LspInv'
<1> DEFINE root == job[t].new.root
           n == Key[root][d]
           b == IF doc[d].open THEN doc[d].text ELSE job[t].new.overlay[n]
           s == [job[t].new EXCEPT !.overlay = [@ EXCEPT ![n] = b]]
           r == [job[t] EXCEPT !.todo = job[t].todo \ {d}, !.new = s]
<1>1. job[t] \in JobRec /\ job[t].pc = "seed" /\ d \in job[t].todo
  BY DEF LspInv, LspTyped, LspTypeOK, Seed, At
<1>2. /\ job[t].new \in SessRec
      /\ job[t].new.config = job[t].config
      /\ root = RootOf[job[t].config.place]
      /\ root \in Root
      /\ n \in Name
  BY <1>1, LspAssumption DEF LspInv, LspTyped, JobFits, SessRec
<1>3. Step(t, r)
  BY Zenon DEF Seed
<1>3a. b \in Text \cup {Nil}
  BY <1>2 DEF LspInv, LspTyped, LspTypeOK, DocRec, SessRec
<1>3b. /\ s \in SessRec /\ s.config = job[t].config /\ s.root = root
       /\ s.overlay = [job[t].new.overlay EXCEPT ![n] = b]
  <2> HIDE DEF b, n
  <2> QED BY <1>2, <1>3a DEF SessRec
<1>3c. /\ s.overlay[n] = b
       /\ \A m \in Name \ {n} : s.overlay[m] = job[t].new.overlay[m]
  BY <1>2, <1>3b DEF SessRec
<1> HIDE DEF s
<1>4. /\ r \in JobRec /\ Kin(r, job[t]) /\ r.pc = "seed"
      /\ r.config = job[t].config
      /\ r.new = s
      /\ r.todo = job[t].todo \ {d}
      /\ r.changed = job[t].changed
  BY <1>1, <1>3b DEF JobRec, Kin
<1> HIDE DEF r
<1>5. Advances(t)
  BY <1>1, <1>3, <1>4 DEF Advances, Seed, Early
<1>6. job'[t] = r
  BY <1>3, <1>4, OneMoves DEF LspInv, LspTyped, LspTypeOK
<1>7. JobFits(t)'
  BY <1>1, <1>2, <1>3b, <1>4, <1>6 DEF LspInv, LspTyped, JobFits, Kin
<1>8. Steady(t)
  BY <1>5, AdvanceMoves DEF LspInv
<1>9. config' = config /\ config' \in Config
  BY DEF Seed, LspInv, LspTyped, LspTypeOK
<1>10. \A u \in Thread : Lone(u)'
  <2>1. Rebuilding(t)
    BY <1>1 DEF Rebuilding
  <2> QED
    BY <1>1, <1>4, <1>6, <1>8, <1>9, <2>1
    DEF LspInv, Lone, Steady, Rebuilding, Matched, Kin
<1>11. Seeded(t)'
  <2>1. \A e \in Inside[root] : e \in Doc /\ Key[root][e] \in Name
    BY <1>2, LspAssumption
  <2>2. \A e \in Inside[root] : e # d => Key[root][e] # n
    BY <1>2, KeyAssumption
  <2>3. doc' = doc
    BY DEF Seed
  <2>4. ASSUME NEW e \in Inside[root] \ job[t].met
        PROVE  /\ doc[e].open => e \in r.todo \/ s.overlay[Key[root][e]] = doc[e].text
               /\ ~doc[e].open => e \notin r.todo /\ s.overlay[Key[root][e]] = Nil
    <3>1. /\ doc[e].open =>
               e \in job[t].todo \/ job[t].new.overlay[Key[root][e]] = doc[e].text
          /\ ~doc[e].open =>
               e \notin job[t].todo /\ job[t].new.overlay[Key[root][e]] = Nil
      BY <1>1 DEF LspInv, Seeded, At
    <3>2. CASE e = d
      BY <3>1, <3>2, <1>1, <1>3c
    <3>3. CASE e # d
      BY <3>1, <3>3, <1>3c, <1>4, <2>1, <2>2
    <3> QED BY <3>2, <3>3
  <2>5. /\ job'[t].new.root = job[t].new.root /\ job'[t].met = job[t].met
        /\ job'[t].todo = r.todo /\ job'[t].new.overlay = s.overlay
    BY <1>3b, <1>4, <1>6 DEF Kin
  <2> SUFFICES ASSUME NEW e \in Inside[job'[t].new.root] \ job'[t].met
               PROVE  /\ doc[e].open =>
                           \/ e \in job'[t].todo
                           \/ job'[t].new.overlay[Key[job'[t].new.root][e]] = doc[e].text
                      /\ ~doc[e].open =>
                           /\ e \notin job'[t].todo
                           /\ job'[t].new.overlay[Key[job'[t].new.root][e]] = Nil
    BY <2>3 DEF Seeded
  <2> QED BY <2>4, <2>5
<1> QED BY <1>5, <1>7, <1>9, <1>10, <1>11, AdvanceStep


-----------------------------------------------------------------------------
(* Steps of other goroutines than the handler's, outside of a rebuild.     *)

(* What a goroutine that is not about a document stands at.                *)
Standing ==
  {Idle} \cup {[Idle EXCEPT !.pc = pc] : pc \in {"session", "waiting", "override"}}

Aside(t) ==
  /\ job[t].pc \in {"idle", "session", "waiting"}
  /\ \E r \in Standing : Step(t, r)
  /\ override' \in Place \cup {Nil}
  /\ UNCHANGED <<doc, disk, found, config, reported, session, crossed, torn>>

LEMMA AsideStep ==
  ASSUME LspInv, NEW t \in Thread \ {Main}, Aside(t)
  PROVE  LspInv'
<1> PICK r \in Standing : Step(t, r)
  BY DEF Aside
<1>1. /\ r \in JobRec /\ r.pc \in {"idle", "session", "waiting", "override"}
      /\ ~r.lazy /\ ~r.changed
  <2>1. CASE r = Idle
    BY <2>1, IdleIsTyped DEF Idle
  <2>2. ASSUME NEW pc \in {"session", "waiting", "override"}, r = [Idle EXCEPT !.pc = pc]
        PROVE  /\ r \in JobRec /\ r.pc = pc /\ ~r.lazy /\ ~r.changed
    BY <2>2, IdleIsTyped DEF JobRec, Idle
  <2> QED BY <2>1, <2>2 DEF Standing
<1>2. /\ job' \in [Thread -> JobRec] /\ job'[t] = r
      /\ \A u \in Thread \ {t} : job'[u] = job[u]
  BY <1>1, OneMoves DEF LspInv, LspTyped, LspTypeOK
<1>3. \A u \in Thread : Rebuilding(u)' <=> Rebuilding(u)
  BY <1>1, <1>2 DEF Rebuilding, Aside
<1>4. /\ job'[Main] = job[Main]
      /\ ~Rebuilding(t)'
      /\ \A u \in Thread : At(u, "notify")' <=> At(u, "notify")
      /\ \A u \in Thread : At(u, "seed")' <=> At(u, "seed")
  BY <1>1, <1>2, MainIsAThread DEF Rebuilding, At, Aside
<1>5. UNCHANGED <<doc, disk, found, config, reported, session, crossed, torn>>
  BY DEF Aside
<1>6. \A u \in Thread : Rebuilding(u)' => job'[u] = job[u]
  BY <1>2, <1>4
<1>7. \A u \in Thread : At(u, "notify")' \/ At(u, "seed")' => Rebuilding(u)'
  BY DEF At, Rebuilding
<1>8. LspTypeOK' /\ DOMAIN found' = Place
  BY <1>2 DEF Aside, LspInv, LspTyped, LspTypeOK
<1>9. \A u \in Thread : JobFits(u)'
  BY <1>1, <1>2 DEF LspInv, LspTyped, JobFits
<1>10. MainFits' /\ TextFits'
  BY <1>3, <1>4, <1>5, MainIsAThread DEF LspInv, LspTyped, MainFits, TextFits, Working
<1>11. Apart' /\ Meets'
  BY <1>3, <1>4, <1>6 DEF LspInv, Apart, Meets
<1>12. \A u \in Thread : Lone(u)' /\ Seeded(u)'
  BY <1>3, <1>4, <1>5, <1>6, <1>7 DEF LspInv, Lone, Seeded, Matched, At
<1>13. Late'
  BY <1>3, <1>4, <1>5 DEF LspInv, Late, At
<1>14. NoRebuild' <=> NoRebuild
  BY <1>3 DEF NoRebuild
<1>15. OnlyCrossedDiffer'
  BY <1>5, <1>14 DEF LspInv, OnlyCrossedDiffer, Matched
<1>16. OnlyTornMislead' /\ LoneRead'
  BY <1>4, <1>5, <1>6, <1>7, <1>14
  DEF LspInv, OnlyTornMislead, LoneRead, Handled, BufferIsRead, Overlay
<1>17. Keyed'
  <2>1. Settled' => Settled
    BY <1>4, <1>5, <1>6, <1>7, <1>14 DEF Settled
  <2> QED BY <2>1, <1>4, <1>5 DEF LspInv, Keyed, At
<1> QED
  BY <1>8, <1>9, <1>10, <1>11, <1>12, <1>13, <1>15, <1>16, <1>17 DEF LspInv, LspTyped

-----------------------------------------------------------------------------
(* The handler goroutine on its way to the overlay.                        *)

Heads ==
  \E r \in JobRec :
    /\ Step(Main, r)
    /\ r.doc = job[Main].doc
    /\ r.text = job[Main].text
    /\ ~r.lazy /\ ~r.changed
    /\ r.held => session \in SessRec
    /\ \/ /\ job[Main].pc \in {"session", "again"}
          /\ r.pc = "root" /\ r.held
       \/ /\ job[Main].pc = "root"
          /\ r.pc = "sync" /\ r.held = job[Main].held
          /\ r.root = RootOf[config.place]

LEMMA HeadsStep ==
  ASSUME LspInv, Heads,
         UNCHANGED <<doc, disk, found, override, config, reported, session, crossed, torn>>
  PROVE  LspInv'
<1> PICK r \in JobRec :
    /\ Step(Main, r)
    /\ r.doc = job[Main].doc
    /\ r.text = job[Main].text
    /\ ~r.lazy /\ ~r.changed
    /\ r.held => session \in SessRec
    /\ \/ /\ job[Main].pc \in {"session", "again"}
          /\ r.pc = "root" /\ r.held
       \/ /\ job[Main].pc = "root"
          /\ r.pc = "sync" /\ r.held = job[Main].held
          /\ r.root = RootOf[config.place]
  BY DEF Heads
<1>1. /\ job' \in [Thread -> JobRec] /\ job'[Main] = r
      /\ \A u \in Thread \ {Main} : job'[u] = job[u]
  BY OneMoves, MainIsAThread DEF LspInv, LspTyped, LspTypeOK
<1>2. \A u \in Thread : Rebuilding(u)' <=> Rebuilding(u)
  BY <1>1 DEF Rebuilding
<1>3. ~Rebuilding(Main) /\ ~Rebuilding(Main)'
  BY <1>1 DEF Rebuilding
<1>4. \A u \in Thread : Rebuilding(u)' => u # Main /\ job'[u] = job[u]
  BY <1>1, <1>3
<1>5. \A u \in Thread : At(u, "notify")' \/ At(u, "seed")' => Rebuilding(u)'
  BY DEF At, Rebuilding
<1>6. RootOf[config.place] \in Root
  BY LspAssumption DEF LspInv, LspTyped, LspTypeOK, Config
<1>7. job[Main].doc \in Doc /\ job'[Main].doc = job[Main].doc
  BY <1>1 DEF LspInv, LspTyped, MainFits, Working
<1>8. LspTypeOK' /\ DOMAIN found' = Place
  BY <1>1, TypesOf DEF LspInv, LspTyped, LspTypeOK
<1>9. \A u \in Thread : JobFits(u)'
  BY <1>1 DEF LspInv, LspTyped, JobFits
<1>10. MainFits'
  BY <1>1, <1>3, <1>6, <1>7 DEF MainFits
<1>11. TextFits'
  BY <1>1 DEF LspInv, TextFits
<1>12. Apart' /\ Meets'
  BY <1>2, <1>4, <1>7 DEF LspInv, Apart, Meets
<1>13. \A u \in Thread : Lone(u)' /\ Seeded(u)'
  BY <1>2, <1>4, <1>5 DEF LspInv, Lone, Seeded, Matched, At
<1>14. Late'
  BY <1>1, <1>2, <1>7 DEF LspInv, Late, At
<1>15. NoRebuild' <=> NoRebuild
  BY <1>2 DEF NoRebuild
<1>16. OnlyCrossedDiffer'
  BY <1>15 DEF LspInv, OnlyCrossedDiffer, Matched
<1>17. OnlyTornMislead' /\ LoneRead'
  BY <1>4, <1>5, <1>7, <1>15
  DEF LspInv, OnlyTornMislead, LoneRead, Handled, BufferIsRead, Overlay, At
<1>18. Keyed'
  <2>1. Settled' => Settled
    BY <1>4, <1>5, <1>15 DEF Settled, At
  <2>2. Settled => Matched
    <3>1. \A u \in Thread : job[u].alone /\ At(u, "notify") => Rebuilding(u)
      BY DEF At, Rebuilding
    <3> QED BY <3>1 DEF LspInv, Settled, OnlyCrossedDiffer, Lone, At
  <2>3. At(Main, "sync")' => r.root = RootOf[config.place]
    BY <1>1 DEF At
  <2>4. SUFFICES ASSUME Settled, session # Nil, At(Main, "sync")'
                 PROVE  r.root = session.root
    <3>1. r.held => session # Nil
      BY NilAssumption
    <3> QED BY <2>1, <1>1, <3>1 DEF Keyed
  <2> QED BY <2>2, <2>3, <2>4 DEF Matched
<1> QED
  BY <1>8, <1>9, <1>10, <1>11, <1>12, <1>13, <1>14, <1>16, <1>17, <1>18
  DEF LspInv, LspTyped


(* What the handler writes is what the document should be read from.       *)
LEMMA SyncStep ==
  ASSUME LspInv, Sync
  PROVE  LspInv'
<1> DEFINE me == job[Main]
           n == Key[me.root][me.doc]
<1>1. /\ me.pc = "sync" /\ me.doc \in Doc /\ me.root \in Root /\ n \in Name
      /\ ~Rebuilding(Main)
  BY LspAssumption
  DEF LspInv, LspTyped, MainFits, Working, Sync, At, Rebuilding
<1>2. /\ job' \in [Thread -> JobRec] /\ job'[Main] = Idle
      /\ \A u \in Thread \ {Main} : job'[u] = job[u]
  BY OneMoves, MainIsAThread, IdleIsTyped DEF Sync, LspInv, LspTyped, LspTypeOK
<1>3. Idle.pc = "idle" /\ Idle.doc = Nil /\ ~Idle.held /\ ~Idle.lazy /\ ~Idle.changed
  BY DEF Idle
<1>4. UNCHANGED <<doc, disk, found, override, config, reported, crossed, torn>>
  BY DEF Sync
<1>5. \A u \in Thread : Rebuilding(u)' <=> Rebuilding(u)
  BY <1>1, <1>2, <1>3 DEF Rebuilding
<1>6. \A u \in Thread : Rebuilding(u)' => u # Main /\ job'[u] = job[u]
  BY <1>1, <1>2, <1>5
<1>7. \A u \in Thread : At(u, "notify")' \/ At(u, "seed")' => Rebuilding(u)'
  BY DEF At, Rebuilding
<1>8. ~me.held => session' = session
  BY <1>1 DEF Sync
<1>9. ASSUME me.held
      PROVE  /\ session' \in SessRec /\ session \in SessRec
             /\ session'.config = session.config
             /\ session'.root = session.root
             /\ session'.overlay = [session.overlay EXCEPT ![n] = me.text]
  <2>1. session \in SessRec
    BY <1>9 DEF LspInv, LspTyped, MainFits
  <2>2. me.text \in Text \cup {Nil}
    BY MainIsAThread DEF LspInv, LspTyped, LspTypeOK, JobRec
  <2>3. session' = [session EXCEPT !.overlay = [@ EXCEPT ![n] = me.text]]
    BY <1>9, Zenon DEF Sync
  <2> HIDE DEF me, n
  <2> QED BY <2>1, <2>2, <2>3 DEF SessRec
<1>10. session' \in SessRec \cup {Nil}
  BY <1>8, <1>9 DEF LspInv, LspTyped, LspTypeOK
<1>11. LspTypeOK' /\ DOMAIN found' = Place
  BY <1>2, <1>4, <1>10 DEF LspInv, LspTyped, LspTypeOK
<1>12. \A u \in Thread : JobFits(u)'
  BY <1>2, <1>3 DEF LspInv, LspTyped, JobFits
<1>13. MainFits' /\ TextFits'
  BY <1>2, <1>3, <1>4, MainIsAThread
  DEF LspInv, MainFits, TextFits, Working, Rebuilding
<1>14. Apart' /\ Meets'
  BY <1>2, <1>3, <1>5, <1>6 DEF LspInv, Apart, Meets
<1>15. /\ Matched => Matched'
       /\ session # Nil => session' # Nil
  BY <1>4, <1>8, <1>9, NilAssumption DEF Matched
<1>16. \A u \in Thread : Lone(u)' /\ Seeded(u)'
  BY <1>4, <1>5, <1>6, <1>7, <1>15 DEF LspInv, Lone, Seeded, At
<1>17. Late' /\ Keyed'
  BY <1>2, <1>3 DEF Late, Keyed, At
<1>18. NoRebuild' <=> NoRebuild
  BY <1>5 DEF NoRebuild
<1>19. OnlyCrossedDiffer'
  BY <1>4, <1>15, <1>18 DEF LspInv, OnlyCrossedDiffer
<1>20. ASSUME NEW d \in Inside[session'.root],
              ~me.held => d # me.doc,
              me.held => Settled,
              d # me.doc => BufferIsRead(d)
       PROVE  BufferIsRead(d)'
  <2>1. CASE ~me.held
    BY <2>1, <1>4, <1>8, <1>20 DEF BufferIsRead, Overlay
  <2>2. CASE me.held
    <3>1. me.root = session.root /\ session'.root = session.root
      BY <1>1, <1>9, <1>20, <2>2 DEF LspInv, Keyed, At
    <3>2. session.root \in Root /\ session.overlay \in [Name -> Text \cup {Nil}]
      BY <1>9, <2>2 DEF SessRec
    <3>3. d \in Doc /\ Key[session.root][d] \in Name
      BY <3>1, <3>2, LspAssumption
    <3>4. CASE d = me.doc
      <4>1. Overlay(d)' = me.text
        BY <1>9, <2>2, <3>1, <3>2, <3>3, <3>4 DEF Overlay
      <4>2. /\ doc[d].open =>
                 me.text = doc[d].text \/ (~doc[d].dirty /\ me.text = Nil)
            /\ ~doc[d].open => me.text = Nil
        BY <3>3, <3>4 DEF LspInv, TextFits
      <4> QED BY <4>1, <4>2, <1>4 DEF BufferIsRead
    <3>5. CASE d # me.doc
      <4>1. Key[session.root][d] # n
        BY <1>1, <3>1, <3>2, <3>5, KeyAssumption
      <4>2. Overlay(d)' = Overlay(d)
        BY <1>1, <1>9, <2>2, <3>1, <3>2, <3>3, <4>1 DEF Overlay
      <4> QED BY <1>4, <1>20, <3>5, <4>2 DEF BufferIsRead
    <3> QED BY <3>4, <3>5
  <2> QED BY <2>1, <2>2
<1>21. session'.root = session.root
  BY <1>8, <1>9
<1>22. OnlyTornMislead'
  <2> SUFFICES ASSUME NoRebuild, ~crossed, session' # Nil,
                      NEW d \in Inside[session'.root] \ torn
               PROVE  BufferIsRead(d)'
    BY <1>4, <1>18 DEF OnlyTornMislead
  <2>1. Settled
    BY DEF Settled
  <2>2. session # Nil
    BY <1>8, <1>9, NilAssumption
  <2>3. d # me.doc => BufferIsRead(d)
    BY <1>21, <2>2 DEF LspInv, OnlyTornMislead, Handled
  <2>4. ~me.held => d # me.doc
    BY <1>1 DEF LspInv, Late, NoRebuild, At
  <2> QED BY <1>20, <2>1, <2>3, <2>4
<1>23. LoneRead'
  <2> SUFFICES ASSUME NEW t \in Thread, job'[t].alone, At(t, "notify")',
                      NEW d \in Inside[session'.root] \ job'[t].met
               PROVE  BufferIsRead(d)'
    BY DEF LoneRead
  <2>1. Rebuilding(t) /\ t # Main /\ job'[t] = job[t]
    BY <1>5, <1>6, <1>7
  <2>2. Settled
    BY <2>1 DEF Settled, At
  <2>3. me.doc \in job[t].met
    BY <1>1, <2>1, MainIsAThread DEF LspInv, Meets
  <2>4. d # me.doc /\ BufferIsRead(d)
    BY <1>21, <2>1, <2>3 DEF LspInv, LoneRead, Handled, At
  <2> QED BY <1>20, <2>2, <2>4
<1> QED
  BY <1>11, <1>12, <1>13, <1>14, <1>16, <1>17, <1>19, <1>22, <1>23
  DEF LspInv, LspTyped

-----------------------------------------------------------------------------
(* Files.                                                                  *)

(* No part of the invariant but the types reads a file.                    *)
LEMMA FilesStep ==
  ASSUME LspInv, LspTypeOK', DOMAIN found' = Place,
         UNCHANGED <<doc, override, config, reported, session, job, crossed, torn>>
  PROVE  LspInv'
<1>1. (NoRebuild' <=> NoRebuild) /\ (Matched' <=> Matched)
  BY DEF NoRebuild, Rebuilding, Matched
<1>2. LspTyped'
  BY DEF LspInv, LspTyped, JobFits, MainFits, Working, Rebuilding
<1>3. TextFits' /\ Apart' /\ Meets' /\ Late' /\ Keyed'
  BY DEF LspInv, TextFits, Apart, Meets, Late, Keyed, Settled, NoRebuild, Rebuilding, At
<1>4. \A t \in Thread : Lone(t)' /\ Seeded(t)'
  BY DEF LspInv, Lone, Seeded, Matched, Rebuilding, At
<1>5. OnlyCrossedDiffer' /\ OnlyTornMislead' /\ LoneRead'
  BY <1>1
  DEF LspInv, OnlyCrossedDiffer, OnlyTornMislead, LoneRead, Handled, BufferIsRead,
      Overlay, At
<1> QED BY <1>2, <1>3, <1>4, <1>5 DEF LspInv

LEMMA EditFileStep ==
  ASSUME LspInv, NEW d \in Doc, EditFile(d)
  PROVE  LspInv'
<1>1. LspTypeOK' /\ DOMAIN found' = Place
  BY DEF EditFile, LspInv, LspTyped, LspTypeOK
<1> QED BY <1>1, FilesStep DEF EditFile

LEMMA EditConfigStep ==
  ASSUME LspInv, NEW p \in Place, EditConfig(p)
  PROVE  LspInv'
<1>1. PICK v \in Written[p] : found' = [found EXCEPT ![p] = v]
  BY DEF EditConfig
<1>2. DOMAIN found' = Place /\ \A q \in Place : found'[q] \in Written[q]
  BY <1>1 DEF LspInv, LspTyped, LspTypeOK
<1>3. LspTypeOK'
  BY <1>2 DEF EditConfig, LspInv, LspTyped, LspTypeOK
<1> QED BY <1>2, <1>3, FilesStep DEF EditConfig


-----------------------------------------------------------------------------
(* The document handlers.                                                  *)

(* What Handle does to the jobs.                                           *)
LEMMA HandleMoves ==
  ASSUME LspInv, NEW d \in Doc, NEW text \in Text \cup {Nil}, Handle(d, text)
  PROVE  /\ job' \in [Thread -> JobRec]
         /\ job'[Main].pc = "session" /\ job'[Main].doc = d
         /\ job'[Main].text = text /\ ~job'[Main].held
         /\ ~job'[Main].lazy /\ ~job'[Main].changed
         /\ \A u \in Thread \ {Main} :
              /\ job'[u].pc = job[u].pc /\ job'[u].config = job[u].config
              /\ job'[u].lazy = job[u].lazy /\ job'[u].changed = job[u].changed
              /\ job'[u].alone = job[u].alone /\ job'[u].new = job[u].new
              /\ job'[u].todo = job[u].todo
              /\ job[u].met \subseteq job'[u].met
              /\ Rebuilding(u) => d \in job'[u].met
<1>1. job \in [Thread -> JobRec]
  BY DEF LspInv, LspTyped, LspTypeOK
<1> DEFINE first == [Idle EXCEPT !.pc = "session", !.doc = d, !.text = text]
           met(u) == [job[u] EXCEPT !.met = job[u].met \cup {d}]
<1>2. job' = [u \in Thread |->
                IF u = Main THEN first ELSE IF Rebuilding(u) THEN met(u) ELSE job[u]]
  BY Zenon DEF Handle
<1>3. /\ first \in JobRec /\ first.pc = "session" /\ first.doc = d
      /\ first.text = text /\ ~first.held /\ ~first.lazy /\ ~first.changed
  BY IdleIsTyped DEF Idle, JobRec
<1>4. \A u \in Thread :
        /\ met(u) \in JobRec
        /\ met(u).pc = job[u].pc /\ met(u).config = job[u].config
        /\ met(u).lazy = job[u].lazy /\ met(u).changed = job[u].changed
        /\ met(u).alone = job[u].alone /\ met(u).new = job[u].new
        /\ met(u).todo = job[u].todo
        /\ met(u).met = job[u].met \cup {d}
  BY <1>1 DEF JobRec
<1> HIDE DEF first, met
<1>5. job' \in [Thread -> JobRec]
  BY <1>1, <1>2, <1>3, <1>4
<1>6. job'[Main] = first
  BY <1>2, MainIsAThread
<1>7. ASSUME NEW u \in Thread \ {Main}
      PROVE  job'[u] = IF Rebuilding(u) THEN met(u) ELSE job[u]
  BY <1>2
<1> QED BY <1>3, <1>4, <1>5, <1>6, <1>7

LEMMA HandleStep ==
  ASSUME LspInv, NEW d \in Doc, NEW text \in Text \cup {Nil}, Handle(d, text),
         LspTypeOK',
         \A e \in Doc \ {d} : doc'[e] = doc[e],
         doc'[d].open => text = doc'[d].text \/ (~doc'[d].dirty /\ text = Nil),
         ~doc'[d].open => text = Nil,
         doc'[d].open => doc'[d].text \in Text,
         UNCHANGED <<found, override, config, reported, session, crossed>>
  PROVE  LspInv'
<1>1. /\ job'[Main].pc = "session" /\ job'[Main].doc = d
      /\ job'[Main].text = text /\ ~job'[Main].held
      /\ ~job'[Main].lazy /\ ~job'[Main].changed
  BY HandleMoves
<1>2. \A u \in Thread \ {Main} :
        /\ job'[u].pc = job[u].pc /\ job'[u].config = job[u].config
        /\ job'[u].lazy = job[u].lazy /\ job'[u].changed = job[u].changed
        /\ job'[u].alone = job[u].alone /\ job'[u].new = job[u].new
        /\ job'[u].todo = job[u].todo
        /\ job[u].met \subseteq job'[u].met
        /\ Rebuilding(u) => d \in job'[u].met
  BY HandleMoves
<1>3. job[Main].pc = "idle" /\ job[Main].doc = Nil
  BY DEF Handle, At, LspInv, LspTyped, MainFits
<1>4. \A u \in Thread : Rebuilding(u)' <=> Rebuilding(u)
  BY <1>1, <1>2, <1>3 DEF Rebuilding
<1>5. \A u \in Thread : Rebuilding(u)' => u # Main
  BY <1>1 DEF Rebuilding
<1>6. \A u \in Thread : At(u, "notify")' \/ At(u, "seed")' => Rebuilding(u)'
  BY DEF At, Rebuilding
<1>7. \A u \in Thread : JobFits(u)'
  BY <1>1, <1>2 DEF LspInv, LspTyped, JobFits
<1>8. MainFits' /\ TextFits'
  BY <1>1 DEF LspInv, MainFits, TextFits, Working, Rebuilding
<1>9. Apart' /\ Meets'
  BY <1>1, <1>2, <1>4, <1>5 DEF LspInv, Apart, Meets
<1>10. \A u \in Thread : Lone(u)'
  BY <1>2, <1>4, <1>5 DEF LspInv, Lone, Matched
<1>11. ASSUME NEW u \in Thread
       PROVE  Seeded(u)'
  <2> SUFFICES ASSUME At(u, "seed")',
                      NEW e \in Inside[job'[u].new.root] \ job'[u].met
      PROVE  /\ doc'[e].open =>
                  \/ e \in job'[u].todo
                  \/ job'[u].new.overlay[Key[job'[u].new.root][e]] = doc'[e].text
             /\ ~doc'[e].open =>
                  /\ e \notin job'[u].todo
                  /\ job'[u].new.overlay[Key[job'[u].new.root][e]] = Nil
    BY DEF Seeded
  <2>1. u # Main /\ Rebuilding(u) /\ job[u].pc = "seed"
    BY <1>2, <1>4, <1>5, <1>6 DEF At
  <2>2. job'[u].new = job[u].new /\ job'[u].todo = job[u].todo
        /\ e \notin job[u].met /\ e # d
    BY <1>2, <2>1
  <2>3. e \in Doc
    <3>1. job'[u].new \in SessRec
      BY <1>7 DEF JobFits, At
    <3> QED BY <3>1, LspAssumption DEF SessRec
  <2>4. doc'[e] = doc[e]
    BY <2>2, <2>3
  <2> QED BY <2>1, <2>2, <2>4 DEF LspInv, Seeded, At
<1>12. Late' /\ Keyed'
  BY <1>1 DEF Late, Keyed, At
<1>13. NoRebuild' <=> NoRebuild
  BY <1>4 DEF NoRebuild
<1>14. OnlyCrossedDiffer'
  BY <1>13 DEF LspInv, OnlyCrossedDiffer, Matched
<1>15. session # Nil => Inside[session.root] \subseteq Doc
  BY LspAssumption DEF LspInv, LspTyped, LspTypeOK, SessRec
<1>16. \A e \in Doc \ {d} : BufferIsRead(e) => BufferIsRead(e)'
  BY DEF BufferIsRead, Overlay
<1>17. OnlyTornMislead'
  <2> SUFFICES ASSUME NoRebuild, ~crossed, session # Nil,
                      NEW e \in Inside[session.root] \ (torn' \cup {d})
               PROVE  BufferIsRead(e)'
    BY <1>1, <1>13 DEF OnlyTornMislead, Handled
  <2>1. e \in Doc \ {d} /\ e \notin torn /\ e # Nil
    BY <1>15, MainIsAThread DEF Handle
  <2> QED BY <1>3, <1>16, <2>1 DEF LspInv, OnlyTornMislead, Handled
<1>18. LoneRead'
  <2> SUFFICES ASSUME NEW t \in Thread, job'[t].alone, At(t, "notify")',
                      NEW e \in Inside[session.root] \ (job'[t].met \cup {d})
               PROVE  BufferIsRead(e)'
    BY <1>1 DEF LoneRead, Handled
  <2>1. t # Main /\ job[t].alone /\ At(t, "notify") /\ e \notin job[t].met
    BY <1>2, <1>5, <1>6 DEF At
  <2>2. session # Nil
    BY <1>4, <1>6, <2>1 DEF LspInv, Lone, At
  <2>3. e \in Doc \ {d} /\ e # Nil
    BY <1>15, <2>2, MainIsAThread
  <2> QED BY <1>3, <1>16, <2>1, <2>3 DEF LspInv, LoneRead, Handled
<1>19. DOMAIN found' = Place
  BY DEF LspInv, LspTyped
<1> QED
  BY <1>7, <1>8, <1>9, <1>10, <1>11, <1>12, <1>14, <1>17, <1>18, <1>19
  DEF LspInv, LspTyped


-----------------------------------------------------------------------------
(* A rebuild begins.                                                       *)

LEMMA BeginMoves ==
  ASSUME LspInv, NEW t \in Thread, NEW first \in JobRec, job' = Begins(t, first)
  PROVE  /\ job' \in [Thread -> JobRec]
         /\ job'[t].pc = first.pc /\ job'[t].doc = first.doc
         /\ job'[t].text = first.text /\ job'[t].held = first.held
         /\ job'[t].lazy = first.lazy /\ job'[t].changed = first.changed
         /\ job'[t].alone = NoRebuild
         /\ t # Main /\ job[Main].doc # Nil => job[Main].doc \in job'[t].met
         /\ \A u \in Thread \ {t} :
              /\ ~job'[u].alone
              /\ job'[u].pc = job[u].pc /\ job'[u].doc = job[u].doc
              /\ job'[u].text = job[u].text /\ job'[u].held = job[u].held
              /\ job'[u].lazy = job[u].lazy /\ job'[u].changed = job[u].changed
              /\ job'[u].root = job[u].root /\ job'[u].config = job[u].config
              /\ job'[u].new = job[u].new /\ job'[u].todo = job[u].todo
              /\ job'[u].met = job[u].met
<1> DEFINE seen == IF job[Main].doc = Nil \/ t = Main THEN {} ELSE {job[Main].doc}
           begun == [first EXCEPT !.alone = NoRebuild, !.met = seen]
           joined(u) == [job[u] EXCEPT !.alone = FALSE]
<1>1. job \in [Thread -> JobRec] /\ NoRebuild \in BOOLEAN
  BY DEF LspInv, LspTyped, LspTypeOK, NoRebuild
<1>2. seen \subseteq Doc
  BY <1>1, MainIsAThread DEF JobRec
<1>3. job' = [u \in Thread |-> IF u = t THEN begun ELSE joined(u)]
  BY Zenon DEF Begins
<1>4. /\ begun \in JobRec /\ begun.pc = first.pc /\ begun.doc = first.doc
      /\ begun.text = first.text /\ begun.held = first.held
      /\ begun.lazy = first.lazy /\ begun.changed = first.changed
      /\ begun.alone = NoRebuild
      /\ begun.met = seen
  <2> HIDE DEF seen
  <2> QED BY <1>1, <1>2 DEF JobRec
<1>5. \A u \in Thread :
        /\ joined(u) \in JobRec
        /\ ~joined(u).alone
        /\ joined(u).pc = job[u].pc /\ joined(u).doc = job[u].doc
        /\ joined(u).text = job[u].text /\ joined(u).held = job[u].held
        /\ joined(u).lazy = job[u].lazy /\ joined(u).changed = job[u].changed
        /\ joined(u).root = job[u].root /\ joined(u).config = job[u].config
        /\ joined(u).new = job[u].new /\ joined(u).todo = job[u].todo
        /\ joined(u).met = job[u].met
  BY <1>1 DEF JobRec
<1>6. t # Main /\ job[Main].doc # Nil => job[Main].doc \in seen
  OBVIOUS
<1> HIDE DEF begun, joined, seen
<1>7. job' \in [Thread -> JobRec]
  BY <1>3, <1>4, <1>5
<1>8. job'[t] = begun
  BY <1>3
<1>9. \A u \in Thread \ {t} : job'[u] = joined(u)
  BY <1>3
<1> QED BY <1>4, <1>5, <1>6, <1>7, <1>8, <1>9

LEMMA BeginStep ==
  ASSUME LspInv, NEW t \in Thread, NEW first \in JobRec, job' = Begins(t, first),
         job[t].pc \in {"idle", "session", "override"},
         first.pc \in {"resolve", "lookup"},
         ~first.changed,
         first.lazy <=> first.pc = "lookup",
         t = Main => /\ first.doc = job[Main].doc
                     /\ first.doc # Nil => first.text = job[Main].text
                     /\ ~first.held
                     /\ first.doc # Nil <=> first.lazy,
         UNCHANGED <<doc, disk, found, override, config, reported, session, crossed, torn>>
  PROVE  LspInv'
<1>1. /\ job' \in [Thread -> JobRec]
      /\ job'[t].pc = first.pc /\ job'[t].doc = first.doc
      /\ job'[t].text = first.text /\ job'[t].held = first.held
      /\ job'[t].lazy = first.lazy /\ job'[t].changed = first.changed
      /\ job'[t].alone = NoRebuild
      /\ t # Main /\ job[Main].doc # Nil => job[Main].doc \in job'[t].met
  BY BeginMoves
<1>2. \A u \in Thread \ {t} :
        /\ ~job'[u].alone
        /\ job'[u].pc = job[u].pc /\ job'[u].doc = job[u].doc
        /\ job'[u].text = job[u].text /\ job'[u].held = job[u].held
        /\ job'[u].lazy = job[u].lazy /\ job'[u].changed = job[u].changed
        /\ job'[u].root = job[u].root /\ job'[u].config = job[u].config
        /\ job'[u].new = job[u].new /\ job'[u].todo = job[u].todo
        /\ job'[u].met = job[u].met
  BY BeginMoves
<1>3. /\ Rebuilding(t)' /\ ~Rebuilding(t)
      /\ ~At(t, "seed")' /\ ~At(t, "notify")' /\ ~At(t, "root")' /\ ~At(t, "sync")'
      /\ ~NoRebuild'
  BY <1>1 DEF Rebuilding, At, NoRebuild
<1>4. \A u \in Thread \ {t} : Rebuilding(u)' <=> Rebuilding(u)
  BY <1>2 DEF Rebuilding
<1>5. LspTypeOK' /\ DOMAIN found' = Place
  BY <1>1, TypesOf DEF LspInv, LspTyped, LspTypeOK
<1>6. \A u \in Thread : JobFits(u)'
  BY <1>1, <1>2 DEF LspInv, LspTyped, JobFits
<1>7. /\ job'[Main].doc = job[Main].doc
      /\ job[Main].doc # Nil => job'[Main].text = job[Main].text
  BY <1>1, <1>2, MainIsAThread
<1>8. MainFits'
  <2>1. CASE t = Main
    BY <2>1, <1>1 DEF MainFits, Working, Rebuilding
  <2>2. CASE t # Main
    BY <2>2, <1>2, MainIsAThread DEF LspInv, LspTyped, MainFits, Working, Rebuilding
  <2> QED BY <2>1, <2>2
<1>9. TextFits'
  BY <1>7, MainIsAThread DEF LspInv, TextFits
<1>10. Apart'
  <2> SUFFICES ASSUME NEW u \in Thread, NEW v \in Thread \ {u},
                      Rebuilding(u)', job'[u].alone
               PROVE  ~Rebuilding(v)'
    BY DEF Apart
  <2>1. u = t /\ NoRebuild
    BY <1>1, <1>2
  <2> QED BY <1>4, <2>1 DEF NoRebuild
<1>11. \A u \in Thread : Lone(u)' /\ Seeded(u)'
  <2>1. Lone(t)' /\ Seeded(t)'
    BY <1>1, <1>3 DEF Lone, Seeded
  <2>2. \A u \in Thread \ {t} : Lone(u)' /\ Seeded(u)'
    BY <1>2 DEF LspInv, Lone, Seeded, At
  <2> QED BY <2>1, <2>2
<1>12. Meets'
  <2> SUFFICES ASSUME job[Main].doc # Nil, NEW u \in Thread \ {Main}, Rebuilding(u)'
               PROVE  job[Main].doc \in job'[u].met
    BY <1>7 DEF Meets
  <2>1. CASE u = t
    BY <2>1, <1>1
  <2>2. CASE u # t
    BY <2>2, <1>2, <1>4 DEF LspInv, Meets
  <2> QED BY <2>1, <2>2
<1>13. Late'
  <2> SUFFICES ASSUME At(Main, "root")' \/ At(Main, "sync")'
               PROVE  \E u \in Thread \ {Main} : Rebuilding(u)'
    BY DEF Late
  <2> QED BY <1>3
<1>14. \A u \in Thread : ~(job'[u].alone /\ At(u, "notify")')
  BY <1>2, <1>3
<1>15. LoneRead' /\ Keyed'
  BY <1>3, <1>14 DEF LoneRead, Keyed, Settled
<1> QED
  BY <1>3, <1>5, <1>6, <1>8, <1>9, <1>10, <1>11, <1>12, <1>13, <1>15
  DEF LspInv, LspTyped, OnlyCrossedDiffer, OnlyTornMislead

-----------------------------------------------------------------------------
(* A rebuild publishes its session, and ends.                              *)

LEMMA PublishMoves ==
  ASSUME LspInv, NEW t \in Thread, Publish(t)
  PROVE  /\ job' \in [Thread -> JobRec]
         /\ \A u \in Thread \ {t} :
              /\ ~job'[u].held
              /\ job'[u].pc = job[u].pc /\ job'[u].doc = job[u].doc
              /\ job'[u].text = job[u].text /\ job'[u].alone = job[u].alone
              /\ job'[u].lazy = job[u].lazy /\ job'[u].changed = job[u].changed
              /\ job'[u].root = job[u].root /\ job'[u].config = job[u].config
              /\ job'[u].new = job[u].new /\ job'[u].todo = job[u].todo
              /\ job'[u].met = job[u].met
         /\ job[t].changed =>
              /\ job'[t].pc = "notify" /\ job'[t].doc = job[t].doc
              /\ job'[t].text = job[t].text /\ job'[t].alone = job[t].alone
              /\ job'[t].lazy = job[t].lazy /\ job'[t].changed = job[t].changed
              /\ job'[t].config = job[t].config /\ job'[t].held = job[t].held
              /\ job'[t].met = job[t].met
         /\ ~job[t].changed =>
              /\ ~job'[t].held /\ ~job'[t].changed /\ ~job'[t].lazy
              /\ \/ job'[t].pc = "again" /\ t = Main /\ job[t].lazy
                    /\ job'[t].doc = job[t].doc /\ job'[t].text = job[t].text
                 \/ job'[t].pc = "idle" /\ job'[t].doc = Nil
<1>1. job \in [Thread -> JobRec] /\ job[t] \in JobRec
  BY DEF LspInv, LspTyped, LspTypeOK
<1> DEFINE dropped(u) == [job[u] EXCEPT !.held = FALSE]
           telling == [job[t] EXCEPT !.pc = "notify", !.new = Nil]
           again == [Idle EXCEPT !.pc = "again", !.doc = job[t].doc, !.text = job[t].text]
<1>2. job' = [u \in Thread |-> IF u = t THEN Published(t) ELSE dropped(u)]
  BY Zenon DEF Publish
<1>3. \A u \in Thread :
        /\ dropped(u) \in JobRec
        /\ ~dropped(u).held
        /\ dropped(u).pc = job[u].pc /\ dropped(u).doc = job[u].doc
        /\ dropped(u).text = job[u].text /\ dropped(u).alone = job[u].alone
        /\ dropped(u).lazy = job[u].lazy /\ dropped(u).changed = job[u].changed
        /\ dropped(u).root = job[u].root /\ dropped(u).config = job[u].config
        /\ dropped(u).new = job[u].new /\ dropped(u).todo = job[u].todo
        /\ dropped(u).met = job[u].met
  BY <1>1 DEF JobRec
<1>4. /\ telling \in JobRec
      /\ telling.pc = "notify" /\ telling.doc = job[t].doc
      /\ telling.text = job[t].text /\ telling.alone = job[t].alone
      /\ telling.lazy = job[t].lazy /\ telling.changed = job[t].changed
      /\ telling.config = job[t].config /\ telling.held = job[t].held
      /\ telling.met = job[t].met
  BY <1>1 DEF JobRec
<1>5. /\ again \in JobRec
      /\ ~again.held /\ ~again.changed /\ ~again.lazy
      /\ again.pc = "again" /\ again.doc = job[t].doc /\ again.text = job[t].text
  BY <1>1, IdleIsTyped DEF Idle, JobRec
<1>6. Published(t) = IF job[t].changed THEN telling
                     ELSE IF job[t].lazy /\ t = Main THEN again ELSE Idle
  <2>1. job[t].changed => ~job[t].lazy
    BY DEF LspInv, LspTyped, JobFits
  <2>2. CASE job[t].changed
    BY <2>1, <2>2, Zenon DEF Published
  <2>3. CASE ~job[t].changed /\ job[t].lazy /\ t = Main
    BY <2>3, Zenon DEF Published
  <2>4. CASE ~job[t].changed /\ ~(job[t].lazy /\ t = Main)
    BY <2>4, Zenon DEF Published
  <2> QED BY <2>2, <2>3, <2>4
<1> HIDE DEF dropped, telling, again
<1>7. job'[t] = Published(t) /\ Published(t) \in JobRec
  BY <1>2, <1>4, <1>5, <1>6, IdleIsTyped
<1>8. job' \in [Thread -> JobRec]
  BY <1>2, <1>3, <1>7
<1>9. \A u \in Thread \ {t} : job'[u] = dropped(u)
  BY <1>2
<1>10. Idle.pc = "idle" /\ Idle.doc = Nil /\ ~Idle.held /\ ~Idle.changed /\ ~Idle.lazy
  BY DEF Idle
<1>11. job[t].changed => job'[t] = telling
  BY <1>6, <1>7
<1>12. ~job[t].changed =>
         job'[t] = IF job[t].lazy /\ t = Main THEN again ELSE Idle
  BY <1>6, <1>7
<1> QED BY <1>3, <1>4, <1>5, <1>8, <1>9, <1>10, <1>11, <1>12


LEMMA PublishStep ==
  ASSUME LspInv, NEW t \in Thread, Publish(t)
  PROVE  LspInv'
<1>1. /\ job[t].pc = "seed" /\ Rebuilding(t) /\ job[t].todo = {}
      /\ job[t] \in JobRec
  BY DEF Publish, At, Rebuilding, LspInv, LspTyped, LspTypeOK
<1>2. /\ session' = job[t].new /\ session' \in SessRec
      /\ session'.config = job[t].config
      /\ session'.root = RootOf[job[t].config.place]
  BY <1>1 DEF Publish, LspInv, LspTyped, JobFits
<1>3. session' # Nil
  BY <1>2, NilAssumption
<1>4. UNCHANGED <<doc, disk, found, override, config, reported>>
  BY DEF Publish
<1>5. /\ job[t].changed => UNCHANGED <<crossed, torn>>
      /\ ~job[t].changed => crossed' = ~job[t].alone /\ torn' = job[t].met
  BY DEF Publish, Ends
<1>6. job' \in [Thread -> JobRec]
  BY PublishMoves
<1>7. \A u \in Thread \ {t} :
        /\ ~job'[u].held
        /\ job'[u].pc = job[u].pc /\ job'[u].doc = job[u].doc
        /\ job'[u].text = job[u].text /\ job'[u].alone = job[u].alone
        /\ job'[u].lazy = job[u].lazy /\ job'[u].changed = job[u].changed
        /\ job'[u].root = job[u].root /\ job'[u].config = job[u].config
        /\ job'[u].new = job[u].new /\ job'[u].todo = job[u].todo
        /\ job'[u].met = job[u].met
  BY PublishMoves
<1>8. job[t].changed =>
        /\ job'[t].pc = "notify" /\ job'[t].doc = job[t].doc
        /\ job'[t].text = job[t].text /\ job'[t].alone = job[t].alone
        /\ job'[t].lazy = job[t].lazy /\ job'[t].changed = job[t].changed
        /\ job'[t].config = job[t].config /\ job'[t].held = job[t].held
        /\ job'[t].met = job[t].met
  BY PublishMoves
<1>9. ~job[t].changed =>
        /\ ~job'[t].held /\ ~job'[t].changed /\ ~job'[t].lazy
        /\ \/ job'[t].pc = "again" /\ t = Main /\ job[t].lazy
              /\ job'[t].doc = job[t].doc /\ job'[t].text = job[t].text
           \/ job'[t].pc = "idle" /\ job'[t].doc = Nil
  BY PublishMoves
<1>10. LspTypeOK' /\ DOMAIN found' = Place
  <2>1. crossed' \in BOOLEAN /\ torn' \subseteq Doc
    BY <1>1, <1>5 DEF LspInv, LspTyped, LspTypeOK, JobRec
  <2> QED BY <1>2, <1>4, <1>6, <2>1 DEF LspInv, LspTyped, LspTypeOK
<1>11. Rebuilding(t)' <=> job[t].changed
  BY <1>8, <1>9 DEF Rebuilding
<1>12. \A u \in Thread \ {t} : Rebuilding(u)' <=> Rebuilding(u)
  BY <1>7 DEF Rebuilding
<1>13. \A u \in Thread : JobFits(u)'
  <2>1. \A u \in Thread \ {t} : JobFits(u)'
    BY <1>7 DEF LspInv, LspTyped, JobFits
  <2>2. JobFits(t)'
    BY <1>8, <1>9 DEF LspInv, LspTyped, JobFits
  <2> QED BY <2>1, <2>2
<1>14. MainFits' /\ TextFits'
  <2>1. CASE t # Main
    BY <2>1, <1>2, <1>4, <1>7, <1>12, MainIsAThread
    DEF LspInv, LspTyped, MainFits, TextFits, Working
  <2>2. CASE t = Main /\ job[t].changed
    BY <2>2, <1>1, <1>4, <1>8 DEF LspInv, LspTyped, MainFits, TextFits, Working, Rebuilding
  <2>3. CASE t = Main /\ ~job[t].changed
    <3>1. job[t].lazy => job[t].doc \in Doc
      BY <2>3, <1>1 DEF LspInv, LspTyped, MainFits, JobRec
    <3>2. MainFits'
      BY <2>3, <3>1, <1>2, <1>9 DEF MainFits, Working, Rebuilding
    <3>3. CASE job'[Main].doc = Nil
      BY <3>2, <3>3, <1>4, MainIsAThread DEF LspInv, TextFits
    <3>4. CASE job'[Main].doc = job[Main].doc /\ job'[Main].text = job[Main].text
      BY <3>2, <3>4, <1>4 DEF LspInv, TextFits
    <3> QED BY <2>3, <3>2, <3>3, <3>4, <1>9
  <2> QED BY <2>1, <2>2, <2>3
<1>15. \A u \in Thread \ {t} : ~(Rebuilding(u) /\ (job[u].alone \/ job[t].alone))
  BY <1>1 DEF LspInv, Apart
<1>16. Apart'
  BY <1>7, <1>8, <1>11, <1>12, <1>15 DEF Apart
<1>17. job[t].alone => job[t].config = config
  BY <1>1 DEF LspInv, Lone
<1>18. job[t].alone => Matched'
  BY <1>2, <1>4, <1>17 DEF Matched
<1>19. \A u \in Thread : Lone(u)'
  <2>1. ASSUME NEW u \in Thread \ {t} PROVE Lone(u)'
    BY <1>7, <1>12, <1>15 DEF Lone
  <2>2. Lone(t)'
    BY <1>3, <1>4, <1>8, <1>11, <1>17, <1>18 DEF Lone
  <2> QED BY <2>1, <2>2
<1>20. \A u \in Thread : Seeded(u)'
  <2>1. ASSUME NEW u \in Thread \ {t} PROVE Seeded(u)'
    BY <1>4, <1>7 DEF LspInv, Seeded, At
  <2>2. Seeded(t)'
    BY <1>8, <1>9 DEF Seeded, At
  <2> QED BY <2>1, <2>2
<1>21. Meets'
  <2> SUFFICES ASSUME job'[Main].doc # Nil, NEW u \in Thread \ {Main}, Rebuilding(u)'
               PROVE  job'[Main].doc \in job'[u].met
    BY DEF Meets
  <2>1. Rebuilding(u) /\ job'[u].met = job[u].met
    BY <1>1, <1>7, <1>8, <1>11, <1>12
  <2>2. job'[Main].doc = job[Main].doc
    BY <1>7, <1>8, <1>9, MainIsAThread
  <2> QED BY <2>1, <2>2 DEF LspInv, Meets
<1>22. Late'
  <2> SUFFICES ASSUME At(Main, "root")' \/ At(Main, "sync")'
               PROVE  \/ job'[Main].doc \in torn'
                      \/ \E u \in Thread \ {Main} : Rebuilding(u)'
    BY DEF Late
  <2>1. t # Main
    BY <1>8, <1>9 DEF At
  <2>2. job'[Main].doc = job[Main].doc /\ job[Main].doc \in Doc
    BY <2>1, <1>7, MainIsAThread DEF LspInv, LspTyped, MainFits, Working, At
  <2>3. job[Main].doc \in job[t].met
    BY <2>1, <2>2, <1>1, MainIsAThread DEF LspInv, Meets
  <2> QED BY <2>1, <2>2, <2>3, <1>5, <1>11
<1>23. NoRebuild' /\ ~crossed' => job[t].alone /\ ~job[t].changed
  BY <1>5, <1>11 DEF NoRebuild, LspInv, LspTyped, LspTypeOK, JobRec
<1>24. OnlyCrossedDiffer'
  BY <1>18, <1>23 DEF OnlyCrossedDiffer
<1>25. ASSUME NEW d \in Inside[session'.root] \ job[t].met
       PROVE  BufferIsRead(d)'
  BY <1>1, <1>2, <1>4 DEF LspInv, Seeded, At, BufferIsRead, Overlay
<1>26. OnlyTornMislead'
  BY <1>5, <1>23, <1>25 DEF OnlyTornMislead
<1>27. LoneRead'
  <2> SUFFICES ASSUME NEW u \in Thread, job'[u].alone, At(u, "notify")',
                      NEW d \in Inside[session'.root] \ job'[u].met
               PROVE  BufferIsRead(d)'
    BY DEF LoneRead
  <2>1. u = t
    BY <1>7, <1>15 DEF At, Rebuilding
  <2>2. job'[u].met = job[t].met
    BY <2>1, <1>8, <1>9 DEF At
  <2> QED BY <2>2, <1>25
<1>28. Keyed'
  <2>1. ~(At(Main, "sync")' /\ job'[Main].held)
    BY <1>7, <1>8, <1>9, MainIsAThread DEF At
  <2> QED BY <2>1 DEF Keyed
<1> QED
  BY <1>10, <1>13, <1>14, <1>16, <1>19, <1>20, <1>21, <1>22, <1>24, <1>26, <1>27, <1>28
  DEF LspInv, LspTyped

LEMMA NotifyStep ==
  ASSUME LspInv, NEW t \in Thread, Notify(t)
  PROVE  LspInv'
<1>1. /\ job[t].pc = "notify" /\ Rebuilding(t)
      /\ job[t] \in JobRec
  BY DEF Notify, At, Rebuilding, LspInv, LspTyped, LspTypeOK
<1>2. /\ job' \in [Thread -> JobRec] /\ job'[t] = Idle
      /\ \A u \in Thread \ {t} : job'[u] = job[u]
  BY OneMoves, IdleIsTyped DEF Notify, LspInv, LspTyped, LspTypeOK
<1>3. Idle.pc = "idle" /\ Idle.doc = Nil /\ ~Idle.held /\ ~Idle.lazy /\ ~Idle.changed
  BY DEF Idle
<1>4. UNCHANGED <<doc, disk, found, override, config, session>>
  BY DEF Notify
<1>5. crossed' = ~job[t].alone /\ torn' = job[t].met
  BY DEF Notify, Ends
<1>6. LspTypeOK' /\ DOMAIN found' = Place
  <2>1. /\ crossed' \in BOOLEAN /\ torn' \subseteq Doc
        /\ job[t].config.place \in Place \cup {Nil}
    BY <1>1, <1>5 DEF JobRec, Config
  <2> QED BY <1>2, <1>4, <2>1 DEF Notify, LspInv, LspTyped, LspTypeOK
<1>7. /\ ~Rebuilding(t)'
      /\ \A u \in Thread \ {t} : Rebuilding(u)' <=> Rebuilding(u)
  BY <1>2, <1>3 DEF Rebuilding
<1>8. \A u \in Thread : JobFits(u)'
  BY <1>2, <1>3 DEF LspInv, LspTyped, JobFits
<1>9. MainFits' /\ TextFits'
  <2>1. CASE t = Main
    BY <2>1, <1>2, <1>3, <1>4, MainIsAThread
    DEF LspInv, MainFits, TextFits, Working, Rebuilding
  <2>2. CASE t # Main
    BY <2>2, <1>2, <1>4, <1>7, MainIsAThread
    DEF LspInv, LspTyped, MainFits, TextFits, Working
  <2> QED BY <2>1, <2>2
<1>10. Apart'
  BY <1>2, <1>7 DEF LspInv, Apart
<1>11. \A u \in Thread : Lone(u)' /\ Seeded(u)'
  <2>1. Lone(t)' /\ Seeded(t)'
    BY <1>2, <1>3, <1>7 DEF Lone, Seeded, At
  <2>2. \A u \in Thread \ {t} : Lone(u)' /\ Seeded(u)'
    BY <1>2, <1>4, <1>7 DEF LspInv, Lone, Seeded, Matched, At
  <2> QED BY <2>1, <2>2
<1>12. Meets'
  BY <1>2, <1>3, <1>7, MainIsAThread DEF LspInv, Meets
<1>13. Late'
  <2> SUFFICES ASSUME At(Main, "root")' \/ At(Main, "sync")'
               PROVE  job'[Main].doc \in torn'
    BY DEF Late
  <2>1. t # Main
    BY <1>2, <1>3 DEF At
  <2>2. job'[Main].doc = job[Main].doc /\ job[Main].doc \in Doc
    BY <2>1, <1>2, MainIsAThread DEF LspInv, LspTyped, MainFits, Working, At
  <2> QED BY <2>1, <2>2, <1>1, <1>5, MainIsAThread DEF LspInv, Meets
<1>14. \A u \in Thread \ {t} : ~(Rebuilding(u) /\ job[u].alone)
  BY <1>1 DEF LspInv, Apart
<1>15. \A u \in Thread : ~(job'[u].alone /\ At(u, "notify")')
  BY <1>2, <1>3, <1>14 DEF At, Rebuilding
<1>16. LoneRead'
  BY <1>15 DEF LoneRead
<1>17. NoRebuild' /\ ~crossed' => job[t].alone
  BY <1>1, <1>5 DEF JobRec
<1>18. OnlyCrossedDiffer'
  BY <1>1, <1>4, <1>17 DEF LspInv, Lone, OnlyCrossedDiffer, Matched
<1>19. job'[Main].doc = job[Main].doc
  <2>1. t = Main => job[Main].doc = Nil
    BY <1>1 DEF LspInv, LspTyped, JobFits, MainFits
  <2> QED BY <2>1, <1>2, <1>3, MainIsAThread
<1>20. OnlyTornMislead'
  BY <1>1, <1>4, <1>5, <1>17, <1>19
  DEF LspInv, LoneRead, OnlyTornMislead, Handled, BufferIsRead, Overlay, At
<1>21. Keyed'
  <2>1. Settled' => Settled
    BY <1>1, <1>15, <1>17 DEF Settled, At
  <2>2. At(Main, "sync")' => job'[Main] = job[Main]
    BY <1>2, <1>3, MainIsAThread DEF At
  <2> QED BY <2>1, <2>2, <1>4 DEF LspInv, Keyed, At
<1> QED
  BY <1>6, <1>8, <1>9, <1>10, <1>11, <1>12, <1>13, <1>16, <1>18, <1>20, <1>21
  DEF LspInv, LspTyped


-----------------------------------------------------------------------------
(* Every action is one of these steps.                                     *)

LEMMA FindSessionStep ==
  ASSUME LspInv, NEW t \in Thread, FindSession(t)
  PROVE  LspInv'
<1>1. job[t] \in JobRec /\ job[t].pc = "session" /\ ~job[t].changed /\ ~job[t].lazy
  BY DEF FindSession, At, LspInv, LspTyped, LspTypeOK, JobFits
<1>2. CASE session # Nil /\ t = Main
  <2> DEFINE r == [job[t] EXCEPT !.pc = "root", !.held = TRUE]
  <2>1. Step(Main, r)
    BY <1>2, Zenon DEF FindSession, Step
  <2>2. /\ r \in JobRec /\ r.doc = job[t].doc /\ r.text = job[t].text
        /\ ~r.lazy /\ ~r.changed /\ r.pc = "root" /\ r.held
    BY <1>1 DEF JobRec
  <2>3. session \in SessRec
    BY <1>2 DEF LspInv, LspTyped, LspTypeOK
  <2> HIDE DEF r
  <2>4. Heads
    BY <1>1, <1>2, <2>1, <2>2, <2>3 DEF Heads
  <2> QED BY <2>4, HeadsStep DEF FindSession
<1>3. CASE session # Nil /\ t # Main
  <2>1. Step(t, Idle)
    <3>1. job' = [job EXCEPT ![t] = IF t = Main
                    THEN [job[t] EXCEPT !.pc = "root", !.held = TRUE] ELSE Idle]
      BY <1>3, Zenon DEF FindSession
    <3>2. Idle = IF t = Main THEN [job[t] EXCEPT !.pc = "root", !.held = TRUE] ELSE Idle
      BY <1>3
    <3> QED BY <3>1, <3>2, Zenon DEF Step
  <2>2. Aside(t)
    BY <1>1, <2>1 DEF Aside, Standing, FindSession, LspInv, LspTyped, LspTypeOK
  <2> QED BY <1>3, <2>2, AsideStep
<1>4. CASE session = Nil
  <2> DEFINE first == [job[t] EXCEPT !.pc = "lookup", !.lazy = TRUE]
  <2>1. job' = Begins(t, first)
    BY <1>4, Zenon DEF FindSession
  <2>2. /\ first \in JobRec /\ first.pc = "lookup" /\ first.lazy
        /\ first.changed = job[t].changed /\ first.held = job[t].held
        /\ first.doc = job[t].doc /\ first.text = job[t].text
    BY <1>1 DEF JobRec
  <2>3. t = Main => job[t].doc # Nil /\ ~job[t].held
    BY <1>1, MainIsAThread DEF LspInv, LspTyped, MainFits, Working
  <2> HIDE DEF first
  <2> QED BY <1>1, <2>1, <2>2, <2>3, BeginStep DEF FindSession
<1> QED BY <1>2, <1>3, <1>4

LEMMA RebuildStep ==
  ASSUME LspInv, NEW t \in Thread, Rebuild(t)
  PROVE  LspInv'
BY ResolveStep, StoreStep, BuildStep, SeedStep, PublishStep, NotifyStep,
   FindSessionStep, LookupStep
DEF Rebuild

LEMMA DocumentStep ==
  ASSUME LspInv, NEW d \in Doc,
         DidOpen(d) \/ DidChange(d) \/ DidSave(d) \/ DidClose(d) \/ DidChangeWatched(d)
  PROVE  LspInv'
<1>1. doc[d] \in DocRec /\ doc \in [Doc -> DocRec]
  BY DEF LspInv, LspTyped, LspTypeOK
<1>2. ASSUME NEW text \in Text \cup {Nil}, Handle(d, text), doc' \in [Doc -> DocRec],
             disk' \in [Doc -> Text],
             UNCHANGED <<found, override, config, reported, session, crossed>>
      PROVE  LspTypeOK'
  <2>1. job' \in [Thread -> JobRec]
    BY <1>2, HandleMoves
  <2>2. torn' \subseteq Doc
    BY <1>2 DEF Handle, LspInv, LspTyped, LspTypeOK
  <2> QED BY <1>2, <2>1, <2>2 DEF LspInv, LspTyped, LspTypeOK
<1>3. ASSUME NEW v \in Text, Handle(d, v),
             doc' = [doc EXCEPT ![d] = [open |-> TRUE, text |-> v, dirty |-> TRUE]],
             UNCHANGED <<disk, found, override, config, reported, session, crossed>>
      PROVE  LspInv'
  <2>1. /\ doc' \in [Doc -> DocRec]
        /\ doc'[d].open /\ doc'[d].text = v
        /\ \A e \in Doc \ {d} : doc'[e] = doc[e]
    BY <1>1, <1>3 DEF DocRec
  <2>2. LspTypeOK'
    BY <1>2, <1>3, <2>1 DEF LspInv, LspTyped, LspTypeOK
  <2> QED BY <1>3, <2>1, <2>2, HandleStep
<1>4. CASE DidOpen(d)
  BY <1>3, <1>4 DEF DidOpen
<1>5. CASE DidChange(d)
  BY <1>3, <1>5 DEF DidChange
<1>6. CASE DidSave(d)
  <2>1. doc' = [doc EXCEPT ![d] = [doc[d] EXCEPT !.dirty = FALSE]]
    BY <1>6, Zenon DEF DidSave
  <2>2. /\ doc' \in [Doc -> DocRec]
        /\ doc'[d].open /\ ~doc'[d].dirty
        /\ \A e \in Doc \ {d} : doc'[e] = doc[e]
    BY <1>1, <1>6, <2>1 DEF DocRec, DidSave
  <2>3. disk' \in [Doc -> Text] /\ doc'[d].text = doc[d].text
    BY <1>1, <1>6, <2>1 DEF DidSave, DocRec, LspInv, LspTyped, LspTypeOK, TextFits
  <2>4. LspTypeOK'
    BY <1>2, <1>6, <2>2, <2>3 DEF DidSave
  <2>5. doc[d].open /\ doc[d].text \in Text
    BY <1>6 DEF DidSave, LspInv, TextFits
  <2>6. /\ Handle(d, Nil)
        /\ UNCHANGED <<found, override, config, reported, session, crossed>>
    BY <1>6 DEF DidSave
  <2> QED BY <2>2, <2>3, <2>4, <2>5, <2>6, HandleStep
<1>7. CASE DidClose(d)
  <2>1. /\ doc' \in [Doc -> DocRec]
        /\ ~doc'[d].open
        /\ \A e \in Doc \ {d} : doc'[e] = doc[e]
    BY <1>1, <1>7 DEF DocRec, DidClose, NotOpen
  <2>2. LspTypeOK'
    BY <1>2, <1>7, <2>1 DEF DidClose, LspInv, LspTyped, LspTypeOK
  <2>3. /\ Handle(d, Nil)
        /\ UNCHANGED <<found, override, config, reported, session, crossed>>
    BY <1>7 DEF DidClose
  <2> QED BY <2>1, <2>2, <2>3, HandleStep
<1>8. CASE DidChangeWatched(d)
  <2>1. LspTypeOK'
    BY <1>1, <1>2, <1>8 DEF DidChangeWatched, LspInv, LspTyped, LspTypeOK
  <2>2. /\ ~doc[d].open /\ doc' = doc /\ Handle(d, Nil)
        /\ UNCHANGED <<found, override, config, reported, session, crossed>>
    BY <1>8 DEF DidChangeWatched
  <2> QED BY <2>1, <2>2, HandleStep
<1> QED BY <1>4, <1>5, <1>6, <1>7, <1>8

LEMMA ReloadBegins ==
  ASSUME LspInv, NEW t \in Thread, BeginReload(t),
         job[t].pc \in {"idle", "override"}, t = Main => At(t, "idle"),
         UNCHANGED <<doc, disk, found, override, config, reported, session, crossed, torn>>
  PROVE  LspInv'
<1> DEFINE first == [Idle EXCEPT !.pc = "resolve", !.over = override]
<1>1. job' = Begins(t, first)
  BY Zenon DEF BeginReload
<1>2. /\ first \in JobRec /\ first.pc = "resolve" /\ ~first.lazy
      /\ ~first.changed /\ ~first.held
      /\ first.doc = Nil /\ first.text = Nil
  BY IdleIsTyped DEF Idle, JobRec, LspInv, LspTyped, LspTypeOK
<1>3. t = Main => job[t].doc = Nil
  BY DEF LspInv, LspTyped, MainFits, At
<1> HIDE DEF first
<1> QED BY <1>1, <1>2, <1>3, BeginStep

LEMMA HandlerStep ==
  ASSUME LspInv, Handler
  PROVE  LspInv'
<1>1. CASE FindAgain
  <2> DEFINE r == [job[Main] EXCEPT !.pc = "root", !.held = TRUE]
  <2>1. job[Main] \in JobRec /\ job[Main].pc = "again" /\ session \in SessRec
    BY <1>1, MainIsAThread
    DEF FindAgain, At, LspInv, LspTyped, LspTypeOK, MainFits
  <2>2. ~job[Main].lazy /\ ~job[Main].changed
    BY <2>1, MainIsAThread DEF LspInv, LspTyped, JobFits
  <2>3. Step(Main, r)
    BY <1>1, Zenon DEF FindAgain
  <2>4. /\ r \in JobRec /\ r.doc = job[Main].doc /\ r.text = job[Main].text
        /\ r.lazy = job[Main].lazy /\ r.changed = job[Main].changed
        /\ r.pc = "root" /\ r.held
    BY <2>1 DEF JobRec
  <2> HIDE DEF r
  <2>5. Heads
    BY <2>1, <2>2, <2>3, <2>4 DEF Heads
  <2> QED BY <1>1, <2>5, HeadsStep DEF FindAgain
<1>2. CASE ReadRoot
  <2> DEFINE r == [job[Main] EXCEPT !.pc = "sync", !.root = RootOf[config.place]]
  <2>1. job[Main] \in JobRec /\ job[Main].pc = "root" /\ RootOf[config.place] \in Root
    BY <1>2, MainIsAThread, LspAssumption
    DEF ReadRoot, At, LspInv, LspTyped, LspTypeOK, Config
  <2>2. /\ ~job[Main].lazy /\ ~job[Main].changed
        /\ job[Main].held => session \in SessRec
    BY <2>1, MainIsAThread DEF LspInv, LspTyped, JobFits, MainFits
  <2>3. Step(Main, r)
    BY <1>2, Zenon DEF ReadRoot
  <2>4. /\ r \in JobRec /\ r.doc = job[Main].doc /\ r.text = job[Main].text
        /\ r.lazy = job[Main].lazy /\ r.changed = job[Main].changed
        /\ r.pc = "sync" /\ r.held = job[Main].held
        /\ r.root = RootOf[config.place]
    BY <2>1 DEF JobRec
  <2> HIDE DEF r
  <2>5. Heads
    BY <2>1, <2>2, <2>3, <2>4 DEF Heads
  <2> QED BY <1>2, <2>5, HeadsStep DEF ReadRoot
<1>3. CASE Reload
  BY <1>3, ReloadBegins, MainIsAThread DEF Reload, At
<1>4. CASE \E d \in Doc : \/ DidOpen(d) \/ DidChange(d) \/ DidSave(d)
                           \/ DidClose(d) \/ DidChangeWatched(d)
  BY <1>4, DocumentStep
<1> QED BY <1>1, <1>2, <1>3, <1>4, SyncStep DEF Handler

LEMMA FetchStep ==
  ASSUME LspInv, NEW f \in Fetcher,
         \/ DidChangeConfiguration(f) \/ FetchGiveUp(f) \/ FetchApply(f) \/ FetchReload(f)
  PROVE  LspInv'
<1>1. f \in Thread \ {Main}
  BY LspAssumption DEF Thread
<1>2. override \in Place \cup {Nil} /\ Answers \subseteq Place \cup {Nil}
  BY LspAssumption DEF LspInv, LspTyped, LspTypeOK
<1>3. CASE DidChangeConfiguration(f)
  <2>1. Aside(f)
    BY <1>2, <1>3 DEF DidChangeConfiguration, Aside, Standing, At
  <2> QED BY <1>1, <2>1, AsideStep
<1>4. CASE FetchGiveUp(f)
  <2>1. Aside(f)
    BY <1>2, <1>4 DEF FetchGiveUp, Aside, Standing, At
  <2> QED BY <1>1, <2>1, AsideStep
<1>5. CASE FetchApply(f)
  <2>1. Aside(f)
    BY <1>2, <1>5 DEF FetchApply, Aside, Standing, At
  <2> QED BY <1>1, <2>1, AsideStep
<1>6. CASE FetchReload(f)
  BY <1>1, <1>6, ReloadBegins DEF FetchReload, At
<1> QED BY <1>3, <1>4, <1>5, <1>6

LEMMA LintStep ==
  ASSUME LspInv, NEW l \in Lint, LintBegins(l)
  PROVE  LspInv'
<1>1. l \in Thread \ {Main}
  BY LspAssumption DEF Thread
<1>2. Aside(l)
  BY DEF LintBegins, Aside, Standing, At, LspInv, LspTyped, LspTypeOK
<1> QED BY <1>1, <1>2, AsideStep

LEMMA LspInvNext == LspInv /\ [LspNext]_lspVars => LspInv'
<1> SUFFICES ASSUME LspInv, [LspNext]_lspVars PROVE LspInv'
  OBVIOUS
<1>1. CASE LspNext
  BY <1>1, HandlerStep, RebuildStep, LintStep, FetchStep, EditFileStep, EditConfigStep
  DEF LspNext
<1>2. CASE UNCHANGED lspVars
  <2>1. LspTypeOK' /\ DOMAIN found' = Place
    BY <1>2 DEF lspVars, LspInv, LspTyped, LspTypeOK
  <2> QED BY <1>2, <2>1, FilesStep DEF lspVars
<1> QED BY <1>1, <1>2

LEMMA LspInvAlways == LspSpec => []LspInv
BY LspInvInit, LspInvNext, PTL DEF LspSpec

(* The variables of the session hold what their declarations say.          *)
THEOREM LspTypeCorrect == LspSpec => []LspTypeOK
<1>1. LspInv => LspTypeOK
  BY DEF LspInv, LspTyped
<1> QED BY <1>1, LspInvAlways, PTL

(* The session is that of the configuration in force, on any number of      *)
(* goroutines, unless the last rebuild to end ran while another one did.   *)
THEOREM LoneRebuildRepairs == LspSpec => []OnlyCrossedDiffer
<1>1. LspInv => OnlyCrossedDiffer
  BY DEF LspInv
<1> QED BY <1>1, LspInvAlways, PTL

(* Every document below the root is read from where its newest text is,     *)
(* for any documents, roots and names, unless its last handler overlapped  *)
(* a rebuild and nothing has set it right since.                           *)
THEOREM BuffersAreRead == LspSpec => []OnlyTornMislead
<1>1. LspInv => OnlyTornMislead
  BY DEF LspInv
<1> QED BY <1>1, LspInvAlways, PTL
=============================================================================
