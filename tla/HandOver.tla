------------------------------- MODULE HandOver -------------------------------
(***************************************************************************)
(* The servers of one workspace: each editor host starts one, it claims    *)
(* the workspace in a registry shared by all, and steps aside when it      *)
(* reads that another has claimed it since.  A host whose window is gone   *)
(* may leak, and stay alive with its server; a host that does not read     *)
(* blocks what its server writes.  The extension restarts a server whose   *)
(* connection closes, unless that server said it was superseded.           *)
(*                                                                         *)
(* What a server tells its client is read in order, the end of the         *)
(* connection last.                                                        *)
(***************************************************************************)
EXTENDS Naturals, Sequences, SequencesExt, FiniteSets

CONSTANTS
  Host,         \* the editor hosts
  MaxServers,   \* bound on the servers started
  MaxRestarts,  \* maxRestarts, within windowMs
  MaxTroubles,  \* bound on the crashes, failed claims, failed starts and wipes
  MaxManual,    \* bound on the restarts people ask for
  None          \* no server

Server == 1..MaxServers

ASSUME ConstantsAssumption ==
  /\ {MaxServers, MaxRestarts, MaxTroubles, MaxManual} \subseteq Nat
  /\ None \notin Server

VARIABLES
  host,     \* the state of each editor host
  client,   \* its language client
  server,   \* the processes
  tmp,      \* the temporary files of the registry
  owner,    \* the owner record of the workspace
  claims,   \* history: the servers whose claims landed, in order
  aside,    \* history: the servers that saw another owner
  due,      \* history: the number of servers that something called for
  wiped,    \* history: the registry has been wiped
  troubles, \* the number of troubles so far
  manual    \* the number of restarts asked for so far

vars == <<host, client, server, tmp, owner, claims, aside, due, wiped, troubles, manual>>

ServerRec ==
  [pc : {"none",     \* not started yet
         "new",      \* waiting for initialize
         "claim",    \* its claim is written, not yet in place
         "free",     \* its claim failed: it is not watched
         "watch",    \* it claimed and polls
         "leave",    \* it has seen another owner
         "told",     \* it has told its client
         "gone"},
   host : Host \cup {None},
   told : BOOLEAN] \* its client can read that it was superseded

ClientRec ==
  [server : Server \cup {None},
   superseded : BOOLEAN, \* RestartPolicyState
   restarts : Nat]

NoServer == [pc |-> "none", host |-> None, told |-> FALSE]

NewClient(s) == [server |-> s, superseded |-> FALSE, restarts |-> 0]

Init ==
  /\ host = [h \in Host |-> "none"]
  /\ client = [h \in Host |-> NewClient(None)]
  /\ server = [s \in Server |-> NoServer]
  /\ tmp = [s \in Server |-> None]
  /\ owner = None
  /\ claims = <<>>
  /\ aside = {}
  /\ due = 0
  /\ wiped = FALSE
  /\ troubles = 0
  /\ manual = 0

Alive(s) == server[s].pc \notin {"none", "gone"}

Unstarted(s) ==
  /\ server[s].pc = "none"
  /\ \A t \in Server : t < s => server[t].pc # "none"

Started(s, h) == [NoServer EXCEPT !.pc = "new", !.host = h]

Trouble ==
  /\ troubles < MaxTroubles
  /\ troubles' = troubles + 1

-----------------------------------------------------------------------------
(* The editor.                                                             *)

(* A window is opened, and its host starts a client and a server.          *)
Open(h, s) ==
  /\ host[h] = "none" /\ Unstarted(s)
  /\ host' = [host EXCEPT ![h] = "open"]
  /\ client' = [client EXCEPT ![h] = NewClient(s)]
  /\ server' = [server EXCEPT ![s] = Started(s, h)]
  /\ due' = due + 1
  /\ UNCHANGED <<tmp, owner, claims, aside, wiped, troubles, manual>>

(* The window closes: its host dies, or leaks, and may stop reading.       *)
Close(h) ==
  /\ host[h] = "open"
  /\ \E fate \in {"dead", "leaked", "deaf"} : host' = [host EXCEPT ![h] = fate]
  /\ UNCHANGED <<client, server, tmp, owner, claims, aside, due, wiped, troubles, manual>>

HostDies(h) ==
  /\ host[h] \in {"leaked", "deaf"}
  /\ host' = [host EXCEPT ![h] = "dead"]
  /\ UNCHANGED <<client, server, tmp, owner, claims, aside, due, wiped, troubles, manual>>

(* The command that stops the client and starts another.  A stop that      *)
(* throws is ignored: the server lives on, with a client nobody holds.     *)
ManualRestart(h, s) ==
  /\ host[h] = "open" /\ Unstarted(s)
  /\ manual < MaxManual
  /\ manual' = manual + 1
  /\ client' = [client EXCEPT ![h] = NewClient(s)]
  /\ \E stopped \in SUBSET {client[h].server} :
       server' = [t \in Server |->
         IF t = s THEN Started(s, h)
         ELSE IF t \in stopped THEN [server[t] EXCEPT !.pc = "gone"] ELSE server[t]]
  /\ due' = due + 1
  /\ UNCHANGED <<host, tmp, owner, claims, aside, wiped, troubles>>

Reads(h) == host[h] \in {"open", "leaked"}

(* The notification mdsmith/superseded arrives.                            *)
Superseded(h) ==
  LET s == client[h].server
  IN /\ Reads(h) /\ s # None
     /\ server[s].told
     /\ client' = [client EXCEPT ![h].superseded = TRUE]
     /\ server' = [server EXCEPT ![s].told = FALSE]
     /\ UNCHANGED <<host, tmp, owner, claims, aside, due, wiped, troubles, manual>>

(* The connection closes, after what came over it.                         *)
Closed(h) ==
  LET s == client[h].server
  IN /\ Reads(h) /\ s # None
     /\ server[s].pc = "gone" /\ ~server[s].told

(* decideClose: restart, unless superseded or too often.                   *)
Restart(h, t) ==
  /\ Closed(h) /\ Unstarted(t)
  /\ ~client[h].superseded
  /\ client[h].restarts < MaxRestarts
  /\ client' = [client EXCEPT ![h].server = t, ![h].restarts = @ + 1]
  /\ server' = [server EXCEPT ![t] = Started(t, h)]
  /\ UNCHANGED <<host, tmp, owner, claims, aside, due, wiped, troubles, manual>>

GiveUp(h) ==
  /\ Closed(h)
  /\ client[h].superseded \/ client[h].restarts = MaxRestarts
  /\ client' = [client EXCEPT ![h].server = None]
  /\ UNCHANGED <<host, server, tmp, owner, claims, aside, due, wiped, troubles, manual>>

(* A restart drops out of the window of time.                              *)
Forget(h) ==
  /\ client[h].restarts > 0
  /\ client' = [client EXCEPT ![h].restarts = @ - 1]
  /\ UNCHANGED <<host, server, tmp, owner, claims, aside, due, wiped, troubles, manual>>

-----------------------------------------------------------------------------
(* A server.                                                               *)

(* Mutant: all servers write their claim to one temporary file.            *)
TmpOf_Shared(s) == 1

(* The temporary file of a claim carries the server's id.                  *)
TmpOf(s) == s

(* Mutant: the claim names the host instead of the server.                 *)
Initialize_HostId(s) ==
  /\ server[s].pc = "new"
  /\ server' = [server EXCEPT ![s].pc = "claim"]
  /\ tmp' = [tmp EXCEPT ![TmpOf(s)] = server[s].host]
  /\ UNCHANGED <<host, client, owner, claims, aside, due, wiped, troubles, manual>>

(* The first initialize starts the watches; another changes nothing.       *)
Initialize(s) ==
  /\ server[s].pc = "new"
  /\ server' = [server EXCEPT ![s].pc = "claim"]
  /\ tmp' = [tmp EXCEPT ![TmpOf(s)] = s]
  /\ UNCHANGED <<host, client, owner, claims, aside, due, wiped, troubles, manual>>

(* The rename at the end of claim.                                         *)
Claim(s) ==
  /\ server[s].pc = "claim"
  /\ tmp[TmpOf(s)] # None
  /\ owner' = tmp[TmpOf(s)]
  /\ tmp' = [tmp EXCEPT ![TmpOf(s)] = None]
  /\ server' = [server EXCEPT ![s].pc = "watch"]
  /\ claims' = Append(claims, s)
  /\ UNCHANGED <<host, client, aside, due, wiped, troubles, manual>>

(* A claim fails: the server goes on and does not watch.                   *)
ClaimFails(s) ==
  /\ Trouble
  /\ server[s].pc = "claim"
  /\ tmp' = [tmp EXCEPT ![TmpOf(s)] = None]
  /\ server' = [server EXCEPT ![s].pc = "free"]
  /\ UNCHANGED <<host, client, owner, claims, aside, due, wiped, manual>>

(* Mutant: a server whose window is open stays.                            *)
Poll_StaysWithWindow(s) ==
  /\ server[s].pc = "watch"
  /\ owner \notin {s, None} /\ host[server[s].host] # "open"
  /\ server' = [server EXCEPT ![s].pc = "leave"]
  /\ aside' = aside \cup {s}
  /\ UNCHANGED <<host, client, tmp, owner, claims, due, wiped, troubles, manual>>

(* A poll that reads another owner; any other changes nothing.             *)
Poll(s) ==
  /\ server[s].pc = "watch"
  /\ owner \notin {s, None}
  /\ server' = [server EXCEPT ![s].pc = "leave"]
  /\ aside' = aside \cup {s}
  /\ UNCHANGED <<host, client, tmp, owner, claims, due, wiped, troubles, manual>>

(* Mutant: a server leaves without a word.                                 *)
Tell_Silent(s) ==
  /\ server[s].pc = "leave"
  /\ server' = [server EXCEPT ![s].pc = "told"]
  /\ UNCHANGED <<host, client, tmp, owner, claims, aside, due, wiped, troubles, manual>>

(* The notification is written; a host that does not read blocks it.       *)
Tell(s) ==
  /\ server[s].pc = "leave"
  /\ host[server[s].host] # "deaf"
  /\ server' = [server EXCEPT ![s].pc = "told", ![s].told = TRUE]
  /\ UNCHANGED <<host, client, tmp, owner, claims, aside, due, wiped, troubles, manual>>

Exit(s) ==
  /\ server[s].pc = "told"
  /\ server' = [server EXCEPT ![s].pc = "gone"]
  /\ UNCHANGED <<host, client, tmp, owner, claims, aside, due, wiped, troubles, manual>>

(* Mutant: only a server that polls the registry looks for its parent.     *)
Orphaned_WatchOnly(s) ==
  /\ server[s].pc = "watch"
  /\ host[server[s].host] = "dead"
  /\ server' = [server EXCEPT ![s].pc = "gone"]
  /\ UNCHANGED <<host, client, tmp, owner, claims, aside, due, wiped, troubles, manual>>

(* The input ends, or the parent is found dead.                            *)
Orphaned(s) ==
  /\ Alive(s)
  /\ host[server[s].host] = "dead"
  /\ server' = [server EXCEPT ![s].pc = "gone"]
  /\ UNCHANGED <<host, client, tmp, owner, claims, aside, due, wiped, troubles, manual>>

-----------------------------------------------------------------------------
(* Troubles.                                                               *)

Crash(s) ==
  /\ Trouble
  /\ Alive(s)
  /\ server' = [server EXCEPT ![s].pc = "gone"]
  /\ due' = due + 1
  /\ UNCHANGED <<host, client, tmp, owner, claims, aside, wiped, manual>>

(* The cache directory is cleaned.                                         *)
Wipe ==
  /\ Trouble
  /\ owner # None
  /\ owner' = None
  /\ wiped' = TRUE
  /\ UNCHANGED <<host, client, server, tmp, claims, aside, due, manual>>

ServerStep(s) ==
  Initialize(s) \/ Claim(s) \/ Poll(s) \/ Tell(s) \/ Exit(s) \/ Orphaned(s)

ClientStep(h) == Superseded(h) \/ GiveUp(h) \/ \E t \in Server : Restart(h, t)

Next ==
  \/ \E h \in Host :
       \/ \E s \in Server : Open(h, s) \/ ManualRestart(h, s)
       \/ Close(h) \/ HostDies(h) \/ Forget(h) \/ ClientStep(h)
  \/ \E s \in Server : ServerStep(s) \/ ClaimFails(s) \/ Crash(s)
  \/ Wipe

Fairness ==
  /\ \A s \in Server : WF_vars(ServerStep(s))
  /\ \A h \in Host : WF_vars(ClientStep(h))

Spec == Init /\ [][Next]_vars /\ Fairness

(* For TLC: which host starts the first server makes no difference.        *)
OneStarts == server[1].host \in {None, CHOOSE h \in Host : TRUE}

-----------------------------------------------------------------------------
(* Properties.                                                             *)

TypeOK ==
  /\ host \in [Host -> {"none", "open", "leaked", "deaf", "dead"}]
  /\ client \in [Host -> ClientRec]
  /\ server \in [Server -> ServerRec]
  /\ tmp \in [Server -> Server \cup {None}]
  /\ owner \in Server \cup {None}
  /\ claims \in Seq(Server)
  /\ aside \subseteq Server
  /\ due \in Nat
  /\ wiped \in BOOLEAN
  /\ troubles \in Nat
  /\ manual \in Nat

(* Claims land once each, and only a server whose claim is not the latest  *)
(* steps aside: the last server stays, whatever crashes, fails, is wiped   *)
(* or is initialized twice.                                                *)
NewestWins == INSTANCE NewestWins
NewestStays == NewestWins!Spec

(* Every server was called for by a window, a restart by hand or a crash:  *)
(* hand-overs do not respawn servers, so two hosts cannot take the         *)
(* workspace from each other for ever.                                     *)
SpawnsAreCalledFor ==
  Cardinality({s \in Server : server[s].pc # "none"}) <= due

(* Once the editors leave things alone, one server of those that watch     *)
(* remains at most, but for servers blocked by a deaf host and a registry  *)
(* that was wiped.                                                         *)
OneRemains ==
  <>[](\/ wiped
       \/ Cardinality({s \in Server : Alive(s) /\ server[s].pc \in {"watch", "leave", "told"}
                                      /\ host[server[s].host] # "deaf"}) <= 1)

(* A server does not outlive its host.                                     *)
OrphansEnd ==
  \A s \in Server : (Alive(s) /\ host[server[s].host] = "dead") ~> ~Alive(s)

(* The window that is open, if there is one alone, keeps its server unless *)
(* that server crashed: no server of another host takes over after it.     *)
WindowKeepsItsServer ==
  \A h \in Host :
    (host[h] = "open" /\ client[h].superseded)
      => \E g \in Host \ {h} : host[g] = "open"
=============================================================================
