---------------------------- MODULE MCBackground ----------------------------
(***************************************************************************)
(* What runs without anybody asking, checked side by side: the link to      *)
(* SquadJS (SquadLink), the lobby service's sessions (LobbyService) and the *)
(* match history (MatchSync).  They share no state: `part` says which of    *)
(* them a behaviour is about, and the others stay as they began, with what  *)
(* they might choose at the start pinned down.                             *)
(***************************************************************************)
EXTENDS SquadLink

CONSTANTS
  Region, Login, Client, Loop, Lobby, Life, MaxErrors, MaxConnDrops, MaxFails, MaxChanges,
  MaxPosts,                                 \* LobbyService
  Faction, Last, Pass, Kinds, MaxStaff      \* MatchSync

ASSUME HistoryAssumption ==
  Faction \subseteq Nat /\ Kinds \subseteq {"played", "broken"} /\ Last \in Nat /\ MaxStaff \in Nat

VARIABLES
  part,
  steamClient, steamConnected, steamConnecting, serving, lib, eos, chain, discovery,
  serverCache, listed, polled, lobby, spent,                                 \* LobbyService
  played, writer, carried, stored, pass, resync, staff                       \* MatchSync

Eos == INSTANCE LobbyService WITH Server <- Region, MaxDrops <- MaxConnDrops
History == INSTANCE MatchSync

lobbyVars == <<steamClient, steamConnected, steamConnecting, serving, lib, eos, chain,
               discovery, serverCache, listed, polled, lobby, spent>>
historyVars == <<played, writer, carried, stored, pass, resync, staff>>
bvars == <<part, lvars, lobbyVars, historyVars>>

BInit ==
  /\ part \in {"link", "lobby", "history"}
  /\ LInit /\ Eos!Init /\ History!Init
  /\ part # "link" => queued = [s \in Server |-> FALSE]
  /\ part # "lobby" => listed = {}
  /\ part # "history" => writer = "new"

BNext ==
  \/ part = "link" /\ LinkNext /\ UNCHANGED <<part, lobbyVars, historyVars>>
  \/ part = "lobby" /\ Eos!Next /\ UNCHANGED <<part, lvars, historyVars>>
  \/ part = "history" /\ History!Next /\ UNCHANGED <<part, lvars, lobbyVars>>

\* The fairness of the part that moves.
BFairness ==
  /\ \A s \in Server :
       /\ WF_lvars(part = "link" /\ AnswerPlayers(s)) /\ WF_lvars(part = "link" /\ AnswerStatus(s))
       /\ WF_lvars(part = "link" /\ Connect(s)) /\ WF_lvars(part = "link" /\ Deliver(s))
       /\ WF_lvars(part = "link" /\ FallQuiet(s)) /\ WF_lvars(part = "link" /\ Watchdog(s))
       /\ WF_lvars(part = "link" /\ Poll(s))
  /\ \A k \in Client : WF_lobbyVars(part = "lobby" /\ Eos!Library(k))
  /\ \A i \in Login : WF_lobbyVars(part = "lobby" /\ Eos!Chain(i))
  /\ \A d \in Loop : WF_lobbyVars(part = "lobby" /\ Eos!Discovery(d))
  /\ \A l \in Lobby : WF_lobbyVars(part = "lobby" /\ Eos!Lobbying(l))
  /\ WF_lobbyVars(part = "lobby" /\ Eos!Tick)
  /\ \A p \in Pass : /\ WF_historyVars(part = "history" /\ History!List(p))
                     /\ WF_historyVars(part = "history" /\ History!Work(p))

BSpec == BInit /\ [][BNext]_bvars /\ BFairness

-----------------------------------------------------------------------------
(* What the run checks, each for the part it speaks of.                    *)

\* Once the game server and the network settle, the relay's copy of a server becomes and
\* stays what SquadJS holds (SquadLink's Converges, when the link is the part that runs).
LinkConverges == <>[](part = "link" => CaughtUp)

\* A connection that stays has a token again and again, and the cached servers become those
\* EOS lists; whenever steamConnected is set, it speaks of a client that is logged on
\* (LobbyService, with the types of its variables).
ServersFollow == [](Eos!TypeOK /\ Eos!ConnectedIsOn) /\ Eos!ServersFollow

\* A stored match has the result of its own round (MatchSync, with the types of its variables).
ResultIsOwn == History!TypeOK /\ History!ResultIsOwn

\* No pass over the history undoes what an administrator has changed (MatchSync).
EditsStay == History!EditsStay

\* A match that has ended comes to be stored and stays so (MatchSync).
MatchesAreListed == History!MatchesAreListed
=============================================================================
