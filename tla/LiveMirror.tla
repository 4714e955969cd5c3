----------------------------- MODULE LiveMirror -----------------------------
(***************************************************************************)
(* What the api's mirror of a game server does, seen from the WebSocket    *)
(* clients: the steps that change ServerState in lib/squadjs-socket.ts,    *)
(* with no word on how SquadJS's messages get there.  SquadLink implements  *)
(* it; LivePage builds on it.                                              *)
(*                                                                         *)
(* A list of players is a version number: `roster[s]` is the version of    *)
(* SquadJS's list of server s, `mirror[s].players` that of the api's copy. *)
(***************************************************************************)
EXTENDS Naturals

CONSTANT Server  \* server keys of SQUADJS_SERVERS
VARIABLES roster, mirror

mvars == <<roster, mirror>>

\* balanceStatus (randomizationStatus): null, { pending: false } or { pending: true, ... }
Status == {"null", "idle", "pending"}
Mirror == [connected : BOOLEAN, players : Nat, queue : Status]
Unknown == [connected |-> FALSE, players |-> 0, queue |-> "null"]

MInit == roster = [s \in Server |-> 0] /\ mirror = [s \in Server |-> Unknown]

\* SquadJS's list changes.
Advance(s) == roster' = [roster EXCEPT ![s] = @ + 1] /\ UNCHANGED mirror

\* "connect" and "disconnect".
SetConnected(s, up) == mirror' = [mirror EXCEPT ![s].connected = up] /\ UNCHANGED roster

\* A list arrives: one that SquadJS had, and none older than the copy.
SetPlayers(s) ==
  /\ mirror[s].connected
  /\ \E v \in mirror[s].players .. roster[s] : mirror' = [mirror EXCEPT ![s].players = v]
  /\ UNCHANGED roster

\* BALANCE_QUEUE_EVENT: "queued", or one of the events that end it.
QueueEvent(s, on) ==
  /\ mirror[s].connected
  /\ mirror' = [mirror EXCEPT ![s].queue = IF on THEN "pending" ELSE "null"]
  /\ UNCHANGED roster

\* The answer of getBalanceStatus.
StatusAnswer(s, on) ==
  /\ mirror[s].connected
  /\ mirror' = [mirror EXCEPT ![s].queue = IF on THEN "pending" ELSE "idle"]
  /\ UNCHANGED roster

MNext ==
  \E s \in Server :
    \/ Advance(s) \/ SetPlayers(s)
    \/ \E b \in BOOLEAN : SetConnected(s, b) \/ QueueEvent(s, b) \/ StatusAnswer(s, b)
MSpec == MInit /\ [][MNext]_mvars
=============================================================================
