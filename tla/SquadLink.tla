----------------------------- MODULE SquadLink ------------------------------
(***************************************************************************)
(* The api's mirror of each game server: SquadJSSocketManager of           *)
(* lib/squadjs-socket.ts.  SquadJS owns the player list and the queued     *)
(* balance (or randomization: the code treats the two alike); the api keeps *)
(* a copy of both, fed by events, by the answers to the requests it makes  *)
(* when it connects, and by a poll.                                        *)
(*                                                                         *)
(* Lists are version numbers, as in LiveMirror, which this module implements; *)
(* a message carries the version it was built from.                        *)
(* What SquadJS does, and that a socket.io connection delivers in order and *)
(* drops what is unanswered when it ends, is external to the repository.   *)
(***************************************************************************)
EXTENDS Naturals, Sequences

CONSTANTS
  Server,     \* server keys of SQUADJS_SERVERS
  MaxRoster,  \* bound on the changes of one server's player list
  MaxFlips,   \* bound on the changes of one server's queue
  MaxDrops,   \* bound on the failures of one server's link
  MaxWire     \* bound on the backlog a poll may add to

ASSUME LinkAssumption ==
  MaxRoster \in Nat /\ MaxFlips \in Nat /\ MaxDrops \in Nat /\ MaxWire \in Nat \ {0}

VARIABLES
  roster,  \* SquadJS: the version of its player list
  queued,  \* SquadJS: is a balance queued?
  line,    \* the connection: "down", "up", or "dead" (up for the api, but mute)
  asks,    \* requests SquadJS has not answered
  wire,    \* messages from SquadJS on their way
  mirror,  \* the api's ServerState
  quiet,   \* has nothing arrived for 120 seconds?
  flips, drops  \* counters the bounds are on

lvars == <<roster, queued, line, asks, wire, mirror, quiet, flips, drops>>

-----------------------------------------------------------------------------
Live == INSTANCE LiveMirror
Message == [kind : {"players", "queue", "status"}, v : Nat, on : BOOLEAN]
Players(v) == [kind |-> "players", v |-> v, on |-> FALSE] \* a list: an event or an answer
Queue(b) == [kind |-> "queue", v |-> 0, on |-> b]         \* BALANCE_QUEUE_EVENT: queued, or any end
Answered(b) == [kind |-> "status", v |-> 0, on |-> b]     \* the answer of getBalanceStatus

NoAsks == [players |-> 0, status |-> FALSE]

LInit ==
  /\ roster = [s \in Server |-> 0]
  /\ queued \in [Server -> BOOLEAN]
  /\ line = [s \in Server |-> "down"]
  /\ asks = [s \in Server |-> NoAsks]
  /\ wire = [s \in Server |-> <<>>]
  /\ mirror = [s \in Server |-> Live!Unknown]
  /\ quiet = [s \in Server |-> FALSE]
  /\ flips = [s \in Server |-> 0]
  /\ drops = [s \in Server |-> 0]

-----------------------------------------------------------------------------
(* SquadJS.                                                                *)

Emit(s, m) == wire' = [wire EXCEPT ![s] = Append(@, m)]

\* The list changes; UPDATED_PLAYER_INFORMATION may carry it or be bare.
RosterChange(s) ==
  /\ roster[s] < MaxRoster
  /\ roster' = [roster EXCEPT ![s] = @ + 1]
  /\ \/ line[s] = "up" /\ Emit(s, Players(roster[s] + 1))
     \/ UNCHANGED wire
  /\ UNCHANGED <<queued, line, asks, mirror, quiet, flips, drops>>

\* A balance is queued, or the queued one is cancelled, executed or fails.
QueueChange(s) ==
  /\ flips[s] < MaxFlips
  /\ flips' = [flips EXCEPT ![s] = @ + 1]
  /\ queued' = [queued EXCEPT ![s] = ~@]
  /\ IF line[s] = "up" THEN Emit(s, Queue(~queued[s])) ELSE UNCHANGED wire
  /\ UNCHANGED <<roster, line, asks, mirror, quiet, drops>>

\* The requests are answered with what SquadJS holds now.
AnswerPlayers(s) ==
  /\ line[s] = "up" /\ asks[s].players > 0
  /\ asks' = [asks EXCEPT ![s].players = 0]
  /\ Emit(s, Players(roster[s]))
  /\ UNCHANGED <<roster, queued, line, mirror, quiet, flips, drops>>

AnswerStatus(s) ==
  /\ line[s] = "up" /\ asks[s].status
  /\ asks' = [asks EXCEPT ![s].status = FALSE]
  /\ Emit(s, Answered(queued[s]))
  /\ UNCHANGED <<roster, queued, line, mirror, quiet, flips, drops>>

-----------------------------------------------------------------------------
(* The api.                                                                *)

Connect_AsksPlayersOnly(s) ==  \* fault: the queue's status is not requested
  /\ line[s] = "down"
  /\ line' = [line EXCEPT ![s] = "up"]
  /\ mirror' = [mirror EXCEPT ![s].connected = TRUE]
  /\ asks' = [asks EXCEPT ![s] = [players |-> 1, status |-> FALSE]]
  /\ UNCHANGED <<roster, queued, wire, quiet, flips, drops>>

\* "connect", then requestInitialState.  lastEventTime is left as it was.
Connect(s) ==
  /\ line[s] = "down"
  /\ line' = [line EXCEPT ![s] = "up"]
  /\ mirror' = [mirror EXCEPT ![s].connected = TRUE]
  /\ asks' = [asks EXCEPT ![s] = [players |-> 1, status |-> TRUE]]
  /\ UNCHANGED <<roster, queued, wire, quiet, flips, drops>>

Hang_ForgetsPlayers(s) ==  \* fault: the list is emptied with the connection
  /\ line' = [line EXCEPT ![s] = "down"]
  /\ asks' = [asks EXCEPT ![s] = NoAsks]
  /\ wire' = [wire EXCEPT ![s] = <<>>]
  /\ mirror' = [mirror EXCEPT ![s].connected = FALSE, ![s].players = 0]
  /\ UNCHANGED <<roster, queued, quiet, flips>>

\* "disconnect": pending answers are dropped, the copies are kept, the poll stops.
Hang(s) ==
  /\ line' = [line EXCEPT ![s] = "down"]
  /\ asks' = [asks EXCEPT ![s] = NoAsks]
  /\ wire' = [wire EXCEPT ![s] = <<>>]
  /\ mirror' = [mirror EXCEPT ![s].connected = FALSE]
  /\ UNCHANGED <<roster, queued, quiet, flips>>

\* The connection ends and both ends notice.
Disconnect(s) ==
  /\ line[s] = "up" /\ drops[s] < MaxDrops
  /\ drops' = [drops EXCEPT ![s] = @ + 1]
  /\ Hang(s)

\* The connection dies and the api does not notice.
Die(s) ==
  /\ line[s] = "up" /\ drops[s] < MaxDrops
  /\ drops' = [drops EXCEPT ![s] = @ + 1]
  /\ line' = [line EXCEPT ![s] = "dead"]
  /\ asks' = [asks EXCEPT ![s] = NoAsks]
  /\ wire' = [wire EXCEPT ![s] = <<>>]
  /\ UNCHANGED <<roster, queued, mirror, quiet, flips>>

\* 120 seconds without a message.
FallQuiet(s) ==
  /\ ~quiet[s] /\ wire[s] = <<>>
  /\ line[s] # "up" \/ asks[s].players > 0
  /\ quiet' = [quiet EXCEPT ![s] = TRUE]
  /\ UNCHANGED <<roster, queued, line, asks, wire, mirror, flips, drops>>

Watchdog_Trusting(s) ==  \* fault: `if (state.connected) continue`
  /\ ~mirror[s].connected /\ quiet[s] /\ line[s] = "dead"
  /\ UNCHANGED drops
  /\ Hang(s)

\* The watchdog: no message for 120 seconds, disconnect and connect again.  Just after
\* a long outage it may cut a healthy link, which counts against the bound.
Watchdog(s) ==
  /\ mirror[s].connected /\ quiet[s]
  /\ \/ line[s] = "dead" /\ UNCHANGED drops
     \/ /\ line[s] = "up" /\ drops[s] < MaxDrops
        /\ drops' = [drops EXCEPT ![s] = @ + 1]
  /\ Hang(s)

\* The poll, and refreshPlayers: another request for the list.  On a dead link it is
\* lost; the backlog is bounded.
Poll(s) ==
  /\ mirror[s].connected /\ line[s] = "up"
  /\ asks[s].players = 0 /\ Len(wire[s]) < MaxWire
  /\ asks' = [asks EXCEPT ![s].players = 1]
  /\ UNCHANGED <<roster, queued, line, wire, mirror, quiet, flips, drops>>

\* The mirror after message m: handleEvent, or the callback of a request.
Heard(s, m) ==
  CASE m.kind = "players" -> [mirror[s] EXCEPT !.players = m.v]
    [] m.kind = "queue" -> [mirror[s] EXCEPT !.queue = IF m.on THEN "pending" ELSE "null"]
    [] m.kind = "status" -> [mirror[s] EXCEPT !.queue = IF m.on THEN "pending" ELSE "idle"]

\* A message arrives.
Deliver(s) ==
  /\ line[s] = "up" /\ wire[s] # <<>>
  /\ mirror' = [mirror EXCEPT ![s] = Heard(s, Head(wire[s]))]
  /\ wire' = [wire EXCEPT ![s] = Tail(@)]
  /\ quiet' = [quiet EXCEPT ![s] = FALSE]
  /\ UNCHANGED <<roster, queued, line, asks, flips, drops>>

-----------------------------------------------------------------------------
LinkNext ==
  \E s \in Server :
    \/ RosterChange(s) \/ QueueChange(s) \/ AnswerPlayers(s) \/ AnswerStatus(s)
    \/ Connect(s) \/ Disconnect(s) \/ Die(s) \/ FallQuiet(s) \/ Watchdog(s)
    \/ Poll(s) \/ Deliver(s)

LinkSafety == LInit /\ [][LinkNext]_lvars

\* socket.io reconnects for ever, SquadJS answers, messages arrive, intervals fire.
LinkFairness ==
  \A s \in Server :
    /\ WF_lvars(AnswerPlayers(s)) /\ WF_lvars(AnswerStatus(s))
    /\ WF_lvars(Connect(s)) /\ WF_lvars(Deliver(s))
    /\ WF_lvars(FallQuiet(s)) /\ WF_lvars(Watchdog(s)) /\ WF_lvars(Poll(s))
LinkSpec == LinkSafety /\ LinkFairness

-----------------------------------------------------------------------------
(* What must hold.                                                         *)

LinkTypeOK ==
  /\ roster \in [Server -> Nat]
  /\ queued \in [Server -> BOOLEAN]
  /\ line \in [Server -> {"down", "up", "dead"}]
  /\ asks \in [Server -> [players : {0, 1}, status : BOOLEAN]]
  /\ wire \in [Server -> Seq(Message)]
  /\ mirror \in [Server -> Live!Mirror]
  /\ quiet \in [Server -> BOOLEAN]
  /\ flips \in [Server -> Nat]
  /\ drops \in [Server -> Nat]

\* Nothing from or to server s is under way.
Drained(s) == line[s] = "up" /\ wire[s] = <<>> /\ asks[s] = NoAsks

\* The api's balanceStatus survives reconnects: once the answers of a connection are in,
\* it says "pending" exactly when SquadJS has a balance queued, whatever was queued,
\* cancelled or executed while the link was down.
QueueInSync ==
  \A s \in Server : Drained(s) => (mirror[s].queue = "pending" <=> queued[s])

\* The api's player list is always one SquadJS had, and no answer, event or reconnect
\* ever replaces it by an older one; the rest of the mirror changes as LiveMirror says.
ImplementsMirror == Live!MSpec

CaughtUp ==
  \A s \in Server :
    /\ mirror[s].connected /\ line[s] = "up"
    /\ mirror[s].players = roster[s]
    /\ mirror[s].queue = "pending" <=> queued[s]

\* When SquadJS stops changing and the link stops failing, the api ends up connected,
\* with SquadJS's list and queue, also when the link died unnoticed.
Converges == <>[]CaughtUp
=============================================================================
