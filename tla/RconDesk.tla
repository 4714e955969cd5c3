------------------------------ MODULE RconDesk ------------------------------
(***************************************************************************)
(* Commands from the live-server page to the game servers:                 *)
(* handleLiveServerMessage, handleAdminAction and handleRconConsole of     *)
(* ws/live-server.ts over executeRcon of lib/squadjs-socket.ts.            *)
(*                                                                         *)
(* The handlers of one socket are not queued behind each other: a message  *)
(* that arrives while an earlier one awaits SquadJS runs at once, a         *)
(* switch_server too.  Plugin methods (callMethod) go the same way as       *)
(* undeduplicated commands, and are not modelled apart.                     *)
(***************************************************************************)
EXTENDS Naturals, Sequences, FiniteSets

CONSTANTS
  Admin,      \* sockets that may manage
  Server,
  Command,    \* command texts, what lastRcon is keyed on
  Squad,      \* what switching a squad sends: a warning and a move per player
  Call,       \* slots for handlers in flight; a bound on concurrency
  None,
  Window,     \* 2 seconds: no repetition within it
  Keep,       \* 5 seconds: what the clean-up keeps
  Patience,   \* 10 seconds: the RCON timeout
  CleanAt,    \* 50 entries: when the clean-up runs
  MaxTime,    \* bound on the clock
  MaxRequests, \* bound on the requests
  MaxDrops    \* bound on the failures of one server's link

ASSUME DeskAssumption ==
  /\ Squad \in Seq(Command) \ {<<>>} /\ None \notin Server \cup Admin
  /\ Window \in Nat /\ Keep \in Nat /\ Window <= Keep
  /\ Patience \in Nat /\ CleanAt \in Nat /\ MaxTime \in Nat /\ MaxRequests \in Nat /\ MaxDrops \in Nat

VARIABLES
  now,        \* seconds
  connected,  \* state.connected of each server
  lastRcon,   \* lastRcon[s]: command -> when it was last let through
  view,       \* ws.data.serverKey of each socket
  call,       \* the handlers in flight
  late,       \* <<server, command>>: given up by the api, still to run at SquadJS
  ran,        \* history: <<server, command>> executed on the game servers
  sent,       \* history: when a deduplicated command was last sent to a server
  log,        \* LiveServer rows of the audit log
  requests, drops  \* counters the bounds are on

vars == <<now, connected, lastRcon, view, call, late, ran, sent, log, requests, drops>>

-----------------------------------------------------------------------------
Never == MaxTime + 1
Idle == [at |-> "idle", on |-> None, who |-> None, todo |-> <<>>, did |-> {},
         dedupe |-> FALSE, since |-> 0, done |-> FALSE, lost |-> FALSE]
CallRec == [at : {"idle", "issue", "wait"}, on : Server \cup {None}, who : Admin \cup {None},
            todo : Seq(Command), did : SUBSET Command, dedupe : BOOLEAN,
            since : 0 .. MaxTime, done : BOOLEAN, lost : BOOLEAN]

\* An audit row: the server it names, and what it is the record of.
Row == [names : Server, on : Server, did : SUBSET Command]

Init ==
  /\ now = 0
  /\ connected = [s \in Server |-> TRUE]
  /\ lastRcon = [s \in Server |-> <<>>]
  /\ view \in [Admin -> Server]
  /\ call = [c \in Call |-> Idle]
  /\ late = {} /\ ran = {} /\ log = {}
  /\ sent = [s \in Server |-> [m \in Command |-> Never]]
  /\ requests = 0
  /\ drops = [s \in Server |-> 0]

-----------------------------------------------------------------------------
(* The handlers.                                                           *)

\* handleAdminAction, one command or a squad's; handleRconConsole without deduplication.
Request(a, c) ==
  /\ call[c] = Idle /\ requests < MaxRequests
  /\ requests' = requests + 1
  /\ \E todo \in {<<m>> : m \in Command} \cup {Squad}, dedupe \in BOOLEAN :
       /\ todo = Squad => dedupe
       /\ call' = [call EXCEPT ![c] = [Idle EXCEPT
            !.at = "issue", !.on = view[a], !.who = a, !.todo = todo, !.dedupe = dedupe]]
  /\ UNCHANGED <<now, connected, lastRcon, view, late, ran, sent, log, drops>>

Fail(c) == call' = [call EXCEPT ![c] = Idle] /\ UNCHANGED log

\* The current command is through: go on with the next, or write the audit row and
\* answer.  rconAudit reads the socket's server, not the one the handler started with.
Proceed(c) ==
  LET q == call[c]
      did == q.did \cup {Head(q.todo)} IN
  IF Len(q.todo) > 1
    THEN /\ call' = [call EXCEPT ![c] = [q EXCEPT
              !.at = "issue", !.todo = Tail(@), !.did = did,
              !.since = 0, !.done = FALSE, !.lost = FALSE]]
         /\ UNCHANGED log
    ELSE /\ log' = log \cup {[names |-> view[q.who], on |-> q.on, did |-> did]}
         /\ call' = [call EXCEPT ![c] = Idle]

Recent(s, m) == m \in DOMAIN lastRcon[s] /\ now - lastRcon[s][m] < Window

Cleaned_All(last) ==  \* fault: the clean-up clears the map
  IF Cardinality(DOMAIN last) > CleanAt THEN <<>> ELSE last

\* Past CleanAt entries, those older than Keep are deleted.
Cleaned(last) ==
  IF Cardinality(DOMAIN last) > CleanAt
    THEN [m \in {x \in DOMAIN last : now - last[x] <= Keep} |-> last[m]]
    ELSE last

\* lastRcon.set, then the clean-up.
Noted(s, m) ==
  Cleaned([x \in DOMAIN lastRcon[s] \cup {m} |-> IF x = m THEN now ELSE lastRcon[s][x]])

Issue_NotesFirst(c) ==  \* fault: lastRcon is set before the connection is looked at
  LET q == call[c]
      m == Head(q.todo)
      dup == q.dedupe /\ Recent(q.on, m) IN
  /\ q.at = "issue"
  /\ IF q.dedupe /\ ~dup
       THEN lastRcon' = [lastRcon EXCEPT ![q.on] = Noted(q.on, m)]
       ELSE UNCHANGED lastRcon
  /\ \/ dup /\ Proceed(c) /\ UNCHANGED sent
     \/ ~dup /\ ~connected[q.on] /\ Fail(c) /\ UNCHANGED sent
     \/ /\ ~dup /\ connected[q.on]
        /\ call' = [call EXCEPT ![c].at = "wait", ![c].since = now]
        /\ sent' = IF q.dedupe THEN [sent EXCEPT ![q.on][m] = now] ELSE sent
        /\ UNCHANGED log
  /\ UNCHANGED <<now, connected, view, late, ran, requests, drops>>

\* executeRcon up to its emit: not connected, a duplicate, or sent.
Issue(c) ==
  LET q == call[c]
      m == Head(q.todo) IN
  /\ q.at = "issue"
  /\ \/ ~connected[q.on] /\ Fail(c) /\ UNCHANGED <<lastRcon, sent>>
     \/ /\ connected[q.on] /\ q.dedupe /\ Recent(q.on, m)
        /\ Proceed(c) /\ UNCHANGED <<lastRcon, sent>>
     \/ /\ connected[q.on] /\ ~(q.dedupe /\ Recent(q.on, m))
        /\ call' = [call EXCEPT ![c].at = "wait", ![c].since = now]
        /\ IF q.dedupe
             THEN /\ lastRcon' = [lastRcon EXCEPT ![q.on] = Noted(q.on, m)]
                  /\ sent' = [sent EXCEPT ![q.on][m] = now]
             ELSE UNCHANGED <<lastRcon, sent>>
        /\ UNCHANGED log
  /\ UNCHANGED <<now, connected, view, late, ran, requests, drops>>

-----------------------------------------------------------------------------
(* SquadJS.                                                                *)

\* The game server runs the command.
Run(c) ==
  LET q == call[c] IN
  /\ q.at = "wait" /\ ~q.done
  /\ ran' = ran \cup {<<q.on, Head(q.todo)>>}
  /\ call' = [call EXCEPT ![c].done = TRUE]
  /\ UNCHANGED <<now, connected, lastRcon, view, late, sent, log, requests, drops>>

\* Its answer arrives.
Resolve(c) ==
  /\ call[c].at = "wait" /\ call[c].done /\ ~call[c].lost
  /\ Proceed(c)
  /\ UNCHANGED <<now, connected, lastRcon, view, late, ran, sent, requests, drops>>

\* An answer { error } arrives: the command was not run.
Refuse(c) ==
  /\ call[c].at = "wait" /\ ~call[c].done /\ ~call[c].lost
  /\ Fail(c)
  /\ UNCHANGED <<now, connected, lastRcon, view, late, ran, sent, requests, drops>>

GiveUp_IfConnected(c) ==  \* fault: the timeout only runs while the link is up
  LET q == call[c] IN
  /\ q.at = "wait" /\ ~q.lost /\ now - q.since >= Patience
  /\ Fail(c)
  /\ late' = IF q.done THEN late ELSE late \cup {<<q.on, Head(q.todo)>>}
  /\ UNCHANGED <<now, connected, lastRcon, view, ran, sent, requests, drops>>

\* "RCON timeout".  What has been sent may still run.
GiveUp(c) ==
  LET q == call[c] IN
  /\ q.at = "wait" /\ now - q.since >= Patience
  /\ Fail(c)
  /\ late' = IF q.done THEN late ELSE late \cup {<<q.on, Head(q.todo)>>}
  /\ UNCHANGED <<now, connected, lastRcon, view, ran, sent, requests, drops>>

RunLate ==
  /\ \E x \in late : late' = late \ {x} /\ ran' = ran \cup {x}
  /\ UNCHANGED <<now, connected, lastRcon, view, call, sent, log, requests, drops>>

-----------------------------------------------------------------------------
\* switch_server.
SwitchServer(a, s) ==
  /\ view[a] # s
  /\ view' = [view EXCEPT ![a] = s]
  /\ UNCHANGED <<now, connected, lastRcon, call, late, ran, sent, log, requests, drops>>

\* "disconnect": the answers still to come never will.
LinkDown(s) ==
  /\ connected[s] /\ drops[s] < MaxDrops
  /\ drops' = [drops EXCEPT ![s] = @ + 1]
  /\ connected' = [connected EXCEPT ![s] = FALSE]
  /\ call' = [c \in Call |-> IF call[c].at = "wait" /\ call[c].on = s
                              THEN [call[c] EXCEPT !.lost = TRUE] ELSE call[c]]
  /\ UNCHANGED <<now, lastRcon, view, late, ran, sent, log, requests>>

LinkUp(s) ==
  /\ ~connected[s]
  /\ connected' = [connected EXCEPT ![s] = TRUE]
  /\ UNCHANGED <<now, lastRcon, view, call, late, ran, sent, log, requests, drops>>

Tick ==
  /\ now < MaxTime
  /\ now' = now + 1
  /\ UNCHANGED <<connected, lastRcon, view, call, late, ran, sent, log, requests, drops>>

-----------------------------------------------------------------------------
Handler(c) == Issue(c) \/ Resolve(c) \/ Refuse(c) \/ GiveUp(c)

Next ==
  \/ Tick \/ RunLate
  \/ \E s \in Server : LinkDown(s) \/ LinkUp(s)
  \/ \E a \in Admin : (\E c \in Call : Request(a, c)) \/ (\E s \in Server : SwitchServer(a, s))
  \/ \E c \in Call : Handler(c) \/ Run(c)

Safety == Init /\ [][Next]_vars

\* Time passes, and the handlers' callbacks and timers run.
Fairness == WF_vars(Tick) /\ \A c \in Call : WF_vars(Handler(c))
Spec == Safety /\ Fairness

-----------------------------------------------------------------------------
(* What must hold.                                                         *)

DeskTypeOK ==
  /\ now \in 0 .. MaxTime
  /\ connected \in [Server -> BOOLEAN]
  /\ lastRcon = [s \in Server |-> lastRcon[s]]
  /\ \A s \in Server : DOMAIN lastRcon[s] \subseteq Command
  /\ \A s \in Server : \A m \in DOMAIN lastRcon[s] : lastRcon[s][m] \in 0 .. now
  /\ view \in [Admin -> Server]
  /\ call \in [Call -> CallRec]
  /\ late \subseteq Server \X Command /\ ran \subseteq Server \X Command
  /\ sent \in [Server -> [Command -> 0 .. Never]]
  /\ log \subseteq Row
  /\ requests \in Nat
  /\ drops \in [Server -> Nat]

\* "prevent same command within 2 seconds": whoever asks, and however often the
\* clean-up has run in between, a deduplicated command is sent to a server once a window.
SpacedOut ==
  [][\A c \in Call : LET q == call[c]
                          last == sent[q.on][Head(q.todo)] IN
       q.at = "issue" /\ q.dedupe /\ call'[c].at = "wait"
         => last = Never \/ now - last >= Window]_vars

\* An audit row stands for commands that were sent to the server its handler started
\* with: a duplicate is reported as a success only on the strength of a sending.
AuditedWasSent ==
  \A r \in log : \A m \in r.did : <<r.on, m>> \in ran \/ sent[r.on][m] # Never

\* Every handler ends: with SquadJS's answer, or without it by the timeout.
HandlersEnd == \A c \in Call :
  []<>~(call[c].at = "wait" /\ call[c].since + Patience <= MaxTime)

\* "rconAudit(..., serverKey, { command })": a row names the server its commands ran on.
AuditNamesServer == \A r \in log : r.names = r.on

\* "Every action is auditDirect-logged": what has run is in a row, once its handler and
\* everything else in flight has ended.
EveryActionLogged ==
  (\A c \in Call : call[c] = Idle) /\ late = {}
    => \A x \in ran : \E r \in log : r.on = x[1] /\ x[2] \in r.did
=============================================================================
