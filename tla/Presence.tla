------------------------------ MODULE Presence ------------------------------
(***************************************************************************)
(* Who is on which page: the roster of /presence/ws.  Every page holds a    *)
(* socket (packages/web, hooks/use-presence.ts); the api (ws/presence.ts)    *)
(* sends everybody the whole roster after every change.                     *)
(*                                                                         *)
(* A socket is dialed again 5 seconds after it was lost, and anew with       *)
(* every new JWT.  What a page has to say - the path it shows, whether its   *)
(* user hides - it says when it dials, and afterwards only on a socket that  *)
(* is open.  What a page sends is a queue; of the rosters sent to it and not *)
(* heard yet only the last is kept, since each replaces the one before.      *)
(***************************************************************************)
EXTENDS Naturals, Sequences, FiniteSets

CONSTANTS
  User,       \* users, each with one page open
  Developers, \* those who may hide, and see who hides
  Path,
  None,
  MaxMoves    \* bound on navigations, hidings, renewals and losses

VARIABLES
  path,     \* path[u]: the page u looks at
  hide,     \* hide[u]: rb-hide-presence in u's browser
  given,    \* given[u]: the path the effect that dials has captured
  current,  \* current[u]: the socket in presenceWsRef, 0 when there is none
  opened,   \* opened[u]: is it OPEN for the page?
  roster,   \* roster[u]: what u's page shows
  socket,   \* the sockets of each user: the current one and one being closed
  clients,  \* presenceClients, in the order of insertion
  missed,   \* history: what u's page did not get to say on the current socket
  moves

page == <<path, hide, given, current, opened>>
vars == <<page, roster, socket, clients, missed, moves>>

-----------------------------------------------------------------------------
Slot == {1, 2}
Sockets == User \X Slot
\* toApi: what the page has sent; accepted, news: what the api has.
Gone == [at |-> "gone", data |-> [path |-> None, hidden |-> FALSE], toApi |-> <<>>,
         accepted |-> FALSE, news |-> None]
Closing == [say |-> "close"]

Init ==
  /\ \E p \in Path : path = [u \in User |-> p]
  /\ hide = [u \in User |-> FALSE]
  /\ given = path
  /\ current = [u \in User |-> 0] /\ opened = [u \in User |-> FALSE]
  /\ roster = [u \in User |-> [v \in User |-> None]]
  /\ socket = [s \in Sockets |-> Gone]
  /\ clients = <<>>
  /\ missed = [u \in User |-> {}]
  /\ moves = 0

Move == moves < MaxMoves /\ moves' = moves + 1
Calm == UNCHANGED moves

\* setHidePresence: only developers can hide.
Hidden(u, b) == b /\ u \in Developers

\* visiblePresenceUsers, the last socket of a user counting, for one viewer.
Seen(cs, ss, viewer) ==
  [u \in User |->
     LET mine == {i \in DOMAIN cs : cs[i][1] = u
                    /\ (viewer \in Developers \/ ~ss[cs[i]].data.hidden)} IN
     IF mine = {} THEN None
     ELSE ss[cs[CHOOSE i \in mine : \A j \in mine : j <= i]].data.path]

Broadcast(cs, ss) ==
  /\ clients' = cs
  /\ socket' = [s \in Sockets |->
       IF \E i \in DOMAIN cs : cs[i] = s
         THEN [ss[s] EXCEPT !.news = Seen(cs, ss, s[1])]
         ELSE ss[s]]

-----------------------------------------------------------------------------
(* The page.                                                               *)

\* connect() tells the path it was given and whether the user hides now.
Dialed(u, ss, p) ==
  \E k \in Slot :
    /\ ss[<<u, k>>] = Gone
    /\ socket' = [ss EXCEPT ![<<u, k>>] =
         [Gone EXCEPT !.at = "dialing", !.data = [path |-> p, hidden |-> Hidden(u, hide[u])]]]
    /\ current' = [current EXCEPT ![u] = k]
    /\ opened' = [opened EXCEPT ![u] = FALSE]

\* The effect runs, on the first JWT and on every new one: the old socket is closed, and
\* what it still delivers is not heard.
Renew(u) ==
  /\ Move
  /\ given' = [given EXCEPT ![u] = path[u]]
  /\ LET old == <<u, current[u]>> IN
     Dialed(u, IF current[u] = 0 THEN socket
               ELSE [socket EXCEPT ![old].toApi = Append(@, Closing), ![old].accepted = FALSE, ![old].news = None],
            path[u])
  /\ missed' = [missed EXCEPT ![u] = {}]
  /\ UNCHANGED <<path, hide, roster, clients>>

\* The connection is lost; the api is told by its end.
Lose(u) ==
  /\ current[u] # 0 /\ Move
  /\ socket' = [socket EXCEPT ![<<u, current[u]>>].toApi = <<Closing>>,
                              ![<<u, current[u]>>].accepted = FALSE,
                              ![<<u, current[u]>>].news = None]
  /\ current' = [current EXCEPT ![u] = 0] /\ opened' = [opened EXCEPT ![u] = FALSE]
  /\ UNCHANGED <<path, hide, given, roster, clients, missed>>

\* The timer after a loss: the effect's path is said again, whatever the page shows now.
Reconnect(u) ==
  /\ current[u] = 0 /\ Dialed(u, socket, given[u])
  /\ missed' = [missed EXCEPT ![u] = IF path[u] = given[u] THEN {} ELSE {"path"}]
  /\ Calm /\ UNCHANGED <<path, hide, given, roster, clients>>

\* Said on an open socket; while one is dialed it is missed, and when there is none the
\* next one says it all (the path excepted, see Reconnect).
Say(u, what, message) ==
  IF opened[u]
    THEN /\ socket' = [socket EXCEPT ![<<u, current[u]>>].toApi = Append(@, message)]
         /\ missed' = [missed EXCEPT ![u] = @ \ {what}]
    ELSE /\ missed' = [missed EXCEPT ![u] = IF current[u] = 0 THEN @ ELSE @ \cup {what}]
         /\ UNCHANGED socket

Navigate(u) ==
  /\ Move
  /\ \E p \in Path \ {path[u]} :
       path' = [path EXCEPT ![u] = p] /\ Say(u, "path", [say |-> "path", is |-> p])
  /\ UNCHANGED <<hide, given, current, opened, roster, clients>>

SetHide(u) ==
  /\ Move
  /\ hide' = [hide EXCEPT ![u] = ~@]
  /\ Say(u, "hide", [say |-> "hide", is |-> ~hide[u]])
  /\ UNCHANGED <<path, given, current, opened, roster, clients>>

Hear(u) ==
  LET s == <<u, current[u]>> IN
  /\ current[u] # 0
  /\ \/ /\ socket[s].accepted /\ opened' = [opened EXCEPT ![u] = TRUE]
        /\ socket' = [socket EXCEPT ![s].accepted = FALSE] /\ UNCHANGED roster
     \/ /\ opened[u] /\ socket[s].news # None
        /\ roster' = [roster EXCEPT ![u] = socket[s].news]
        /\ socket' = [socket EXCEPT ![s].news = None] /\ UNCHANGED opened
  /\ Calm /\ UNCHANGED <<path, hide, given, current, clients, missed>>

-----------------------------------------------------------------------------
(* The api.                                                                *)

\* handlePresenceOpen, once the JWT is verified.
Open(s) ==
  /\ socket[s].at = "dialing"
  /\ Broadcast(Append(clients, s),
               [socket EXCEPT ![s].at = "up", ![s].accepted = TRUE])
  /\ Calm /\ UNCHANGED <<page, roster, missed>>

\* presenceClients is a set: s is in it once.
Without(cs, s) ==
  LET at == CHOOSE i \in DOMAIN cs : cs[i] = s
  IN [i \in 1 .. Len(cs) - 1 |-> cs[IF i < at THEN i ELSE i + 1]]

Told(s, m) ==
  CASE m.say = "path" -> [socket EXCEPT ![s].data.path = m.is, ![s].toApi = Tail(@)]
    [] m.say = "hide" -> [socket EXCEPT ![s].data.hidden = Hidden(s[1], m.is), ![s].toApi = Tail(@)]
    [] m.say = "close" -> [socket EXCEPT ![s] = Gone]

Receive_QuietClose(s) ==  \* fault: a close is not broadcast
  /\ socket[s].at = "up" /\ socket[s].toApi # <<>>
  /\ LET m == Head(socket[s].toApi) IN
     IF m.say = "close" THEN clients' = Without(clients, s) /\ socket' = Told(s, m)
     ELSE Broadcast(clients, Told(s, m))
  /\ Calm /\ UNCHANGED <<page, roster, missed>>

\* handlePresenceMessage and handlePresenceClose.
Receive(s) ==
  /\ socket[s].at = "up" /\ socket[s].toApi # <<>>
  /\ LET m == Head(socket[s].toApi) IN
     Broadcast(IF m.say = "close" THEN Without(clients, s) ELSE clients, Told(s, m))
  /\ Calm /\ UNCHANGED <<page, roster, missed>>

Next ==
  \/ \E u \in User : Renew(u) \/ Lose(u) \/ Reconnect(u) \/ Navigate(u) \/ SetHide(u) \/ Hear(u)
  \/ \E s \in Sockets : Open(s) \/ Receive(s)

Spec == Init /\ [][Next]_vars

-----------------------------------------------------------------------------
(* What must hold.                                                         *)

Delivered == \A s \in Sockets :
  /\ socket[s].at # "dialing" /\ socket[s].toApi = <<>>
  /\ ~socket[s].accepted /\ socket[s].news = None

Truth(u, viewer) ==
  IF current[u] = 0 \/ (Hidden(u, hide[u]) /\ viewer \notin Developers) THEN None ELSE path[u]

\* Whatever was said, lost, dialed again and renewed in whatever order: once all messages are
\* delivered, every page that is connected shows everybody who is, on the page they look at,
\* and nobody who hides; but for what somebody's page did while its socket was not open.
RosterIsTrue ==
  Delivered => \A v \in User, u \in User :
    current[v] # 0 /\ missed[u] = {} => roster[v][u] = Truth(u, v)
=============================================================================
