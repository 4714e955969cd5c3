------------------------------ MODULE LivePage ------------------------------
(***************************************************************************)
(* The live-server page: the api's mirror (LiveMirror), the relay and the  *)
(* snapshots of ws/live-server.ts, and the browser's page                  *)
(* (web/app/(protected)/live-server/page.tsx and handle-game-event.ts).    *)
(*                                                                         *)
(* A page has a WebSocket of its own.  The api sends it the events of the  *)
(* server its socket is subscribed to, ws.data.serverKey, and a snapshot of *)
(* the mirror when it opens and when it asks to switch.  The page knows the *)
(* server it is on, its tab, only from itself.                             *)
(***************************************************************************)
EXTENDS LiveMirror, Sequences

CONSTANTS
  Page,         \* open live-server pages
  First,        \* getServerKeys()[0]
  None,
  MaxRoster,    \* bound on the changes of one server's player list
  MaxNews,      \* bound on the changes of the mirrors
  MaxSwitches,  \* bound on the tab switches of one page
  MaxPageDrops, \* bound on the closings of one page's socket
  MaxInbox      \* bound on the messages on their way to one page

VARIABLES
  sock,     \* is the page's socket open?
  sub,      \* the api's ws.data.serverKey
  inbox,    \* messages from the api to the page
  outbox,   \* switch_server requests from the page to the api
  tab,      \* the page's activeServer
  shown,    \* what the page displays
  news, switches, pageDrops  \* counters the bounds are on

pvars == <<sock, sub, inbox, outbox, tab, shown, switches, pageDrops>>
vars == <<mvars, news, pvars>>

-----------------------------------------------------------------------------
Servers == [kind |-> "servers"]
Snapshot(s) == [kind |-> "snapshot", body |-> mirror[s]]
Connection(up) == [kind |-> "connection", up |-> up]
List(v) == [kind |-> "players", v |-> v]
Pending(b) == [kind |-> "queue", on |-> b]

Init ==
  /\ MInit
  /\ news = 0
  /\ sock = [p \in Page |-> FALSE]
  /\ sub = [p \in Page |-> None]
  /\ inbox = [p \in Page |-> <<>>]
  /\ outbox = [p \in Page |-> <<>>]
  /\ tab = [p \in Page |-> None]
  /\ shown = [p \in Page |-> Unknown]
  /\ switches = [p \in Page |-> 0]
  /\ pageDrops = [p \in Page |-> 0]

-----------------------------------------------------------------------------
(* The api: every broadcast goes to the sockets subscribed to its server.  *)

\* broadcast(s, event, data) and the listener of initLiveServerRelay.
Relay(s, m) ==
  /\ \A p \in Page : sock[p] /\ sub[p] = s => Len(inbox[p]) < MaxInbox
  /\ inbox' = [p \in Page |-> IF sock[p] /\ sub[p] = s THEN Append(inbox[p], m) ELSE inbox[p]]
  /\ UNCHANGED <<sock, sub, outbox, tab, shown, switches, pageDrops>>

\* The mirror of server s changes and the change is relayed, except the answer of
\* getBalanceStatus.
MirrorStep(s) ==
  \/ roster[s] < MaxRoster /\ Advance(s) /\ UNCHANGED <<news, pvars>>
  \/ /\ news < MaxNews /\ news' = news + 1
     /\ \/ SetPlayers(s) /\ Relay(s, List(mirror'[s].players))
        \/ \E b \in BOOLEAN :
             \/ SetConnected(s, b) /\ Relay(s, Connection(b))
             \/ QueueEvent(s, b) /\ Relay(s, Pending(b))
             \/ StatusAnswer(s, b) /\ UNCHANGED pvars

PageConnect_Once(p) ==  \* fault: a closed socket is not opened again
  /\ ~sock[p] /\ pageDrops[p] = 0
  /\ sock' = [sock EXCEPT ![p] = TRUE]
  /\ sub' = [sub EXCEPT ![p] = First]
  /\ inbox' = [inbox EXCEPT ![p] = <<Servers, Snapshot(First)>>]
  /\ UNCHANGED <<mvars, news, outbox, tab, shown, switches, pageDrops>>

\* The upgrade subscribes the socket to the first server, the page names none;
\* handleLiveServerOpen then sends the list of servers and a snapshot.
PageConnect(p) ==
  /\ ~sock[p]
  /\ sock' = [sock EXCEPT ![p] = TRUE]
  /\ sub' = [sub EXCEPT ![p] = First]
  /\ inbox' = [inbox EXCEPT ![p] = <<Servers, Snapshot(First)>>]
  /\ UNCHANGED <<mvars, news, outbox, tab, shown, switches, pageDrops>>

SwitchServer_NoSnapshot(p) ==  \* fault: the switch only subscribes
  /\ outbox[p] # <<>>
  /\ sub' = [sub EXCEPT ![p] = Head(outbox[p])]
  /\ outbox' = [outbox EXCEPT ![p] = Tail(@)]
  /\ UNCHANGED <<mvars, news, sock, inbox, tab, shown, switches, pageDrops>>

\* handleLiveServerMessage, switch_server.
SwitchServer(p) ==
  /\ outbox[p] # <<>>
  /\ sub' = [sub EXCEPT ![p] = Head(outbox[p])]
  /\ inbox' = [inbox EXCEPT ![p] = Append(@, Snapshot(Head(outbox[p])))]
  /\ outbox' = [outbox EXCEPT ![p] = Tail(@)]
  /\ UNCHANGED <<mvars, news, sock, tab, shown, switches, pageDrops>>

-----------------------------------------------------------------------------
(* The page.                                                               *)

ReceiveServers_Forgets(p) ==  \* fault: after a reconnect the tab is not asked for again
  /\ tab' = [tab EXCEPT ![p] = IF @ = None THEN First ELSE @]
  /\ UNCHANGED <<outbox, shown>>

\* "servers": the page asks again for the tab it was on; with none yet, it takes the
\* browser's stored default, or the first server.
ReceiveServers(p) ==
  /\ IF tab[p] # None
       THEN /\ outbox' = [outbox EXCEPT ![p] = Append(@, tab[p])]
            /\ UNCHANGED tab
       ELSE /\ \E s \in Server : tab' = [tab EXCEPT ![p] = s]
            /\ UNCHANGED outbox
  /\ UNCHANGED shown

\* "snapshot": everything is replaced, the queue's status only if there is one.
ReceiveSnapshot(p, body) ==
  /\ shown' = [shown EXCEPT ![p] =
       [body EXCEPT !.queue = IF @ = "null" THEN shown[p].queue ELSE @]]
  /\ UNCHANGED <<outbox, tab>>

\* "event": handleGameEvent, whatever server the event names.
ReceiveEvent(p, m) ==
  /\ shown' = [shown EXCEPT ![p] =
       CASE m.kind = "connection" -> [@ EXCEPT !.connected = m.up]
         [] m.kind = "players" -> [@ EXCEPT !.players = m.v]
         [] m.kind = "queue" -> [@ EXCEPT !.queue = IF m.on THEN "pending" ELSE "null"]]
  /\ UNCHANGED <<outbox, tab>>

\* handleMessage.
PageReceive(p) ==
  /\ inbox[p] # <<>>
  /\ inbox' = [inbox EXCEPT ![p] = Tail(@)]
  /\ LET m == Head(inbox[p]) IN
     CASE m.kind = "servers" -> ReceiveServers(p)
       [] m.kind = "snapshot" -> ReceiveSnapshot(p, m.body)
       [] OTHER -> ReceiveEvent(p, m)
  /\ UNCHANGED <<mvars, news, sock, sub, switches, pageDrops>>

\* switchServer: the display is cleared, but for the queue's status.
SwitchTab(p, s) ==
  /\ tab[p] # None /\ switches[p] < MaxSwitches
  /\ switches' = [switches EXCEPT ![p] = @ + 1]
  /\ tab' = [tab EXCEPT ![p] = s]
  /\ shown' = [shown EXCEPT ![p] = [Unknown EXCEPT !.queue = shown[p].queue]]
  /\ outbox' = [outbox EXCEPT ![p] = IF sock[p] THEN Append(@, s) ELSE @]
  /\ UNCHANGED <<mvars, news, sock, sub, inbox, pageDrops>>

\* The socket closes; what was on its way either way is lost, the display stays.
PageDrop(p) ==
  /\ sock[p] /\ pageDrops[p] < MaxPageDrops
  /\ pageDrops' = [pageDrops EXCEPT ![p] = @ + 1]
  /\ sock' = [sock EXCEPT ![p] = FALSE]
  /\ inbox' = [inbox EXCEPT ![p] = <<>>]
  /\ outbox' = [outbox EXCEPT ![p] = <<>>]
  /\ UNCHANGED <<mvars, news, sub, tab, shown, switches>>

-----------------------------------------------------------------------------
Next ==
  \/ \E s \in Server : MirrorStep(s)
  \/ \E p \in Page :
       \/ PageConnect(p) \/ SwitchServer(p) \/ PageReceive(p) \/ PageDrop(p)
       \/ \E s \in Server : SwitchTab(p, s)

Safety == Init /\ [][Next]_vars

\* Sockets deliver, and the page reconnects 3 seconds after its socket has closed.
Fairness ==
  \A p \in Page :
    WF_vars(PageConnect(p)) /\ WF_vars(SwitchServer(p)) /\ WF_vars(PageReceive(p))
Spec == Safety /\ Fairness

-----------------------------------------------------------------------------
(* What must hold.                                                         *)

\* Nothing is under way between page p and the api.
Settled(p) == sock[p] /\ inbox[p] = <<>> /\ outbox[p] = <<>>

\* A page that has received what was sent to it shows the mirror of the server its
\* socket is subscribed to: snapshots and events together miss no change of the list or
\* of the connection, and none of another server's survives a switch or a reconnect.
PageMirrors ==
  \A p \in Page : Settled(p) =>
    /\ shown[p].connected = mirror[sub[p]].connected
    /\ shown[p].players = mirror[sub[p]].players

\* Once somebody has chosen a tab, a page that has received everything is subscribed to
\* it, whichever switches were lost when its socket closed.
SwitchesArrive == \A p \in Page : Settled(p) /\ switches[p] > 0 => sub[p] = tab[p]

\* "Pick a default server the same way the monitor does": the page monitors the server
\* its tab names.
TabIsSubscribed == \A p \in Page : Settled(p) => sub[p] = tab[p]

\* A pill has a cause: a page that has received everything shows one only if the api
\* has heard, since, that a balance is or is not queued.
PillHasCause ==
  \A p \in Page : Settled(p) /\ shown[p].queue = "pending" => mirror[sub[p]].queue # "null"

\* Once the mirrors stay as they are, every page ends up connected and showing the
\* list and the connection of the server it is subscribed to, whatever was lost.
PagesCatchUp ==
  <>[](\A p \in Page :
         /\ sock[p]
         /\ shown[p].connected = mirror[sub[p]].connected
         /\ shown[p].players = mirror[sub[p]].players)
=============================================================================
