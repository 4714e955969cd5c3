------------------------------- MODULE MCLive -------------------------------
(***************************************************************************)
(* The live-server page and what it works with, checked side by side: the   *)
(* RCON commands (RconDesk), the server information that the api collects    *)
(* (SquadInfo), the page itself (LivePage).  They share no state: `part`    *)
(* says which of them a behaviour is about, the others stay as they began.  *)
(***************************************************************************)
EXTENDS MCRconDesk

CONSTANTS
  Fields, MaxConn,                                                       \* SquadInfo
  Page, First, MaxRoster, MaxNews, MaxSwitches, MaxPageDrops, MaxInbox   \* LivePage

VARIABLES
  part,
  up, conn, answers, published, timer, info, sampling,                   \* SquadInfo
  roster, mirror, sock, sub, inbox, outbox, tab, shown, news, switches, pageDrops  \* LivePage

Info == INSTANCE SquadInfo WITH connected <- up
Pages == INSTANCE LivePage

infoVars == <<up, conn, answers, published, timer, info, sampling>>
pageVars == <<roster, mirror, news, sock, sub, inbox, outbox, tab, shown, switches, pageDrops>>
liveVars == <<part, vars, infoVars, pageVars>>

LiveInit == part \in {"desk", "info", "page"} /\ Init /\ Info!Init /\ Pages!Init

LiveNext ==
  \/ part = "desk" /\ Next /\ UNCHANGED <<part, infoVars, pageVars>>
  \/ part = "info" /\ Info!Next /\ UNCHANGED <<part, vars, pageVars>>
  \/ part = "page" /\ Pages!Next /\ UNCHANGED <<part, vars, infoVars>>

\* The fairness of the part that moves.
LiveFairness ==
  /\ WF_vars(part = "desk" /\ Tick) /\ \A c \in Call : WF_vars(part = "desk" /\ Handler(c))
  /\ WF_infoVars(part = "info" /\ Info!Connect) /\ WF_infoVars(part = "info" /\ Info!AnswerField)
  /\ \A i \in 1 .. MaxConn : WF_infoVars(part = "info" /\ Info!Fallback(i))
  /\ \A p \in Page :
       /\ WF_pageVars(part = "page" /\ Pages!PageConnect(p))
       /\ WF_pageVars(part = "page" /\ Pages!SwitchServer(p))
       /\ WF_pageVars(part = "page" /\ Pages!PageReceive(p))

LiveSpec == LiveInit /\ [][LiveNext]_liveVars /\ LiveFairness

-----------------------------------------------------------------------------
\* SquadInfo's: metrics are sampled again after every reconnect.
SamplesAgain == <>[](part = "info" => up /\ sampling /\ info # 0)

\* LivePage's: a page that has received everything shows the mirror of the server its
\* socket is subscribed to.
PageMirrors == Pages!PageMirrors

\* LivePage's: a tab that somebody chose is subscribed to, whichever requests were lost.
SwitchesArrive == Pages!SwitchesArrive

\* LivePage's: every page ends up connected, showing the list of its server.
PagesCatchUp ==
  <>[](part = "page" => \A p \in Page :
         /\ sock[p]
         /\ shown[p].connected = mirror[sub[p]].connected
         /\ shown[p].players = mirror[sub[p]].players)
=============================================================================
