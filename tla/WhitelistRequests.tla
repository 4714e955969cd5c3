-------------------------- MODULE WhitelistRequests --------------------------
(***************************************************************************)
(* Whitelist requests: who may be whitelisted and is not yet.  The api      *)
(* computes the list per server (routes/whitelist.ts, candidates; shared,   *)
(* whitelist-candidates.ts) and keeps what staff dismissed for a while; the *)
(* Requests tab of the page (packages/web, app/(protected)/whitelist)       *)
(* approves, dismisses and restores on the server it has selected; the       *)
(* sidebar's badge (layout.tsx) counts the requests of all servers.         *)
(*                                                                         *)
(* One browser, whose fetches overlap and are never cancelled, and other    *)
(* staff, the bot and the calendar behind the api's back.                   *)
(***************************************************************************)
EXTENDS Naturals, FiniteSets, FiniteSetsExt

CONSTANTS
  Member,    \* users with a Steam ID
  Server,    \* configured servers
  First,     \* the one the page opens with,
  Fallback,  \* and the one it opens with when the servers cannot be loaded
  Fetch,     \* fetches of the page in flight; a bound
  Count,     \* and of the sidebar
  None,
  MaxMoves   \* bound on clicks, on what others do and on failures

VARIABLES
  eligible,  \* not disabled, with a role that grants the whitelist
  entry,     \* entry[m][v]: "none", "active", or "late" (expired or deactivated)
  dismissed, \* dismissed[m][v]: is there a dismissal in force?
  activeServer,
  list,      \* the candidates the page shows, and the server they were asked for
  fetch,     \* fetches of the page
  badge,     \* the sidebar's count
  count,     \* its fetches
  other,     \* a restore by other staff between its two statements
  moves

db == <<eligible, entry, dismissed>>
page == <<activeServer, list, fetch>>
sidebar == <<badge, count>>
vars == <<db, page, sidebar, other, moves>>

-----------------------------------------------------------------------------
(* whitelist-candidates.ts and the two GETs.                               *)

EntryStates == {"none", "active", "late"}
Lists == [server : Server \cup {None}, pending : SUBSET Member, dismissed : SUBSET Member]
NoList == [server |-> None, pending |-> {}, dismissed |-> {}]

Partition_AnyServer(v) ==  \* fault: a dismissal counts on every server
  LET open == {m \in eligible : entry[m][v] # "active"} IN
  [server |-> v,
   pending |-> {m \in open : \A w \in Server : ~dismissed[m][w]},
   dismissed |-> {m \in open : \E w \in Server : dismissed[m][w]}]

\* partitionCandidatesForServer: an active entry goes before a dismissal; an entry that is
\* expired or deactivated is none.
Partition(v) ==
  LET open == {m \in eligible : entry[m][v] # "active"} IN
  [server |-> v,
   pending |-> {m \in open : ~dismissed[m][v]},
   dismissed |-> {m \in open : dismissed[m][v]}]

\* GET /candidates/summary.
TotalPending == FoldSet(LAMBDA v, n : n + Cardinality(Partition(v).pending), 0, Server)

-----------------------------------------------------------------------------
\* A fetch of the page: the configured servers, a load (of the entries, then of the
\* candidates), or a click that is followed by a load of the candidates.
Stages == {"idle", "servers", "entries", "approve", "create", "dismiss", "restore", "update", "ask", "got"}
NoFetch == [at |-> "idle", server |-> None, who |-> None, click |-> FALSE, data |-> NoList]
Fetches == [at : Stages, server : Server \cup {None}, who : Member \cup {None},
            click : BOOLEAN, data : Lists]

Counts == [at : {"idle", "asked", "got"}, n : Nat]
NoCount == [at |-> "idle", n |-> 0]

Init ==
  /\ eligible \in SUBSET Member
  /\ entry \in [Member -> [Server -> {"none", "late"}]]
  /\ dismissed = [m \in Member |-> [v \in Server |-> FALSE]]
  /\ activeServer \in {First, Fallback} /\ list = NoList
  /\ fetch = [f \in Fetch |-> NoFetch]
  /\ badge = 0 /\ count = [k \in Count |-> NoCount]
  /\ other = <<None, None>>
  /\ moves = 0

Move == moves < MaxMoves /\ moves' = moves + 1
Calm == UNCHANGED moves

Begin(f, at, m, click) ==
  /\ fetch[f].at = "idle"
  /\ fetch' = [fetch EXCEPT ![f] =
                 [at |-> at, server |-> activeServer, who |-> m, click |-> click, data |-> NoList]]
Goto(f, at) == fetch' = [fetch EXCEPT ![f].at = at]
End(f) == fetch' = [fetch EXCEPT ![f] = NoFetch]

\* The 20 second refresh, whether or not the last one has ended.
Refresh(f) ==
  /\ Begin(f, "entries", None, FALSE)
  /\ \A o \in Fetch \ {f} : fetch[o].at # "entries"
  /\ Calm /\ UNCHANGED <<db, activeServer, list, sidebar, other>>

\* A server tab: the effect on activeServer loads it.
Switch(f, v) ==
  /\ v # activeServer /\ Move
  /\ activeServer' = v
  /\ fetch[f].at = "idle"
  /\ fetch' = [fetch EXCEPT ![f] = [NoFetch EXCEPT !.at = "entries", !.server = v]]
  /\ UNCHANGED <<db, list, sidebar, other>>

\* The token is renewed: a load, and the servers once more.
Renew(f, g) ==
  /\ f # g /\ fetch[f].at = "idle" /\ fetch[g].at = "idle" /\ Move
  /\ fetch' = [fetch EXCEPT ![f].at = "servers",
                            ![g] = [NoFetch EXCEPT !.at = "entries", !.server = activeServer]]
  /\ UNCHANGED <<db, activeServer, list, sidebar, other>>

\* The page goes to the server it opens with; if it showed another, the effect loads it.
Servers(f) ==
  /\ fetch[f].at = "servers" /\ activeServer' \in {First, Fallback}
  /\ fetch' = [fetch EXCEPT ![f] = IF activeServer' = activeServer THEN NoFetch
                                   ELSE [NoFetch EXCEPT !.at = "entries", !.server = activeServer']]
  /\ Calm /\ UNCHANGED <<db, list, sidebar, other>>

\* The entries have come; loadCandidates asks for the candidates of the same server.
Entries(f) ==
  /\ fetch[f].at = "entries" /\ Goto(f, "ask")
  /\ Calm /\ UNCHANGED <<db, activeServer, list, sidebar, other>>

Ask(f) ==
  /\ fetch[f].at = "ask"
  /\ fetch' = [fetch EXCEPT ![f].at = "got", ![f].data = Partition(fetch[f].server)]
  /\ Calm /\ UNCHANGED <<db, activeServer, list, sidebar, other>>

\* The sidebar fetches, also while a fetch of it is out.
FetchCount == \E k \in Count : count[k].at = "idle" /\ count' = [count EXCEPT ![k].at = "asked"]

Apply_Once(f) ==  \* fault: only the first list is shown
  /\ fetch[f].at = "got"
  /\ list' = IF list = NoList THEN fetch[f].data ELSE list
  /\ End(f)
  /\ IF fetch[f].click THEN FetchCount ELSE UNCHANGED count
  /\ Calm /\ UNCHANGED <<db, activeServer, badge, other>>

\* applyCandidates, for whichever server they are; after a click the sidebar is told.
Apply(f) ==
  /\ fetch[f].at = "got"
  /\ list' = fetch[f].data
  /\ End(f)
  /\ IF fetch[f].click THEN FetchCount ELSE UNCHANGED count
  /\ Calm /\ UNCHANGED <<db, activeServer, badge, other>>

\* A card's buttons: the click acts on the selected server, whichever list the card is of.
Click(f, m, what) ==
  /\ m \in IF what = "restore" THEN list.dismissed ELSE list.pending
  /\ ~\E o \in Fetch : fetch[o].who = m
  /\ Begin(f, what, m, TRUE)
  /\ Move /\ UNCHANGED <<db, activeServer, list, sidebar, other>>

\* POST /whitelist: any row in the way is a conflict, an active one or not.
Approve(f) ==
  LET q == fetch[f] IN
  /\ q.at = "approve"
  /\ IF entry[q.who][q.server] # "none" THEN End(f) ELSE Goto(f, "create")
  /\ Calm /\ UNCHANGED <<db, activeServer, list, sidebar, other>>

Create(f) ==
  LET q == fetch[f] IN
  /\ q.at = "create"
  /\ IF entry[q.who][q.server] # "none" THEN End(f) /\ UNCHANGED entry
     ELSE entry' = [entry EXCEPT ![q.who][q.server] = "active"] /\ Goto(f, "ask")
  /\ Calm /\ UNCHANGED <<eligible, dismissed, activeServer, list, sidebar, other>>

SetDismissed(m, v, b) == dismissed' = [dismissed EXCEPT ![m][v] = b]

Dismiss(f) ==
  LET q == fetch[f] IN
  /\ q.at = "dismiss"
  /\ SetDismissed(q.who, q.server, TRUE) /\ Goto(f, "ask")
  /\ Calm /\ UNCHANGED <<eligible, entry, activeServer, list, sidebar, other>>

\* POST .../restore finds a dismissal in force, then marks the row, whatever it is by then.
Restore(f) ==
  LET q == fetch[f] IN
  /\ q.at = "restore"
  /\ IF dismissed[q.who][q.server] THEN Goto(f, "update") ELSE End(f)
  /\ Calm /\ UNCHANGED <<db, activeServer, list, sidebar, other>>

Update(f) ==
  LET q == fetch[f] IN
  /\ q.at = "update"
  /\ SetDismissed(q.who, q.server, FALSE) /\ Goto(f, "ask")
  /\ Calm /\ UNCHANGED <<eligible, entry, activeServer, list, sidebar, other>>

\* A click or a list of candidates fails: the page keeps what it has, and the sidebar is
\* told of a click that was carried out.  (A failed list of entries is followed by the
\* candidates all the same; see EntriesTab for what it shows.)
Fails(f) ==
  /\ fetch[f].at \notin {"idle", "servers", "entries"} /\ End(f) /\ Move
  /\ IF fetch[f].click /\ fetch[f].at \in {"ask", "got"} THEN FetchCount ELSE UNCHANGED count
  /\ UNCHANGED <<db, activeServer, list, badge, other>>

-----------------------------------------------------------------------------
(* The badge: a minute's interval, and an event after every click.         *)

Poll == FetchCount /\ Calm /\ UNCHANGED <<db, page, badge, other>>

Counted(k) ==
  /\ count[k].at = "asked"
  /\ count' = [count EXCEPT ![k] = [at |-> "got", n |-> TotalPending]]
  /\ Calm /\ UNCHANGED <<db, page, badge, other>>

ShowBadge(k) ==
  /\ count[k].at = "got"
  /\ badge' = count[k].n /\ count' = [count EXCEPT ![k] = NoCount]
  /\ Calm /\ UNCHANGED <<db, page, other>>

-----------------------------------------------------------------------------
(* Everybody else.                                                         *)

Others ==
  /\ \/ /\ \E m \in Member : eligible' = (eligible \ {m}) \cup ({m} \ eligible)
        /\ UNCHANGED <<entry, dismissed, other>>
     \/ /\ \E m \in Member, v \in Server, s \in EntryStates :
             s # entry[m][v] /\ entry' = [entry EXCEPT ![m][v] = s]
        /\ UNCHANGED <<eligible, dismissed, other>>
     \/ /\ \E m \in Member, v \in Server : SetDismissed(m, v, ~dismissed[m][v])
        /\ UNCHANGED <<eligible, entry, other>>
     \/ /\ \E m \in Member, v \in Server : dismissed[m][v] /\ other' = <<m, v>>
        /\ other = <<None, None>>
        /\ UNCHANGED db
  /\ Move /\ UNCHANGED <<page, sidebar>>

OtherUpdates ==
  /\ other # <<None, None>>
  /\ SetDismissed(other[1], other[2], FALSE)
  /\ other' = <<None, None>>
  /\ Calm /\ UNCHANGED <<eligible, entry, page, sidebar>>

Progress(f) == Servers(f) \/ Entries(f) \/ Ask(f) \/ Apply(f) \/ Approve(f) \/ Create(f) \/ Dismiss(f)
               \/ Restore(f) \/ Update(f)

Next ==
  \/ \E f \in Fetch :
       \/ Refresh(f) \/ Progress(f) \/ Fails(f)
       \/ \E g \in Fetch : Renew(f, g)
       \/ \E v \in Server : Switch(f, v)
       \/ \E m \in Member, what \in {"approve", "dismiss", "restore"} : Click(f, m, what)
  \/ Poll \/ Others \/ OtherUpdates
  \/ \E k \in Count : Counted(k) \/ ShowBadge(k)

\* Fetches are answered, the two intervals go on.  Nobody has to click.
Fairness ==
  /\ \A f \in Fetch : WF_vars(Progress(f)) /\ WF_vars(Refresh(f))
  /\ \A k \in Count : WF_vars(Counted(k)) /\ WF_vars(ShowBadge(k))
  /\ WF_vars(Poll) /\ WF_vars(OtherUpdates)

Spec == Init /\ [][Next]_vars /\ Fairness

-----------------------------------------------------------------------------
(* What must hold.                                                         *)

\* Every variable has the type its declaration states; an idle fetch holds nothing.
TypeOK ==
  /\ eligible \in SUBSET Member /\ entry \in [Member -> [Server -> EntryStates]]
  /\ dismissed \in [Member -> [Server -> BOOLEAN]]
  /\ activeServer \in Server /\ list \in Lists /\ fetch \in [Fetch -> Fetches]
  /\ \A f \in Fetch : fetch[f].at = "idle" => fetch[f] = NoFetch
  /\ badge \in Nat /\ count \in [Count -> Counts] /\ moves \in Nat
  /\ other \in (Member \cup {None}) \X (Server \cup {None})

\* Once everybody leaves things alone, the Requests tab shows the requests of the server
\* that is selected (the lists of other servers that come late, and stale ones, do not
\* stay), and the badge the sum over all servers.
RequestsSettle ==
  /\ <>[](list = Partition(activeServer))
  /\ <>[](badge = TotalPending)

\* Dismissing is per server, approving too, whichever list the card came from: what is
\* carried out takes the request off the list of that server, and no list of another
\* server changes.
ActsPerServer ==
  [][\A f \in Fetch :
       LET q == fetch[f] IN
       q.at \in {"create", "dismiss"} /\ fetch'[f].at = "ask"
       => /\ q.who \notin Partition(q.server)'.pending
          /\ \A v \in Server \ {q.server} : Partition(v)' = Partition(v)]_vars
=============================================================================
