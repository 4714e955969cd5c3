------------------------------- MODULE ListPages ------------------------------
(***************************************************************************)
(* The pages that list rows which others keep writing: tickets, audit log,  *)
(* messages and logs of the bot, matches, Discord users, timeouts,           *)
(* applications, cooldowns, mentors, seeding, API tokens, the lobby service, *)
(* past giveaways; and the routes that answer them.                        *)
(*                                                                         *)
(* They were written one after another in one pattern: the view (filter and  *)
(* page) is asked for when it changes, most pages ask for it again every 20   *)
(* seconds, and a page answers for its own rows by what its own requests     *)
(* return.  They differ in what goes wrong: one ignores overtaken answers,    *)
(* others show whatever comes last; some put the page back when the list has  *)
(* become shorter; some never ask again.  A page is here a record of what it  *)
(* does (`page`, one for a behaviour) and of what it offers (`acts`).         *)
(***************************************************************************)
EXTENDS Naturals, FiniteSets

CONSTANTS
  Id,        \* rows, numbered from the oldest; a bound
  Narrow,    \* the rows that the narrower of two filters finds
  PageSize,  \* rows of a page; a bound
  Call, None, New,
  MaxMoves   \* bound on the user's moves, on failures and on what others write

VARIABLES
  page,
  row,       \* row[i]: None or the version of the row
  view,      \* the filter and the page the user has chosen
  shown,     \* the rows and the total on the screen, and the view they were asked for
  loading,   \* of pages whose pager waits for it
  latest,    \* reqSeq: the last request of a page that numbers them
  open,      \* the row whose detail is open
  kept,      \* kept[i]: the details a page keeps for good
  detail,    \* the row whose detail was fetched last
  editing,   \* the rows with an open form, and New
  call,
  suspect,   \* history: the rows were asked for while another request was under way, or it failed
  meant,     \* history: the row that the user opened last
  blurred,   \* history: he did while a request was under way, or an answer came for another row
  moves

screen == <<view, shown, loading, latest, open, kept, detail, editing>>
history == <<suspect, meant, blurred>>
vars == <<page, row, screen, call, history, moves>>

-----------------------------------------------------------------------------
(* The pages.                                                              *)

Plain == [paged |-> FALSE, guarded |-> FALSE, refreshes |-> "always", clamps |-> FALSE,
          waits |-> FALSE, detail |-> "none", acts |-> {}]

\* Every page asks again after 20 seconds, unless it says otherwise.
Tickets == [Plain EXCEPT !.paged = TRUE, !.guarded = TRUE, !.clamps = TRUE, !.detail = "kept"]
AuditLogs == [Plain EXCEPT !.paged = TRUE]
Messages == [Plain EXCEPT !.paged = TRUE, !.clamps = TRUE, !.waits = TRUE]
Logs == [Plain EXCEPT !.paged = TRUE, !.waits = TRUE, !.refreshes = "option"]
MatchManager == [Plain EXCEPT !.paged = TRUE, !.refreshes = "no form"]
PublicMatches == [Plain EXCEPT !.paged = TRUE, !.refreshes = "never"]
TicketsTab == [Plain EXCEPT !.detail = "kept"]
ApplicationsList == [Plain EXCEPT !.detail = "kept"]
DiscordUsers == [Plain EXCEPT !.detail = "row"]
OverviewTab == Plain
LobbyMonitor == Plain
TimeoutsTab == [Plain EXCEPT !.refreshes = "no form"]
CooldownList == [Plain EXCEPT !.refreshes = "no form"]
MentorView == [Plain EXCEPT !.refreshes = "no act"]
SeedingLeaderboard == [Plain EXCEPT !.refreshes = "never", !.detail = "fetched"]
ApiTokens == [Plain EXCEPT !.refreshes = "never"]
GiveawayPage == [Plain EXCEPT !.refreshes = "wide"]

\* What their buttons do: "remove" takes the row off the screen, "delete" off the total too;
\* "act" changes something and asks for the list again; "keep" leaves the page as it is when
\* the filter changes, "apply" asks for the first page whatever is shown.
TicketsOffers == {"filter", "turn"}
AuditLogsOffers == {"filter", "turn", "delete"}
MessagesOffers == {"filter", "turn"}
LogsOffers == {"filter", "keep", "apply", "turn"}
MatchManagerOffers == {"turn", "edit", "update", "remove", "act"}
PublicMatchesOffers == {"turn"}
DiscordUsersOffers == {"act"}
LobbyMonitorOffers == {"act"}
TimeoutsTabOffers == {"form", "remove"}
CooldownListOffers == {"form", "revise", "act"}
MentorViewOffers == {"act"}
SeedingLeaderboardOffers == {"filter"}
ApiTokensOffers == {"create", "update"}
GiveawayPageOffers == {"filter", "act"}

Offering(p, A) == [p EXCEPT !.acts = A]
Pages ==
  {Offering(Tickets, TicketsOffers), Offering(AuditLogs, AuditLogsOffers),
   Offering(Messages, MessagesOffers), Offering(Logs, LogsOffers),
   Offering(MatchManager, MatchManagerOffers), Offering(PublicMatches, PublicMatchesOffers),
   TicketsTab, ApplicationsList, Offering(DiscordUsers, DiscordUsersOffers), OverviewTab,
   Offering(LobbyMonitor, LobbyMonitorOffers), Offering(TimeoutsTab, TimeoutsTabOffers),
   Offering(CooldownList, CooldownListOffers), Offering(MentorView, MentorViewOffers),
   Offering(SeedingLeaderboard, SeedingLeaderboardOffers), Offering(ApiTokens, ApiTokensOffers),
   Offering(GiveawayPage, GiveawayPageOffers)}

-----------------------------------------------------------------------------
Versions == {0, 1}
FirstView == [narrow |-> FALSE, page |-> 1]
Nothing == [i \in Id |-> None]
Blank == [rows |-> Nothing, total |-> 0, of |-> None]
Idle == [op |-> "idle", at |-> "asked", q |-> FirstView, silent |-> FALSE, alone |-> FALSE, after |-> FALSE,
         sel |-> None, id |-> None, rows |-> Nothing, total |-> 0]

Init ==
  /\ page \in Pages
  /\ row \in [Id -> {None, 0}]
  /\ view = FirstView /\ shown = Blank /\ loading = page.waits
  /\ open = None /\ kept = Nothing /\ detail = None /\ editing = {}
  /\ LET c == CHOOSE d \in Call : TRUE IN
       /\ call = [o \in Call |-> IF o = c THEN [Idle EXCEPT !.op = "list", !.alone = TRUE] ELSE Idle]
       /\ latest = IF page.guarded THEN c ELSE None
  /\ suspect = FALSE /\ meant = None /\ blurred = FALSE
  /\ moves = 0

Move == moves < MaxMoves /\ moves' = moves + 1
Calm == UNCHANGED moves

\* totalPages.
LastPage(total) == IF total = 0 THEN 1 ELSE (total + PageSize - 1) \div PageSize
Listed == {i \in Id : shown.rows[i] # None}
Lists(q) == q.op \in {"list", "act"}

-----------------------------------------------------------------------------
(* Requests of the page.                                                   *)

\* Of the requests cs, c is the only one that brings rows; or it is numbered, and no other counts.
Alone(cs, c) == page.guarded \/ ~\E o \in Call \ {c} : Lists(cs[o])

Request(cs, c, q) ==
  LET lone == Lists(q) /\ Alone(cs, c) IN
  /\ call' = [o \in Call |-> IF o = c THEN [q EXCEPT !.alone = lone]
                             ELSE [cs[o] EXCEPT !.alone = @ /\ (page.guarded \/ ~Lists(q))]]
  /\ latest' = IF page.guarded /\ q.op = "list" THEN c ELSE latest

\* The effect on the view asks for it.
AskFor(c, v) ==
  /\ call[c] = Idle
  /\ Request(call, c, [Idle EXCEPT !.op = "list", !.q = v, !.sel = open])
  /\ suspect' = (suspect \/ ~Alone(call, c))
  /\ loading' = page.waits

\* Tickets asks twice, for the old page and for the first; its numbers make the first void.
ChangeFilter(c) ==
  /\ "filter" \in page.acts /\ (page.detail = "fetched" => open = None) /\ Move
  /\ \E n \in {1} \cup (IF "keep" \in page.acts THEN {view.page} ELSE {}) :
       view' = [narrow |-> ~view.narrow, page |-> n]
  /\ AskFor(c, view')
  /\ UNCHANGED <<page, row, shown, open, kept, detail, editing, meant, blurred>>

\* applyFilters of the logs: on another page than the first the effect asks as well.
ApplyFilters(c, d) ==
  /\ "apply" \in page.acts /\ Move
  /\ call[c] = Idle /\ call[d] = Idle /\ (c = d <=> view.page = 1)
  /\ view' = [view EXCEPT !.page = 1]
  /\ LET lone == c = d /\ Alone(call, c) IN
       /\ call' = [o \in Call |-> IF o \in {c, d} THEN [Idle EXCEPT !.op = "list", !.q = view', !.alone = lone]
                                  ELSE [call[o] EXCEPT !.alone = FALSE]]
       /\ suspect' = (suspect \/ ~lone)
  /\ loading' = TRUE
  /\ UNCHANGED <<page, row, shown, latest, open, kept, detail, editing, meant, blurred>>

\* The pager; it offers what the last total allows.
Turn(c) ==
  /\ "turn" \in page.acts /\ ~loading /\ Move
  /\ \/ view.page > 1 /\ view' = [view EXCEPT !.page = @ - 1]
     \/ view.page < LastPage(shown.total) /\ view' = [view EXCEPT !.page = @ + 1]
  /\ AskFor(c, view')
  /\ UNCHANGED <<page, row, shown, open, kept, detail, editing, meant, blurred>>

\* useAutoRefresh, or the log's own interval, which is not silent.
Refreshing ==
  CASE page.refreshes = "never" -> FALSE
    [] page.refreshes = "no form" -> editing = {}
    [] page.refreshes = "no act" -> ~\E c \in Call : call[c].op = "act" \/ call[c].after
    [] page.refreshes = "wide" -> ~view.narrow
    [] OTHER -> TRUE
Refresh(c) ==
  /\ Refreshing /\ call[c] = Idle /\ ~\E o \in Call : Lists(call[o]) /\ call[o].silent
  /\ Request(call, c, [Idle EXCEPT !.op = "list", !.q = view, !.sel = open, !.silent = TRUE])
  /\ suspect' = (suspect \/ ~Alone(call, c))
  /\ loading' = (loading \/ page.refreshes = "option")
  /\ Calm /\ UNCHANGED <<page, row, view, shown, open, kept, detail, editing, meant, blurred>>

\* The layout renews the token: the effect asks again.
Renew(c) ==
  /\ Move /\ AskFor(c, view)
  /\ UNCHANGED <<page, row, view, shown, open, kept, detail, editing, meant, blurred>>

\* A change and then the list once more, with what the page was when the button was clicked:
\* resync, reconnect, pause, extend, adjust, add a comment, remove a cooldown.  Some of the
\* buttons wait for the answer; here none does.
Act(c) ==
  /\ "act" \in page.acts /\ call[c] = Idle /\ Move
  /\ page.detail = "row" => open # None
  /\ Request(call, c, [Idle EXCEPT !.op = "act", !.q = view, !.sel = open])
  /\ suspect' = (suspect \/ ~Alone(call, c))
  /\ UNCHANGED <<page, row, view, shown, loading, open, kept, detail, editing, meant, blurred>>

\* Opening and closing the form of a row, and that of a new one.
Edit ==
  /\ \/ \E i \in Listed : {"edit", "revise"} \cap page.acts # {} /\ i \notin editing
                          /\ editing' = (editing \ Id) \cup {i} /\ Move
     \/ "form" \in page.acts /\ New \notin editing /\ editing' = editing \cup {New} /\ Move
     \/ \E e \in editing : (e = New \/ e \in Listed) /\ editing' = editing \ {e} /\ Calm
  /\ UNCHANGED <<page, row, view, shown, loading, latest, open, kept, detail, call, history>>

\* Its Save: matches take the answer's row, timeouts and cooldowns ask for the list again.
Save(c) ==
  /\ call[c] = Idle /\ Calm
  /\ \E e \in editing :
       /\ e = New \/ e \in Listed
       /\ Request(call, c, [Idle EXCEPT !.op = IF "edit" \in page.acts THEN "update" ELSE "act",
                                        !.id = e, !.q = view, !.sel = open])
  /\ suspect' = (suspect \/ (Lists(call'[c]) /\ ~Alone(call, c)))
  /\ UNCHANGED <<page, row, view, shown, loading, open, kept, detail, editing, meant, blurred>>

\* Buttons of a row, and Create: requests whose answer changes what is on the screen.
Change(c) ==
  /\ call[c] = Idle /\ Move
  /\ \/ \E o \in {"update", "remove", "delete"} \cap page.acts, i \in Listed :
          Request(call, c, [Idle EXCEPT !.op = o, !.id = i, !.silent = TRUE])
     \/ "create" \in page.acts /\ Request(call, c, [Idle EXCEPT !.op = "create"])
  /\ UNCHANGED <<page, row, view, shown, loading, open, kept, detail, editing, history>>

\* What may yet open another row than i, or show its detail.
Underway(i) == \E o \in Call : call[o].op = "detail" \/ call[o].sel \notin {None, i}

\* handleExpand, selectPlayer, openDetail: a row is opened; what is kept is not asked for again.
Select(c, i) ==
  /\ page.detail # "none" /\ i \in Listed /\ i # open /\ Move
  /\ page.detail \in {"fetched", "row"} => open = None
  /\ open' = i /\ meant' = i
  /\ blurred' = Underway(i)
  /\ IF page.detail = "row" \/ kept[i] # None THEN UNCHANGED <<call, latest>>
     ELSE call[c] = Idle /\ Request(call, c, [Idle EXCEPT !.op = "detail", !.id = i])
  /\ UNCHANGED <<page, row, view, shown, loading, kept, detail, editing, suspect>>

\* Back, or a second click; only the fetched detail is dropped.
Close ==
  /\ open # None /\ Calm
  /\ open' = None /\ meant' = None /\ detail' = None
  /\ blurred' = Underway(None)
  /\ UNCHANGED <<page, row, view, shown, loading, latest, kept, editing, call, suspect>>

-----------------------------------------------------------------------------
(* The api and the others who write.                                       *)

\* The rows a filter finds, and a page of them, newest first.
Found(f) == {i \in Id : row[i] # None /\ (f => i \in Narrow)}
Slice(v) == LET S == IF page.paged \/ "filter" \in page.acts THEN Found(v.narrow) ELSE Found(FALSE)
                before(i) == Cardinality({j \in S : j > i})
            IN  {i \in S : page.paged => before(i) \div PageSize = v.page - 1}
Read(v) == [i \in Id |-> IF i \in Slice(v) THEN row[i] ELSE None]
Counted(v) == Cardinality(Found(v.narrow))

\* findMany and count are two queries of one Promise.all.
List(c) ==
  LET v == call[c].q IN
  /\ call[c].op = "list"
  /\ \/ call[c].at = "asked" /\ call' = [call EXCEPT ![c].rows = Read(v), ![c].at = IF page.paged THEN "rows" ELSE "done"]
     \/ call[c].at = "asked" /\ page.paged /\ call' = [call EXCEPT ![c].total = Counted(v), ![c].at = "total"]
     \/ call[c].at = "rows" /\ call' = [call EXCEPT ![c].total = Counted(v), ![c].at = "done"]
     \/ call[c].at = "total" /\ call' = [call EXCEPT ![c].rows = Read(v), ![c].at = "done"]
  /\ UNCHANGED row

Fails(c) == call' = [call EXCEPT ![c] = [@ EXCEPT !.at = "failed", !.rows = Nothing, !.total = 0]]
Gives(c, i) == call' = [call EXCEPT ![c].at = "done", ![c].id = i, ![c].rows[i] = row'[i]]

Detail(c) ==
  /\ call[c].op = "detail" /\ call[c].at = "asked" /\ UNCHANGED row
  /\ IF row[call[c].id] = None THEN Fails(c) ELSE Gives(c, call[c].id)

Write(c) ==
  LET i == call[c].id IN
  /\ call[c].at = "asked"
  /\ \/ /\ call[c].op = "update"
        /\ IF row[i] = None THEN Fails(c) /\ UNCHANGED row
           ELSE row' = [row EXCEPT ![i] = 1 - @] /\ Gives(c, i)
     \/ /\ call[c].op \in {"remove", "delete"}
        /\ IF row[i] = None THEN Fails(c) /\ UNCHANGED row
           ELSE row' = [row EXCEPT ![i] = None] /\ call' = [call EXCEPT ![c].at = "done"]
     \/ /\ call[c].op = "create"
        /\ \E j \in Id : row[j] = None /\ row' = [row EXCEPT ![j] = 0] /\ Gives(c, j)
     \/ /\ call[c].op = "act"
        /\ \/ row' = row
           \/ \E j \in Id : row' = [row EXCEPT ![j] = IF @ = None THEN 0 ELSE 1 - @]
        /\ call' = [call EXCEPT ![c].at = "done"]

Serve(c) ==
  /\ List(c) \/ Detail(c) \/ Write(c)
  /\ Calm /\ UNCHANGED <<page, screen, history>>

Breaks(c) ==
  /\ call[c].op # "idle" /\ call[c].at # "failed" /\ Move /\ Fails(c)
  /\ UNCHANGED <<page, row, screen, history>>

\* The bot, the game, other staff.
Others ==
  /\ Move
  /\ \E i \in Id : row' = [row EXCEPT ![i] = IF @ = None THEN 0 ELSE 1 - @] \/ (row[i] # None /\ row' = [row EXCEPT ![i] = None])
  /\ UNCHANGED <<page, screen, call, history>>

-----------------------------------------------------------------------------
(* The page hears the answer.                                              *)

Came(c, o) == call[c].op = o /\ call[c].at = "done"
Freed(c) == call' = [call EXCEPT ![c] = Idle] /\ UNCHANGED latest

\* The rows are shown, whatever the view is by then, unless a later request was numbered; the
\* open row is found anew in them, the one that was open when they were asked for.
ListCame(c) ==
  LET q == call[c]
      past == page.clamps /\ view.page > LastPage(q.total)
      heard == ~page.guarded \/ latest = c
  IN
  /\ Came(c, "list") /\ heard
  /\ shown' = [rows |-> q.rows, total |-> q.total, of |-> q.q]
  /\ open' = IF page.detail = "row" /\ q.sel # None /\ q.rows[q.sel] # None THEN q.sel ELSE open
  /\ IF past
       THEN /\ view' = [view EXCEPT !.page = LastPage(q.total)]
            /\ Request(call, c, [Idle EXCEPT !.op = "list", !.q = view', !.sel = open])
            /\ suspect' = ((suspect /\ ~q.alone) \/ ~Alone(call, c))
            /\ loading' = page.waits
       ELSE /\ Freed(c) /\ UNCHANGED view
            /\ suspect' = (suspect /\ ~q.alone)
            /\ loading' = (loading /\ q.silent /\ page.refreshes # "option")
  /\ UNCHANGED <<kept, detail, editing, meant, blurred>>

Superseded(c) ==
  /\ call[c].op = "list" /\ call[c].at \in {"done", "failed"} /\ page.guarded /\ latest # c
  /\ Freed(c) /\ UNCHANGED <<view, shown, loading, open, kept, detail, editing, history>>

\* The form is closed only after the request succeeded; then the list is asked for.
Acted(c) ==
  /\ Came(c, "act")
  /\ editing' = editing \ {call[c].id}
  /\ call' = [call EXCEPT ![c] = [Idle EXCEPT !.op = "list", !.q = call[c].q, !.sel = call[c].sel,
                                              !.alone = call[c].alone, !.after = TRUE]]
  /\ latest' = IF page.guarded THEN c ELSE latest
  /\ UNCHANGED <<view, shown, loading, open, kept, detail, history>>

\* Whichever row is edited by then, the answer to a Save closes its form.
Changed(c) ==
  LET q == call[c] IN
  /\ \E o \in {"update", "create", "remove", "delete"} : Came(c, o)
  /\ shown' = [shown EXCEPT !.rows = IF q.op = "create" \/ q.id \in Listed THEN [@ EXCEPT ![q.id] = q.rows[q.id]] ELSE @,
                            !.total = IF q.op = "delete" /\ @ > 0 THEN @ - 1 ELSE @]
  /\ editing' = IF q.op = "update" /\ ~q.silent THEN editing \ Id ELSE editing
  /\ Freed(c) /\ UNCHANGED <<view, loading, open, kept, detail, history>>

DetailCame(c) ==
  LET q == call[c] IN
  /\ Came(c, "detail")
  /\ IF page.detail = "kept" THEN kept' = [kept EXCEPT ![q.id] = q.rows[q.id]] /\ UNCHANGED <<detail, blurred>>
     ELSE /\ detail' = q.id /\ UNCHANGED kept
          /\ blurred' = (q.id # open)
  /\ Freed(c) /\ UNCHANGED <<view, shown, loading, open, editing, suspect, meant>>

\* A request that failed leaves everything as it was.
Failed(c) ==
  /\ call[c].at = "failed" /\ (call[c].op = "list" => ~page.guarded \/ latest = c)
  /\ Freed(c)
  /\ suspect' = (suspect \/ Lists(call[c]))
  /\ blurred' = (blurred \/ call[c].op = "detail")
  /\ loading' = (loading /\ ~(call[c].op = "list" /\ (~call[c].silent \/ page.refreshes = "option")))
  /\ UNCHANGED <<view, shown, open, kept, detail, editing, meant>>

Answer(c) ==
  /\ ListCame(c) \/ Superseded(c) \/ Acted(c) \/ Changed(c) \/ DetailCame(c) \/ Failed(c)
  /\ Calm /\ UNCHANGED <<page, row>>

Next ==
  \/ \E c \in Call : \/ ChangeFilter(c) \/ Turn(c) \/ Refresh(c) \/ Renew(c) \/ Act(c) \/ Save(c) \/ Change(c)
                     \/ Serve(c) \/ Breaks(c) \/ Answer(c)
  \/ \E c, d \in Call : ApplyFilters(c, d)
  \/ \E c \in Call, i \in Id : Select(c, i)
  \/ Edit \/ Close \/ Others

\* The api serves, answers come, and the interval of a page that refreshes fires.
Fairness ==
  /\ \A c \in Call : WF_vars(Serve(c)) /\ WF_vars(Answer(c))
  /\ WF_vars(page.refreshes # "option" /\ \E c \in Call : Refresh(c))

Spec == Init /\ [][Next]_vars /\ Fairness

-----------------------------------------------------------------------------
TypeOK ==
  /\ page \in Pages /\ row \in [Id -> Versions \cup {None}]
  /\ view.narrow \in BOOLEAN /\ view.page \in Nat \ {0}
  /\ shown.rows \in [Id -> Versions \cup {None}] /\ shown.total \in Nat
  /\ loading \in BOOLEAN /\ latest \in Call \cup {None}
  /\ {open, detail, meant} \subseteq Id \cup {None} /\ kept \in [Id -> Versions \cup {None}]
  /\ editing \subseteq Id \cup {New}
  /\ DOMAIN call = Call /\ suspect \in BOOLEAN /\ blurred \in BOOLEAN /\ moves \in 0 .. MaxMoves

Quiet == \A c \in Call : ~Lists(call[c])

\* The rows and the total on the screen are those of the filter and the page that are chosen,
\* unless two requests for rows were under way at once, or the last one failed.  A page that
\* numbers its requests needs no such excuse.
ListIsOfView == Quiet /\ ~suspect => shown.of = view

\* The detail on the screen is of the row the user opened last, unless he opened it while
\* something was under way, or its own request failed.
DetailIsOfRow ==
  ~blurred => /\ open = meant
              /\ open # None /\ Quiet /\ (\A c \in Call : call[c].op # "detail") => detail \in {None, open}

\* Once the writers rest, a page that refreshes shows what there is of its view; one that puts
\* the page back shows a page that there is.
ListIsTrue ==
  Refreshing /\ page.refreshes # "option" =>
    /\ shown.rows = Read(view)
    /\ page.clamps => view.page <= LastPage(Counted(view))
ListSettles == <>[]ListIsTrue
=============================================================================
