------------------------------- MODULE MCPages -------------------------------
(***************************************************************************)
(* Pages of the web application and the routes behind them, checked side by *)
(* side: the whitelist page's Requests tab (WhitelistRequests) and its       *)
(* Entries tab (EntriesTab), the members page (MemberDesk), the SquadJS      *)
(* configuration page (PluginEditor), the roles page (RoleDesk) and the pages *)
(* that list what others write (ListPages).  They share no state here:        *)
(* `part` says which of them a behaviour is about, and the others stay as they *)
(* began, with what they might choose at the start pinned down.              *)
(***************************************************************************)
EXTENDS Naturals

CONSTANTS
  None, Server, First, Fallback,
  Person, Fetch, Count, MaxMoves,                                        \* WhitelistRequests
  Id, AskId, MaxClicks,                                                  \* EntriesTab
  User, MaxSteps,                                                        \* MemberDesk, with AskId
  Env, FirstEnv, Plugin, MaxEdits,                                       \* PluginEditor, with AskId
  Role, Perm, Gone, MaxToggles,                                          \* RoleDesk, with AskId
  Line, Slim, PageSize, New, MaxTurns                                    \* ListPages, with AskId

VARIABLES
  part,
  eligible, entry, dismissed, onServer, list, fetch, badge, count, other, moves, \* WhitelistRequests
  row, activeServer, entries, error, selected, form, confirm, ticked, bulkMode,  \* EntriesTab
  dialog, importing, asked, clicks,
  member, users, broken, profile, editing, deleting, disabling, chosen, \* MemberDesk
  bulkAction, request, steps,
  file, activeEnv, plugins, original, saving, showDiff, failed, from, sent, edits, \* PluginEditor
  role, roles, twice, refused, pending, savingId, toggling, deletingId, adding,  \* RoleDesk
  expanded, query, meant, mixed, toggles,
  page, line, view, shown, loading, latest, open, kept, detail, opened, reply,   \* ListPages
  suspect, wanted, blurred, turns

Requests == INSTANCE WhitelistRequests WITH Member <- Person, activeServer <- onServer
Tab == INSTANCE EntriesTab WITH Call <- AskId, call <- asked, moves <- clicks,
                                MaxMoves <- MaxClicks
Desk == INSTANCE MemberDesk WITH Call <- AskId, MaxMoves <- MaxSteps, row <- member,
  error <- broken, selected <- profile, form <- editing, ticked <- chosen,
  call <- request, moves <- steps
Editor == INSTANCE PluginEditor WITH First <- FirstEnv, Call <- AskId, MaxMoves <- MaxEdits,
  error <- failed, call <- sent, moves <- edits
RoleList == INSTANCE RoleDesk WITH Groups <- {Perm}, Call <- AskId, MaxMoves <- MaxToggles,
  row <- role, error <- refused, call <- query, moves <- toggles
Lists == INSTANCE ListPages WITH Id <- Line, Narrow <- Slim, Call <- AskId, MaxMoves <- MaxTurns,
  row <- line, editing <- opened, call <- reply, meant <- wanted, moves <- turns

\* The whitelist page opens with a configured server; a page may ask for something; a role that is not there yet, or no
\* more, is told from every row and from the other.
ASSUME PagesAssumption ==
  /\ First \in Server /\ Fallback \in Server /\ AskId # {}
  /\ None \notin RoleList!Rows /\ None # Gone

requestVars == <<eligible, entry, dismissed, onServer, list, fetch, badge, count, other, moves>>
tabVars == <<row, activeServer, entries, error, selected, form, confirm, ticked, bulkMode,
             dialog, importing, asked, clicks>>
deskVars == <<member, users, broken, profile, editing, deleting, disabling, chosen,
              bulkAction, request, steps>>
editorVars == <<file, activeEnv, plugins, original, saving, showDiff, failed, from, sent, edits>>
roleVars == <<role, roles, twice, refused, pending, savingId, toggling, deletingId, adding,
              expanded, query, meant, mixed, toggles>>
listVars == <<page, line, view, shown, loading, latest, open, kept, detail, opened, reply,
              suspect, wanted, blurred, turns>>
pagesVars == <<part, requestVars, tabVars, deskVars, editorVars, roleVars, listVars>>

PagesInit ==
  /\ part \in {"requests", "tab", "desk", "editor", "roles", "lists"}
  /\ Requests!Init /\ Tab!Init /\ Desk!Init /\ Editor!Init /\ RoleList!Init
  /\ part # "requests" => /\ eligible = {} /\ onServer = First
                          /\ entry = [m \in Person |-> [v \in Server |-> "none"]]
  /\ activeServer = First /\ asked[CHOOSE a \in AskId : TRUE].op = "load"
  /\ part # "tab" => row = [e \in Id |-> None]
  /\ part # "desk" => member = [u \in User |-> None]
  /\ part # "editor" => \A e \in Env : file[e] = [plugins |-> [p \in Plugin |-> 0], rest |-> 0]
  \* One role is registered, without permissions; another may be.
  /\ role = [r \in Role |-> IF r = CHOOSE d \in Role : TRUE THEN [perms |-> {}, flag |-> FALSE] ELSE None]
  /\ query[CHOOSE a \in AskId : TRUE].op = "init"
  \* Every row is there at first.
  /\ line = [i \in Line |-> 0] /\ IF part = "lists" THEN TRUE ELSE page = Lists!OverviewTab
  /\ Lists!Init

PagesNext ==
  \/ part = "requests" /\ Requests!Next /\ UNCHANGED <<part, tabVars, deskVars, editorVars, roleVars, listVars>>
  \/ part = "tab" /\ Tab!Next /\ UNCHANGED <<part, requestVars, deskVars, editorVars, roleVars, listVars>>
  \/ part = "desk" /\ Desk!Next /\ UNCHANGED <<part, requestVars, tabVars, editorVars, roleVars, listVars>>
  \/ part = "editor" /\ Editor!Next /\ UNCHANGED <<part, requestVars, tabVars, deskVars, roleVars, listVars>>
  \/ part = "roles" /\ RoleList!Next /\ UNCHANGED <<part, requestVars, tabVars, deskVars, editorVars, listVars>>
  \/ part = "lists" /\ Lists!Next /\ UNCHANGED <<part, requestVars, tabVars, deskVars, editorVars, roleVars>>

\* The fairness of every part, for the part that moves.
RequestsFairness ==
  /\ \A f \in Fetch : /\ WF_requestVars(part = "requests" /\ Requests!Progress(f))
                      /\ WF_requestVars(part = "requests" /\ Requests!Refresh(f))
  /\ \A k \in Count : /\ WF_requestVars(part = "requests" /\ Requests!Counted(k))
                      /\ WF_requestVars(part = "requests" /\ Requests!ShowBadge(k))
  /\ WF_requestVars(part = "requests" /\ Requests!Poll)
  /\ WF_requestVars(part = "requests" /\ Requests!OtherUpdates)

TabFairness ==
  \A a \in AskId : /\ WF_tabVars(part = "tab" /\ Tab!Serve(a))
                   /\ WF_tabVars(part = "tab" /\ Tab!Answer(a))
                   /\ WF_tabVars(part = "tab" /\ Tab!Failed(a))
                   /\ WF_tabVars(part = "tab" /\ Tab!Refresh(a))

DeskFairness ==
  \A a \in AskId : /\ WF_deskVars(part = "desk" /\ Desk!Serve(a))
                   /\ WF_deskVars(part = "desk" /\ Desk!Answer(a))
                   /\ WF_deskVars(part = "desk" /\ Desk!Failed(a))
                   /\ WF_deskVars(part = "desk" /\ Desk!RefreshUsers(a))

EditorFairness ==
  \A a \in AskId : /\ WF_editorVars(part = "editor" /\ Editor!Serve(a))
                   /\ WF_editorVars(part = "editor" /\ Editor!Answer(a))
                   /\ WF_editorVars(part = "editor" /\ Editor!Failed(a))
                   /\ WF_editorVars(part = "editor" /\ Editor!RefreshPlugins(a))

RolesFairness ==
  /\ \A a \in AskId : /\ WF_roleVars(part = "roles" /\ RoleList!Serve(a))
                      /\ WF_roleVars(part = "roles" /\ RoleList!Answer(a))
  /\ WF_roleVars(part = "roles" /\ \E a \in AskId : RoleList!Mount(a))
  /\ WF_roleVars(part = "roles" /\ \E a \in AskId : RoleList!Refresh(a))

ListsFairness ==
  /\ \A a \in AskId : /\ WF_listVars(part = "lists" /\ Lists!Serve(a))
                      /\ WF_listVars(part = "lists" /\ Lists!Answer(a))
  /\ WF_listVars(part = "lists" /\ page.refreshes # "option" /\ \E a \in AskId : Lists!Refresh(a))

PagesSpec ==
  /\ PagesInit /\ [][PagesNext]_pagesVars
  /\ RequestsFairness /\ TabFairness /\ DeskFairness /\ EditorFairness /\ RolesFairness /\ ListsFairness

-----------------------------------------------------------------------------
(* What the run checks, each for the part it speaks of.                    *)

\* The list of requests and the badge end up as the database has them, for the server that is
\* open, whichever answers overtook each other (WhitelistRequests).
RequestsSettle ==
  /\ <>[](part = "requests" => list = Requests!Partition(onServer))
  /\ <>[](part = "requests" => badge = Requests!TotalPending)

\* A dismissal on one server leaves the requests of the others alone (WhitelistRequests).
ActsPerServer == Requests!ActsPerServer

\* The edit form that is open is about the entry it was opened for (EntriesTab); the members
\* shown under a role are its own, its permissions those of the last request about it but for
\* requests that overlapped, and a disabled button waits for an answer (RoleDesk); the rows of
\* a list are of the filter and the page that are chosen, and its detail of the row that was
\* opened last, but for requests that overlapped or failed (ListPages).
PagesMatch ==
  /\ Tab!ModalIsOfEntry
  /\ part = "roles" => RoleList!RowsAreMeant /\ RoleList!MembersAreOfRole /\ RoleList!DisabledIsWaiting
  /\ part = "lists" => Lists!ListIsOfView /\ Lists!DetailIsOfRow

\* What a page shows ends up as the database, or the file, has it, whichever answers came
\* late: the entries of the server that is open (EntriesTab), the members and the open profile
\* (MemberDesk), the plugins of the environment that is open (PluginEditor), the roles, while
\* their page refreshes (RoleDesk), and the rows of every list that refreshes (ListPages).
ShownIsTrue ==
  /\ Tab!ListSettles /\ Desk!UsersSettle /\ Editor!ConfigSettles
  /\ <>[](part = "roles" => RoleList!RolesPageIsTrue) /\ <>[](part = "lists" => Lists!ListIsTrue)
=============================================================================
