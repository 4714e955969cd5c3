------------------------------ MODULE MemberDesk ------------------------------
(***************************************************************************)
(* The members page (packages/web, app/(protected)/members/page.tsx): the    *)
(* list, the profile of one member with its form and its questions, bulk      *)
(* actions, role sync.                                                      *)
(*                                                                         *)
(* A handler works with the profile it was called on, `who`, and gives that  *)
(* profile back to the page when its call is answered, whichever profile is  *)
(* open by then.  A member has the data that forms edit and is disabled or    *)
(* not; comments are counted as neither.                                    *)
(***************************************************************************)
EXTENDS Naturals

CONSTANTS
  User,      \* members, those a role sync may bring included
  Call,      \* calls in flight; a bound
  None,
  MaxMoves   \* bound on calls, questions and bulk dialogs that clicks start, on failures and what others do

VARIABLES
  row,       \* row[u]: the member in the database, None if not there
  users,     \* users[u]: the member as the page lists it, None if it does not
  error,     \* a failed load: the page shows nothing else
  selected,  \* selectedUser, a copy with its id
  form,      \* editing: the member the form was filled from; None when not editing
  deleting,  \* confirmingDelete: the member Delete was pressed for
  disabling, \* confirmingDisable, likewise
  ticked,    \* selectedIds, of the bulk dialog
  bulkAction, \* what the dialog is about, None without it
  call,      \* calls in flight
  moves

profile == <<selected, form, deleting, disabling>>
bulk == <<ticked, bulkAction>>
vars == <<row, users, error, profile, bulk, call, moves>>

-----------------------------------------------------------------------------
Member == [data : {0, 1}, off : BOOLEAN]
Idle == [op |-> "idle", at |-> "asked", who |-> None, ids |-> {}, data |-> 0, answer |-> None]

Here == {u \in User : row[u] # None}
Listed == {u \in User : users[u] # None}
With(u, m) == [id |-> u, data |-> m.data, off |-> m.off]
Plain(p) == [data |-> p.data, off |-> p.off]

Init ==
  /\ row \in [User -> {None, [data |-> 0, off |-> FALSE]}]
  /\ users = [u \in User |-> None] /\ error = FALSE
  /\ selected = None /\ form = None /\ deleting = None /\ disabling = None
  /\ ticked = {} /\ bulkAction = None
  /\ LET first == CHOOSE c \in Call : TRUE IN
       call = [c \in Call |-> IF c = first THEN [Idle EXCEPT !.op = "load"] ELSE Idle]
  /\ moves = 0

Move == moves < MaxMoves /\ moves' = moves + 1
Calm == UNCHANGED moves

\* A call, made by a handler that sees the profile of that moment.
Ask(c, op, ids, d) ==
  /\ call[c] = Idle
  /\ call' = [call EXCEPT ![c] = [Idle EXCEPT !.op = op, !.who = selected, !.ids = ids, !.data = d]]

\* The profile and the bulk dialog cover the page.
Uncovered == ~error /\ selected = None /\ bulkAction = None
Open == ~error /\ selected # None
Asking == form # None \/ deleting # None \/ disabling # None

-----------------------------------------------------------------------------
(* Clicks.                                                                 *)

\* The layout renews the token: the list is loaded once more.
Renew(c) ==
  /\ Ask(c, "load", {}, 0)
  /\ Move /\ UNCHANGED <<row, users, error, profile, bulk>>

\* The 20 second refresh, which a form and a deletion's question pause, and nothing else.
RefreshUsers(c) ==
  /\ form = None /\ deleting = None
  /\ ~\E o \in Call : call[o].op = "refresh"
  /\ Ask(c, "refresh", {}, 0)
  /\ Calm /\ UNCHANGED <<row, users, error, profile, bulk>>

OpenDetail(u) ==
  /\ Uncovered /\ u \in Listed
  /\ selected' = With(u, users[u]) /\ form' = None /\ deleting' = None /\ disabling' = None
  /\ Calm /\ UNCHANGED <<row, users, error, bulk, call>>

Closed == selected' = None /\ form' = None /\ deleting' = None /\ disabling' = None

CloseDetail ==
  /\ Open /\ Closed
  /\ Calm /\ UNCHANGED <<row, users, error, bulk, call>>

\* Edit, Delete and Disable Account of the profile.
Question ==
  /\ Open /\ ~Asking
  /\ \/ form' = selected.id /\ UNCHANGED <<deleting, disabling>>
     \/ deleting' = selected.id /\ UNCHANGED <<form, disabling>>
     \/ ~selected.off /\ disabling' = selected.id /\ UNCHANGED <<form, deleting>>
  /\ Move /\ UNCHANGED <<row, users, error, selected, bulk, call>>

\* Cancel, of the one that is shown.
CancelQuestion ==
  /\ Open /\ Asking
  /\ form' = None
  /\ deleting' = IF form # None THEN deleting ELSE None
  /\ disabling' = IF form # None \/ deleting # None THEN disabling ELSE None
  /\ Calm /\ UNCHANGED <<row, users, error, selected, bulk, call>>

Click(c, op, d) ==
  /\ Open /\ Ask(c, op, {selected.id}, d)
  /\ Move /\ UNCHANGED <<row, users, error, profile, bulk>>

SaveEdit(c, d) == form # None /\ Click(c, "save", d)
HandleDelete(c) == deleting # None /\ form = None /\ Click(c, "delete", 0)
HandleDisable(c) == disabling # None /\ form = None /\ deleting = None /\ Click(c, "disable", 0)
HandleEnable(c) == Open /\ selected.off /\ Click(c, "enable", 0)
\* A comment is added, or one is deleted.
HandleComment(c) == Click(c, "comment", 0)

HandleSyncRoles(c) ==
  /\ Uncovered /\ ~\E o \in Call : call[o].op \in {"sync", "synced"}
  /\ Ask(c, "sync", {}, 0)
  /\ Move /\ UNCHANGED <<row, users, error, profile, bulk>>

\* "Select", the ticks and the choice of an action, in one step.  The dialog stays through
\* refreshes, and so do the ticks of members who are gone by then.
SetBulkAction ==
  /\ Uncovered
  /\ ticked' \in SUBSET Listed \ {{}} /\ bulkAction' \in {"delete", "update", "disable", "enable"}
  /\ Move /\ UNCHANGED <<row, users, error, profile, call>>

\* The dialog is left, and the selection with it.
ToggleBulkMode ==
  /\ ~error /\ bulkAction # None
  /\ ticked' = {} /\ bulkAction' = None
  /\ Calm /\ UNCHANGED <<row, users, error, profile, call>>

BulkOps == {"bulkDelete", "bulkUpdate", "bulkDisable", "bulkEnable"}
BulkOp(a) == CASE a = "delete" -> "bulkDelete" [] a = "update" -> "bulkUpdate"
               [] a = "disable" -> "bulkDisable" [] a = "enable" -> "bulkEnable"

ExecuteBulkAction(c, d) ==
  /\ ~error /\ bulkAction # None /\ ticked # {}
  /\ ~\E o \in Call : call[o].op \in BulkOps \cup {"bulkDone"}
  /\ Ask(c, BulkOp(bulkAction), ticked, d)
  /\ Move /\ UNCHANGED <<row, users, error, profile, bulk>>

-----------------------------------------------------------------------------
(* The api carries a call out.                                             *)

\* A member's row after the call; what is not there stays so.
After(op, d, m) ==
  CASE m = None -> None
    [] op \in {"delete", "bulkDelete"} -> None
    [] op \in {"save", "bulkUpdate"} -> [m EXCEPT !.data = d]
    [] op \in {"disable", "bulkDisable"} -> [m EXCEPT !.off = TRUE]
    [] op \in {"enable", "bulkEnable"} -> [m EXCEPT !.off = FALSE]
    [] OTHER -> m

\* One member's call answers 404 when it is gone.
Served(c) ==
  LET q == call[c] IN
  IF q.op \in {"save", "delete", "disable", "enable", "comment"} /\ ~(q.ids \subseteq Here)
    THEN call' = [call EXCEPT ![c].at = "failed"] /\ UNCHANGED row
    ELSE /\ row' = [u \in User |-> IF u \in q.ids THEN After(q.op, q.data, row[u]) ELSE row[u]]
         /\ call' = [call EXCEPT ![c].at = "done", ![c].answer = row']

\* A role sync creates members that are on Discord only.
RolesSynced(c) ==
  /\ call[c].op = "sync"
  /\ \E S \in SUBSET (User \ Here) :
       row' = [u \in User |-> IF u \in S THEN [data |-> 0, off |-> FALSE] ELSE row[u]]
  /\ call' = [call EXCEPT ![c].at = "done"]

Serve(c) ==
  /\ call[c] # Idle /\ call[c].at = "asked"
  /\ IF call[c].op = "sync" THEN RolesSynced(c) ELSE Served(c)
  /\ Calm /\ UNCHANGED <<users, error, profile, bulk>>

\* Or it does not: the request fails before it changes anything.
Refuse(c) ==
  /\ call[c] # Idle /\ call[c].at = "asked"
  /\ call' = [call EXCEPT ![c].at = "failed"]
  /\ Move /\ UNCHANGED <<row, users, error, profile, bulk>>

-----------------------------------------------------------------------------
(* The page takes the answer.                                              *)

End(c) == call' = [call EXCEPT ![c] = Idle]
Then(c, op) == call' = [call EXCEPT ![c].op = op, ![c].at = "asked", ![c].ids = {}, ![c].answer = None]

TheId(c) == CHOOSE u \in call[c].ids : TRUE

\* refreshUsers: the list, and the profile its handler saw, if it is still listed.
Refreshed(c) ==
  LET q == call[c] IN
  /\ users' = q.answer
  /\ selected' = IF q.who # None /\ q.answer[q.who.id] # None
                   THEN With(q.who.id, q.answer[q.who.id]) ELSE selected

\* A handler's profile goes into the list, if it is still there, and into the page.
Replaced(u, m) ==
  /\ users' = [users EXCEPT ![u] = IF @ = None THEN None ELSE m]
  /\ selected' = With(u, m)

ListCame(c) ==
  /\ End(c)
  /\ \/ call[c].op \in {"load", "synced"} /\ users' = call[c].answer /\ UNCHANGED selected
     \/ call[c].op = "refresh" /\ Refreshed(c)
  /\ UNCHANGED <<form, deleting, disabling, bulk>>

\* The api's answer to a save is the row; disabling, enabling and comments are put into the
\* profile as the handler saw it.
OneDone(c) ==
  LET q == call[c] IN
  /\ End(c)
  /\ \/ q.op = "save" /\ Replaced(TheId(c), q.answer[TheId(c)]) /\ form' = None
        /\ UNCHANGED <<deleting, disabling>>
     \/ /\ q.op \in {"disable", "enable"}
        /\ Replaced(TheId(c), [Plain(q.who) EXCEPT !.off = (q.op = "disable")])
        /\ disabling' = IF q.op = "disable" THEN None ELSE disabling
        /\ UNCHANGED <<form, deleting>>
     \/ q.op = "comment" /\ Replaced(TheId(c), Plain(q.who)) /\ UNCHANGED <<form, deleting, disabling>>
     \/ q.op = "delete" /\ users' = [users EXCEPT ![TheId(c)] = None] /\ Closed
  /\ UNCHANGED bulk

ClearBulk == ticked' = {} /\ bulkAction' = None

BulkDone(c) ==
  LET q == call[c] IN
  /\ \/ /\ q.op = "bulkDelete" /\ End(c) /\ ClearBulk
        /\ users' = [u \in User |-> IF u \in q.ids THEN None ELSE users[u]]
        /\ UNCHANGED selected
     \/ /\ q.op \in BulkOps \ {"bulkDelete"} /\ Then(c, "bulkDone")
        /\ UNCHANGED <<users, selected, bulk>>
     \/ q.op = "bulkDone" /\ End(c) /\ ClearBulk /\ Refreshed(c)
  /\ UNCHANGED <<form, deleting, disabling>>

SyncDone(c) ==
  /\ call[c].op = "sync" /\ Then(c, "synced") /\ UNCHANGED <<users, profile, bulk>>

Answer(c) ==
  /\ call[c].at = "done"
  /\ ListCame(c) \/ OneDone(c) \/ BulkDone(c) \/ SyncDone(c)
  /\ Calm /\ UNCHANGED <<row, error>>

\* A failure: a load's replaces the page by its message, which nothing takes away again; a bulk
\* action is over also without its list; the others change nothing.
Failed(c) ==
  /\ call[c].at = "failed" /\ End(c)
  /\ error' = (error \/ call[c].op = "load")
  /\ IF call[c].op = "bulkDone" THEN ClearBulk ELSE UNCHANGED bulk
  /\ Calm /\ UNCHANGED <<row, users, profile>>

\* Members who sign in or edit their own data, and what other staff do to them.
Others ==
  /\ \E u \in User, m \in Member \cup {None} : m # row[u] /\ row' = [row EXCEPT ![u] = m]
  /\ Move /\ UNCHANGED <<users, error, profile, bulk, call>>

Next ==
  \/ \E c \in Call :
       \/ Renew(c) \/ RefreshUsers(c) \/ HandleDelete(c) \/ HandleDisable(c) \/ HandleEnable(c)
       \/ HandleComment(c) \/ HandleSyncRoles(c) \/ Serve(c) \/ Refuse(c) \/ Answer(c) \/ Failed(c)
       \/ \E d \in {0, 1} : SaveEdit(c, d) \/ ExecuteBulkAction(c, d)
  \/ \E u \in User : OpenDetail(u)
  \/ CloseDetail \/ Question \/ CancelQuestion \/ SetBulkAction \/ ToggleBulkMode \/ Others

\* Calls are answered, the interval goes on.  Nobody has to click.
Fairness == \A c \in Call :
  WF_vars(Serve(c)) /\ WF_vars(Answer(c)) /\ WF_vars(Failed(c)) /\ WF_vars(RefreshUsers(c))

Spec == Init /\ [][Next]_vars /\ Fairness

-----------------------------------------------------------------------------
(* What must hold.                                                         *)

\* Once everybody leaves things alone, the list and the open profile are those of the database,
\* whatever came late, unless a form or a question pauses the refresh or a load has failed.
UsersSettle ==
  <>[](\/ error \/ form # None \/ deleting # None
       \/ /\ users = row
          /\ selected # None /\ selected.id \in Here => Plain(selected) = row[selected.id])

\* "forms pause refresh while dirty/saving": while a form is open, no refresh puts another
\* member into the profile.  The code breaks it: a refresh that was asked for before the form
\* was opened gives back the profile that was open then, and Save writes the form to it.
FormKeepsMember == [][form # None /\ form' = form => selected'.id = selected.id]_vars
=============================================================================
