------------------------------ MODULE EntriesTab ------------------------------
(***************************************************************************)
(* The Entries tab of the whitelist page (packages/web,                     *)
(* app/(protected)/whitelist/page.tsx): the list of the selected server,    *)
(* ticked rows and what is done to them in bulk, the modal of one entry     *)
(* with its form and its "Delete this entry?", adding and importing.        *)
(*                                                                         *)
(* Every click is a call that is answered later, whatever the page shows by *)
(* then: nothing is cancelled, and what a click was about is remembered by   *)
(* its call alone.  The rows are the api's; here an entry is there, on the   *)
(* server it was added to, or not.                                          *)
(***************************************************************************)
EXTENDS Naturals, FiniteSets

CONSTANTS
  Id,        \* whitelist entries, those not added yet included
  Server,    \* configured servers
  First,     \* the one the page opens with,
  Fallback,  \* and the one it opens with when the servers cannot be loaded
  Call,      \* calls in flight; a bound
  None,
  MaxMoves   \* bound on calls that clicks start, on ticks, failures and what others do

VARIABLES
  row,       \* row[e]: the server of entry e, None if it is not there
  activeServer,
  entries,   \* the rows the page shows
  error,     \* a failed load: the page shows nothing else
  selected,  \* selectedEntry, the entry of the modal
  form,      \* editing: the entry the form was started from; None when not editing
  confirm,   \* confirmingDelete: the entry Delete was pressed for, and whether the
             \* modal was given another entry since; None when not confirming
  ticked,    \* selectedIds
  bulkMode,
  dialog,    \* bulkAction
  importing, \* the server the import dialog was opened for, None when it is closed
  call,      \* calls in flight
  moves

modal == <<selected, form, confirm>>
bulk == <<ticked, bulkMode, dialog, importing>>
vars == <<row, activeServer, entries, error, modal, bulk, call, moves>>

-----------------------------------------------------------------------------
Ops == {"servers", "load", "refresh", "open", "save", "saved", "delete", "add", "import", "imported",
        "bulkDelete", "bulkUpdate", "bulkUpdated"}
Calls == [op : Ops \cup {"idle"}, at : {"asked", "done", "failed"}, ids : SUBSET Id,
          server : Server \cup {None}, data : SUBSET Id]
Idle == [op |-> "idle", at |-> "asked", ids |-> {}, server |-> None, data |-> {}]

Rows(v) == {e \in Id : row[e] = v}
Present == {e \in Id : row[e] # None}

Init ==
  /\ row \in [Id -> Server \cup {None}]
  /\ activeServer \in {First, Fallback} /\ entries = {} /\ error = FALSE
  /\ selected = None /\ form = None /\ confirm = None
  /\ ticked = {} /\ bulkMode = FALSE /\ dialog = None /\ importing = None
  /\ \E c \in Call : call = [o \in Call |-> IF o = c THEN [Idle EXCEPT !.op = "load", !.server = activeServer]
                                            ELSE Idle]
  /\ moves = 0

Move == moves < MaxMoves /\ moves' = moves + 1
Calm == UNCHANGED moves

\* A call, with the server that was selected when it was made.
Ask(c, op, ids, v) ==
  /\ call[c] = Idle
  /\ call' = [call EXCEPT ![c] = [Idle EXCEPT !.op = op, !.ids = ids, !.server = v]]

\* The modal and the dialogs cover the page.
Uncovered == ~error /\ selected = None /\ dialog = None /\ importing = None

-----------------------------------------------------------------------------
(* Clicks.                                                                 *)

\* A server tab; the effect on activeServer loads its rows.  What is ticked stays ticked.
Switch(c, v) ==
  /\ Uncovered /\ v # activeServer /\ Move
  /\ activeServer' = v /\ Ask(c, "load", {}, v)
  /\ UNCHANGED <<row, entries, error, modal, bulk>>

\* The 20 second refresh, which an error on the screen does not stop.
Refresh(c) ==
  /\ ~\E o \in Call : call[o].op = "refresh"
  /\ Ask(c, "refresh", {}, activeServer)
  /\ Calm /\ UNCHANGED <<row, activeServer, entries, error, modal, bulk>>

\* The layout renews the token every few minutes: the list is loaded once more, and so are
\* the servers, whatever the page is in the middle of.
Renew(c, d) ==
  /\ c # d /\ call[c] = Idle /\ call[d] = Idle /\ Move
  /\ call' = [call EXCEPT ![c].op = "servers",
                          ![d].op = "load", ![d].server = activeServer]
  /\ UNCHANGED <<row, activeServer, entries, error, modal, bulk>>

Click(c, op, ids) ==
  /\ Ask(c, op, ids, activeServer)
  /\ Move /\ UNCHANGED <<row, activeServer, entries, error, modal, bulk>>

OpenProfile(c, e) == Uncovered /\ ~bulkMode /\ e \in entries /\ Click(c, "open", {e})
HandleAdd(c) == Uncovered /\ Click(c, "add", {})
ConfirmImport(c) == ~error /\ importing # None /\ Click(c, "import", {})
SaveEdit(c) == ~error /\ form # None /\ Click(c, "save", {selected})
DeleteFromModal(c) == ~error /\ confirm # None /\ Click(c, "delete", {selected})
ExecuteBulkAction(c) ==
  /\ ~error /\ dialog # None /\ ticked # {}
  /\ ~\E o \in Call : call[o].op \in {"bulkDelete", "bulkUpdate", "bulkUpdated"}
  /\ Click(c, IF dialog = "delete" THEN "bulkDelete" ELSE "bulkUpdate", ticked)

CloseModal == selected' = None /\ form' = None /\ confirm' = None
CloseProfile ==
  /\ ~error /\ selected # None /\ CloseModal
  /\ Calm /\ UNCHANGED <<row, activeServer, entries, error, bulk, call>>

\* Edit starts a form from the entry the modal shows; Cancel ends it.
StartEdit ==
  /\ ~error /\ selected # None /\ form = None /\ confirm = None
  /\ form' = selected /\ confirm' = None
  /\ Calm /\ UNCHANGED <<row, activeServer, entries, error, selected, bulk, call>>

AskDelete ==
  /\ ~error /\ selected # None /\ form = None /\ confirm = None
  /\ confirm' = [of |-> selected, overtaken |-> FALSE]
  /\ Calm /\ UNCHANGED <<row, activeServer, entries, error, selected, form, bulk, call>>

Cancel ==
  /\ ~error /\ selected # None /\ (form # None \/ confirm # None)
  /\ IF form # None THEN form' = None /\ UNCHANGED confirm ELSE confirm' = None /\ UNCHANGED form
  /\ Calm /\ UNCHANGED <<row, activeServer, entries, error, selected, bulk, call>>

\* The import dialog; confirming leaves it open until the list has come.
OpenImport ==
  /\ \/ Uncovered /\ importing' = activeServer
     \/ ~error /\ importing # None /\ importing' = None
  /\ Calm /\ UNCHANGED <<row, activeServer, entries, error, modal, ticked, bulkMode, dialog, call>>

ToggleBulkMode == bulkMode' = ~bulkMode /\ ticked' = {} /\ UNCHANGED <<dialog, importing>>

\* A tick; ticking all compares the number of ticks with the number of rows.  Rows are
\* ticked among those shown, and stay ticked when they are shown no more.
Tick ==
  /\ bulkMode
  /\ \/ \E e \in entries : ticked' = (ticked \ {e}) \cup ({e} \ ticked)
     \/ ticked' = IF Cardinality(ticked) = Cardinality(entries) THEN {} ELSE entries
  /\ UNCHANGED <<bulkMode, dialog, importing>>

\* The bar of bulk actions is there as long as anything is ticked.
SetDialog ==
  /\ ticked # {} /\ dialog' \in {"delete", "update"} /\ UNCHANGED <<ticked, bulkMode, importing>>

Bulk ==
  /\ \/ Uncovered /\ (ToggleBulkMode \/ Tick \/ SetDialog)
     \/ ~error /\ dialog # None /\ dialog' = None /\ UNCHANGED <<ticked, bulkMode, importing>>
  /\ Move /\ UNCHANGED <<row, activeServer, entries, error, modal, call>>

-----------------------------------------------------------------------------
(* The api carries a call out.                                             *)

Reads == {"load", "refresh", "imported", "bulkUpdated"}

\* GET /whitelist: the rows of the server that was asked for.
Listed(c) ==
  /\ call[c].op \in Reads
  /\ call' = [call EXCEPT ![c].at = "done", ![c].data = Rows(call[c].server)]
  /\ UNCHANGED row

\* GET /server-configs.
Servers(c) ==
  /\ call[c].op = "servers" /\ call' = [call EXCEPT ![c].at = "done"] /\ UNCHANGED row

\* GET and PATCH /whitelist/:id: 404 when the entry is gone.
OneFound(c) ==
  /\ call[c].op \in {"open", "save", "saved"}
  /\ call' = [call EXCEPT ![c].at = IF call[c].ids \subseteq Present THEN "done" ELSE "failed"]
  /\ UNCHANGED row

RowsDeleted(c) ==
  /\ call[c].op \in {"delete", "bulkDelete"}
  /\ IF call[c].op = "delete" /\ ~(call[c].ids \subseteq Present)
       THEN call' = [call EXCEPT ![c].at = "failed"] /\ UNCHANGED row
       ELSE /\ call' = [call EXCEPT ![c].at = "done"]
            /\ row' = [e \in Id |-> IF e \in call[c].ids THEN None ELSE row[e]]

\* POST /whitelist and /whitelist/bulk: a Steam ID that is on the server already is a
\* conflict for the one, and skipped by the other.
RowsAdded(c) ==
  LET op == call[c].op IN
  /\ op \in {"add", "import"}
  /\ \E S \in SUBSET (Id \ Present) :
       /\ op = "add" => Cardinality(S) <= 1
       /\ call' = [call EXCEPT ![c].at = IF op = "add" /\ S = {} THEN "failed" ELSE "done",
                               ![c].ids = S]
       /\ row' = [e \in Id |-> IF e \in S THEN call[c].server ELSE row[e]]

\* A bulk update changes rows, never their server; it names them by id, and those that
\* are gone do no harm.
RowsUpdated(c) ==
  /\ call[c].op = "bulkUpdate" /\ call' = [call EXCEPT ![c].at = "done"] /\ UNCHANGED row

Serve(c) ==
  /\ call[c].at = "asked"
  /\ Listed(c) \/ Servers(c) \/ OneFound(c) \/ RowsDeleted(c) \/ RowsAdded(c) \/ RowsUpdated(c)
  /\ Calm /\ UNCHANGED <<activeServer, entries, error, modal, bulk>>

\* Or it does not: the request fails before it changes anything.
Refuse(c) ==
  /\ call[c] # Idle /\ call[c].at = "asked"
  /\ call' = [call EXCEPT ![c].at = "failed"]
  /\ Move /\ UNCHANGED <<row, activeServer, entries, error, modal, bulk>>

-----------------------------------------------------------------------------
(* The page takes the answer.                                              *)

End(c) == call' = [call EXCEPT ![c] = Idle]
\* One call follows another, for the server or the entry of the first.
Then(c, op) == call' = [call EXCEPT ![c].op = op, ![c].at = "asked", ![c].data = {}]

\* The page goes to the server it opens with; if it showed another, the effect on
\* activeServer loads the rows.
GoTo(c, v) ==
  /\ activeServer' = v
  /\ call' = [call EXCEPT ![c] = IF v = activeServer THEN Idle
                                 ELSE [Idle EXCEPT !.op = "load", !.server = v]]

TheEntry(c) == CHOOSE e \in call[c].ids : TRUE

\* openProfile: the modal is given the entry, and begins anew.
Opened(c) ==
  /\ call[c].op = "open" /\ End(c)
  /\ selected' = TheEntry(c) /\ form' = None /\ confirm' = None
  /\ UNCHANGED <<entries, error, bulk>>

Reselect_KeepsEditing(e) ==  \* fault: the form stays open
  /\ selected' = e /\ UNCHANGED form
  /\ confirm' = IF confirm = None \/ e = selected THEN confirm
                ELSE [confirm EXCEPT !.overtaken = TRUE]

\* The end of saveEdit: the entry as it was saved is shown, whichever was shown by then,
\* and the form ends; a question that is open stays open.
Reselect(e) ==
  /\ selected' = e /\ form' = None
  /\ confirm' = IF confirm = None \/ e = selected THEN confirm
                ELSE [confirm EXCEPT !.overtaken = TRUE]

Saved(c) ==
  /\ \/ call[c].op = "save" /\ Then(c, "saved") /\ UNCHANGED modal
     \/ call[c].op = "saved" /\ End(c) /\ Reselect(TheEntry(c))
  /\ UNCHANGED <<entries, error, bulk>>

\* A deletion's answer takes the row off the list and closes the modal, whichever entry
\* it shows by then.
Deleted(c) ==
  /\ call[c].op = "delete" /\ End(c)
  /\ entries' = entries \ call[c].ids /\ CloseModal
  /\ UNCHANGED <<error, bulk>>

\* What was added is put on top of the list, whichever server's it is by then.
Added(c) ==
  /\ \/ call[c].op = "add" /\ End(c) /\ entries' = entries \cup call[c].ids
     \/ call[c].op = "import" /\ Then(c, "imported") /\ UNCHANGED entries
  /\ UNCHANGED <<error, modal, bulk>>

\* The list that follows an import closes its dialog.
CloseImport(c) ==
  /\ importing' = IF call[c].op = "imported" THEN None ELSE importing
  /\ UNCHANGED <<ticked, bulkMode, dialog>>

ClearBulk == ticked' = {} /\ dialog' = None /\ UNCHANGED <<bulkMode, importing>>

BulkDone(c) ==
  /\ \/ /\ call[c].op = "bulkDelete" /\ End(c)
        /\ entries' = entries \ call[c].ids /\ ClearBulk
     \/ call[c].op = "bulkUpdate" /\ Then(c, "bulkUpdated") /\ UNCHANGED <<entries, bulk>>
     \/ call[c].op = "bulkUpdated" /\ End(c) /\ entries' = call[c].data /\ ClearBulk
  /\ UNCHANGED <<error, modal>>

Shown_WhenCurrent(c) ==  \* fault: only the switch's own answer is shown
  /\ call[c].op \in {"load", "refresh", "imported"} /\ End(c)
  /\ entries' = IF call[c].op = "load" THEN call[c].data ELSE entries
  /\ CloseImport(c) /\ UNCHANGED <<error, modal>>

\* A list is shown, for whichever server it was asked.
Shown(c) ==
  /\ call[c].op \in {"load", "refresh", "imported"} /\ End(c)
  /\ entries' = call[c].data
  /\ CloseImport(c) /\ UNCHANGED <<error, modal>>

Answer(c) ==
  /\ call[c].at = "done"
  /\ \/ /\ Opened(c) \/ Saved(c) \/ Deleted(c) \/ Added(c) \/ BulkDone(c) \/ Shown(c)
        /\ UNCHANGED activeServer
     \/ call[c].op = "servers" /\ GoTo(c, First) /\ UNCHANGED <<entries, error, modal, bulk>>
  /\ Calm /\ UNCHANGED row

\* A failure: a load's replaces the page by its message, which nothing takes away again;
\* without the servers, the page goes to Fallback; the second call of a save or of a bulk
\* update ends what the first began; the others change nothing.
Failed(c) ==
  /\ call[c].at = "failed"
  /\ IF call[c].op = "servers" THEN GoTo(c, Fallback) ELSE End(c) /\ UNCHANGED activeServer
  /\ error' = (error \/ call[c].op = "load")
  /\ form' = IF call[c].op = "saved" THEN None ELSE form
  /\ IF call[c].op = "bulkUpdated" THEN ClearBulk ELSE CloseImport(c)
  /\ Calm /\ UNCHANGED <<row, entries, selected, confirm>>

\* Other staff add and delete rows.
Others ==
  /\ \E e \in Id, v \in Server \cup {None} :
       (row[e] = None) # (v = None) /\ row' = [row EXCEPT ![e] = v]
  /\ Move /\ UNCHANGED <<activeServer, entries, error, modal, bulk, call>>

Next ==
  \/ \E c \in Call :
       \/ Refresh(c) \/ HandleAdd(c) \/ ConfirmImport(c) \/ SaveEdit(c) \/ DeleteFromModal(c)
       \/ ExecuteBulkAction(c) \/ Serve(c) \/ Refuse(c) \/ Answer(c) \/ Failed(c)
       \/ \E d \in Call : Renew(c, d)
       \/ \E v \in Server : Switch(c, v)
       \/ \E e \in Id : OpenProfile(c, e)
  \/ CloseProfile \/ StartEdit \/ AskDelete \/ Cancel \/ OpenImport \/ Bulk \/ Others

\* Calls are answered, the interval goes on.  Nobody has to click.
Fairness == \A c \in Call :
  WF_vars(Serve(c)) /\ WF_vars(Answer(c)) /\ WF_vars(Failed(c)) /\ WF_vars(Refresh(c))

Spec == Init /\ [][Next]_vars /\ Fairness

-----------------------------------------------------------------------------
(* What must hold.                                                         *)

\* What the modal is about to do, it does to the entry it shows: a form is saved to the
\* entry it was started from, and "Delete this entry?" deletes the entry it was asked for,
\* unless the end of another entry's save has put that entry into the modal meanwhile.
ModalIsOfEntry ==
  /\ form # None => form = selected
  /\ confirm # None /\ ~confirm.overtaken => confirm.of = selected

\* What is pasted into the import dialog goes to the server the dialog was opened for.  The
\* code breaks it: a renewal of the token meanwhile takes the page back to First (README.md).
ImportsWhereOpened ==
  [][\A c \in Call : call[c] = Idle /\ call'[c].op = "import" => call'[c].server = importing]_vars

\* Once everybody leaves things alone, the list is the one of the selected server, whatever
\* lists and answers came late, or the page shows that a load failed.
ListSettles == <>[](error \/ entries = Rows(activeServer))
=============================================================================
