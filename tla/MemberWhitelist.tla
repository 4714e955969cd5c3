-------------------------- MODULE MemberWhitelist --------------------------
(***************************************************************************)
(* The members table, the whitelist table and the handlers that write      *)
(* them: routes/whitelist.ts, the parts of routes/users.ts that touch      *)
(* User.steamId, User.disabled or WhitelistEntry, and the two background    *)
(* jobs that give members a Steam ID.                                      *)
(*                                                                         *)
(* One awaited database statement (or one $transaction) is one atomic      *)
(* step.  A handler that awaits between a read and the write that depends  *)
(* on it is a call in flight, kept in `call`, and other handlers run       *)
(* between its steps.                                                      *)
(*                                                                         *)
(* `fired` is the module's output: the deploys (deployInBackground) that   *)
(* the last step started, a set of servers, or {All} for every server.     *)
(*                                                                         *)
(* `by`, `late`, `held`, `reverted` and `owed` are history variables; what  *)
(* the handlers do depends on none of them.                                *)
(*                                                                         *)
(* A definition marked "fault" is a plausible mistake in the one below it. *)
(* Nothing uses it here: it is what the properties must be able to tell    *)
(* from the code (see README.md).                                          *)
(***************************************************************************)
EXTENDS Naturals, FiniteSets

CONSTANTS
  User,        \* member ids
  Steam,       \* Steam IDs
  Server,      \* server keys ("main", "battle", ...)
  Entry,       \* whitelist row ids
  Call,        \* slots for handlers in flight; a bound on concurrency
  Protected,   \* developer accounts (ADMIN_DISCORD_IDS), which cannot be disabled
  SecretaryDb, \* is SECRETARY_DATABASE_URL set?  If not, no prospect gives a Steam ID
  Expiries,    \* the kinds of expiresAt that requests carry, some of Until
  BulkMax,     \* bound on the ids one bulk request names
  All,         \* the deploy scope "every configured server"
  None

ASSUME ConstantsAssumption ==
  /\ Protected \subseteq User
  /\ SecretaryDb \in BOOLEAN
  /\ Expiries \subseteq {"never", "ahead", "past"}
  /\ BulkMax \in Nat
  /\ All \notin Server
  /\ None \notin User \cup Steam \cup Server \cup Entry

VARIABLES
  user,   \* user[u]: status, disabled flag, Steam ID
  entry,  \* entry[e]: a whitelist row, see Row
  call,   \* call[c]: a handler in flight
  fired,  \* deploys started by the last step
  by,     \* history: whose disabling made the row dormant; None once it changed hands
  late,   \* history: rows attached to a member who was disabled at that moment
  held,   \* history: which member has held which Steam ID
  reverted, \* history: owned rows that an edit gave back the Steam ID it had read
  owed    \* history: owed[v]: what a change of server v's list still waits for

vars == <<user, entry, call, fired, by, late, held, reverted, owed>>
history == <<by, late, held, reverted>>

-----------------------------------------------------------------------------
(* The data.                                                               *)

\* expiresAt of a row: never set, still ahead, or already past.
Until == {"never", "ahead", "past"}

\* "unborn": no row yet; "gone": deleted (a cuid is not used again).
Account == [status : {"unborn", "there", "gone"}, disabled : BOOLEAN, steam : Steam \cup {None}]

\* A whitelist row.  dormant stands for deactivatedAt # null, owner for userId.
Row == [there : BOOLEAN, steam : Steam \cup {None}, server : Server \cup {None},
        owner : User \cup {None}, dormant : BOOLEAN, until : Until]
NoRow == [there |-> FALSE, steam |-> None, server |-> None, owner |-> None,
          dormant |-> FALSE, until |-> "never"]

\* A handler in flight: what it does, its next statement, and what it has read.
Ops == {"idle", "add", "bulkAdd", "edit", "bulkUpdate", "relink", "backfill"}
Steps == {"done", "lookup", "write", "sample", "unlink", "link"}
Flight == [op : Ops, at : Steps, steams : SUBSET Steam, server : Server \cup {None},
           row : Entry \cup {None}, rows : SUBSET Entry, user : User \cup {None},
           old : Steam \cup {None}, new : Steam \cup {None},
           found : [Steam -> User \cup {None}]]
Idle == [op |-> "idle", at |-> "done", steams |-> {}, server |-> None, row |-> None,
         rows |-> {}, user |-> None, old |-> None, new |-> None,
         found |-> [s \in Steam |-> None]]

Rows == {e \in Entry : entry[e].there}
Members == {u \in User : user[u].status = "there"}

\* The unique index on (steamId, server).
Taken(s, v) == \E e \in Rows : entry[e].steam = s /\ entry[e].server = v

\* The unique index on User.steamId.
HeldBy(u, s) == u \in Members /\ user[u].steam = s
SteamFree(u, s) == s = None \/ \A w \in User \ {u} : ~HeldBy(w, s)

\* findUserIdForSteam
FindUserIdForSteam(s) ==
  IF \E u \in User : HeldBy(u, s) THEN CHOOSE u \in User : HeldBy(u, s) ELSE None

\* A userId column may be null or name an existing member (foreign key).
KeyOk(u) == u = None \/ u \in Members

\* A row that generateAdminsCfg lists: not deactivated, not expired.
Active(e) == entry[e].there /\ ~entry[e].dormant /\ entry[e].until # "past"

\* The Steam IDs that generateAdminsCfg lists for a server.
Listed(v) == {entry[e].steam : e \in {r \in Entry : Active(r) /\ entry[r].server = v}}

\* A row id a create may return: unused, and not one a handler still refers to.
Fresh(e) == ~entry[e].there /\ \A c \in Call : call[c].row # e /\ e \notin call[c].rows

\* updateMany({ where: owner in U })
Owned(U) == {e \in Rows : entry[e].owner \in U}

Start(c, q) == call[c] = Idle /\ call' = [call EXCEPT ![c] = q]
Finish(c) == call' = [call EXCEPT ![c] = Idle]
Goto(c, step) == call' = [call EXCEPT ![c].at = step]

Init ==
  /\ user = [u \in User |-> [status |-> "unborn", disabled |-> FALSE, steam |-> None]]
  /\ entry = [e \in Entry |-> NoRow]
  /\ call = [c \in Call |-> Idle]
  /\ fired = {}
  /\ by = [e \in Entry |-> None]
  /\ late = {}
  /\ held = {}
  /\ reverted = {}
  /\ owed = [v \in Server |-> "nothing"]

-----------------------------------------------------------------------------
(* Adding rows: POST /whitelist and POST /whitelist/bulk.                  *)

\* The duplicate check of POST /whitelist: a taken slot answers 409.
StartAdd(c, s, v) ==
  /\ ~Taken(s, v)
  /\ Start(c, [Idle EXCEPT !.op = "add", !.at = "lookup", !.steams = {s}, !.server = v])
  /\ fired' = {}
  /\ UNCHANGED <<user, entry, history>>

\* existingRows: the Steam IDs of the batch already on the server are skipped.
StartBulkAdd(c, S, v) ==
  /\ S # {}
  /\ Start(c, [Idle EXCEPT !.op = "bulkAdd", !.at = "lookup", !.server = v,
                           !.steams = {s \in S : ~Taken(s, v)}])
  /\ fired' = {}
  /\ UNCHANGED <<user, entry, history>>

\* findUserIdForSteam, before the create or the update that uses its answer.
LookupOwner(c) ==
  /\ call[c].at = "lookup"
  /\ call' = [call EXCEPT ![c].at = "write",
                          ![c].found = [s \in Steam |->
                             IF s \in call[c].steams THEN FindUserIdForSteam(s) ELSE None]]
  /\ fired' = {}
  /\ UNCHANGED <<user, entry, history>>

\* The rows a create inserts: one per Steam ID in S, with the owners looked up before.
NewRow(c, s, t) == [there |-> TRUE, steam |-> s, server |-> call[c].server,
                    owner |-> call[c].found[s], dormant |-> FALSE, until |-> t]
Insert(c, S, id, t) ==
  /\ \A s \in S : Fresh(id[s])
  /\ \A s, z \in S : id[s] = id[z] => s = z
  /\ entry' = [e \in Entry |->
       IF \E s \in S : id[s] = e
       THEN NewRow(c, CHOOSE s \in S : id[s] = e, t) ELSE entry[e]]
  /\ by' = [e \in Entry |-> IF \E s \in S : id[s] = e THEN None ELSE by[e]]
  /\ reverted' = {e \in reverted : \A s \in S : id[s] # e}
  /\ late' = {e \in late : \A s \in S : id[s] # e}
         \cup {id[s] : s \in {z \in S : call[c].found[z] # None
                                        /\ user[call[c].found[z]].disabled}}

\* The Steam IDs of the call that a create can still insert.
Creatable(c) == {s \in call[c].steams : ~Taken(s, call[c].server) /\ KeyOk(call[c].found[s])}

\* create, then deployInBackground(server); a constraint error answers 500.
AddWrite(c, t) ==
  /\ call[c].op = "add" /\ call[c].at = "write"
  /\ Finish(c)
  /\ IF Creatable(c) = call[c].steams
       THEN /\ \E id \in [call[c].steams -> Entry] : Insert(c, call[c].steams, id, t)
            /\ fired' = {call[c].server}
       ELSE fired' = {} /\ UNCHANGED <<entry, by, late, reverted>>
  /\ UNCHANGED <<user, held>>

\* The transaction: an entry whose create fails is counted as skipped; always deploys.
BulkAddWrite(c) ==
  /\ call[c].op = "bulkAdd" /\ call[c].at = "write"
  /\ Finish(c)
  /\ \E id \in [Creatable(c) -> Entry] : Insert(c, Creatable(c), id, "never")
  /\ fired' = {call[c].server}
  /\ UNCHANGED <<user, held>>

-----------------------------------------------------------------------------
(* Changing and removing rows.                                             *)

\* PATCH /whitelist/:id: the row is read, and a steamId that differs from the row's is
\* checked for a collision.  A body without one is s = None.
StartEdit(c, e, s) ==
  LET repoints == s \notin {None, entry[e].steam} IN
  /\ entry[e].there
  /\ repoints => ~Taken(s, entry[e].server)
  /\ Start(c, [Idle EXCEPT !.op = "edit", !.at = IF repoints THEN "lookup" ELSE "write",
                           !.steams = IF repoints THEN {s} ELSE {}, !.row = e,
                           !.server = entry[e].server, !.old = entry[e].steam, !.new = s])
  /\ fired' = {}
  /\ UNCHANGED <<user, entry, history>>

SetUntil_Revives(e, t) ==  \* fault: an edited row is written back as active
  IF t = "keep" THEN entry[e] ELSE [entry[e] EXCEPT !.until = t, !.dormant = FALSE]
\* A body without expiresAt ("keep") changes name, group or clan only.
SetUntil(e, t) == IF t = "keep" THEN entry[e] ELSE [entry[e] EXCEPT !.until = t]

\* Whether the update of an edit goes through: the row, its new owner and its slot.
Editable(q) ==
  /\ entry[q.row].there
  /\ q.new \notin {None, q.old} => KeyOk(q.found[q.new])
  /\ \A e \in Rows \ {q.row} : ~(entry[e].steam = q.new /\ entry[e].server = q.server)

\* Its update.  userId is written only if the body's steamId differs from what was read,
\* steamId whenever the body has one; a missing row or a constraint answers 500.
EditWrite(c, t) ==
  LET q == call[c]
      owner == q.found[q.new] IN
  /\ q.op = "edit" /\ q.at = "write"
  /\ Finish(c)
  /\ \/ /\ ~Editable(q)
        /\ fired' = {}
        /\ UNCHANGED <<entry, by, late, reverted>>
     \/ /\ Editable(q) /\ q.new \in {None, q.old}
        /\ entry' = [entry EXCEPT ![q.row] =
             [SetUntil(q.row, t) EXCEPT !.steam = IF q.new = None THEN @ ELSE q.new]]
        /\ reverted' = IF q.new \notin {None, entry[q.row].steam} /\ entry[q.row].owner # None
                       THEN reverted \cup {q.row} ELSE reverted
        /\ fired' = {q.server}
        /\ UNCHANGED <<by, late>>
     \/ /\ Editable(q) /\ q.new \notin {None, q.old}
        /\ entry' = [entry EXCEPT ![q.row] =
             [SetUntil(q.row, t) EXCEPT !.steam = q.new, !.owner = owner]]
        /\ by' = [by EXCEPT ![q.row] = IF @ = owner THEN @ ELSE None]
        /\ late' = IF owner # None /\ user[owner].disabled
                   THEN late \cup {q.row} ELSE late \ {q.row}
        /\ reverted' = reverted \ {q.row}
        /\ fired' = {q.server}
  /\ UNCHANGED <<user, held>>

\* POST /whitelist/bulk-update: the updateMany changes every named row ...
StartBulkUpdate(c, E, t) ==
  /\ E # {} /\ E \subseteq Rows
  /\ Start(c, [Idle EXCEPT !.op = "bulkUpdate", !.at = "sample", !.rows = E])
  /\ entry' = [e \in Entry |-> IF e \in E THEN SetUntil(e, t) ELSE entry[e]]
  /\ fired' = {}
  /\ UNCHANGED <<user, history>>

\* The servers of the named rows that are still there.
SampleFrom(c) == {entry[e].server : e \in call[c].rows \cap Rows}

\* ... and findFirst finds one of them, whose server alone is deployed.
SampleDeploy(c) ==
  /\ call[c].at = "sample"
  /\ Finish(c)
  /\ IF SampleFrom(c) = {} THEN fired' = {} ELSE \E v \in SampleFrom(c) : fired' = {v}
  /\ UNCHANGED <<user, entry, history>>

Remove_SampleServer(E) ==  \* fault: deploys one sample's server, as bulk-update does
  /\ entry' = [e \in Entry |-> IF e \in E THEN NoRow ELSE entry[e]]
  /\ \E sample \in E : fired' = {entry[sample].server}
  /\ late' = late \ E
  /\ reverted' = reverted \ E
  /\ by' = [e \in Entry |-> IF e \in E THEN None ELSE by[e]]
  /\ UNCHANGED <<user, call, held>>

Remove(E) ==
  /\ entry' = [e \in Entry |-> IF e \in E THEN NoRow ELSE entry[e]]
  /\ fired' = {entry[e].server : e \in E}
  /\ late' = late \ E
  /\ reverted' = reverted \ E
  /\ by' = [e \in Entry |-> IF e \in E THEN None ELSE by[e]]
  /\ UNCHANGED <<user, call, held>>

\* DELETE /whitelist/:id
DeleteEntry(e) == entry[e].there /\ Remove({e})

\* POST /whitelist/bulk-delete: every server of the deleted rows is deployed.
BulkDelete(E) == E # {} /\ E \subseteq Rows /\ Remove(E)

\* expiresAt passes.  Nothing runs when it does.
Expire(e) ==
  /\ entry[e].there /\ entry[e].until = "ahead"
  /\ entry' = [entry EXCEPT ![e].until = "past"]
  /\ fired' = {}
  /\ UNCHANGED <<user, call, history>>

\* PATCH /clans/:id with a new tag rewrites the rows' clan label and deploys every server.
RenameClan ==
  /\ Rows # {}
  /\ fired' = {All}
  /\ UNCHANGED <<user, entry, call, history>>

-----------------------------------------------------------------------------
(* Members: creation, disabling, enabling, deletion.                       *)

Born(u, s) ==
  /\ user[u].status = "unborn"
  /\ \A c \in Call : call[c].user # u
  /\ user' = [user EXCEPT ![u] = [status |-> "there", disabled |-> FALSE, steam |-> s]]
  /\ held' = IF s = None THEN held ELSE held \cup {<<u, s>>}
  /\ fired' = {}
  /\ UNCHANGED <<entry, call, by, late, reverted>>

\* POST /auth/sync of a newcomer: upsert without a Steam ID.
SignIn(u) == Born(u, None)

\* Role sync creates Discord-only members; a prospect's Steam ID already in use
\* makes it retry without one.  Whitelist rows are not relinked.
CreateMember(u, s) ==
  /\ SecretaryDb
  /\ Born(u, IF SteamFree(u, s) THEN s ELSE None)

Deactivate_BySteamId(U) ==  \* fault: the rows of the Steam ID, not the rows owned
  LET hit == {e \in Rows : ~entry[e].dormant /\ \E u \in U : user[u].steam = entry[e].steam} IN
  /\ user' = [u \in User |-> IF u \in U THEN [user[u] EXCEPT !.disabled = TRUE] ELSE user[u]]
  /\ entry' = [e \in Entry |-> IF e \in hit THEN [entry[e] EXCEPT !.dormant = TRUE] ELSE entry[e]]
  /\ by' = [e \in Entry |->
       IF e \in hit THEN CHOOSE u \in U : user[u].steam = entry[e].steam ELSE by[e]]
  /\ late' = late \ Owned(U)
  /\ fired' = IF hit = {} THEN {} ELSE {All}
  /\ UNCHANGED <<call, held, reverted>>

\* One transaction: the accounts and every active row they own, then a deploy of
\* every server if a row changed.
Deactivate(U) ==
  LET hit == {e \in Owned(U) : ~entry[e].dormant} IN
  /\ user' = [u \in User |-> IF u \in U THEN [user[u] EXCEPT !.disabled = TRUE] ELSE user[u]]
  /\ entry' = [e \in Entry |-> IF e \in hit THEN [entry[e] EXCEPT !.dormant = TRUE] ELSE entry[e]]
  /\ by' = [e \in Entry |-> IF e \in hit THEN entry[e].owner ELSE by[e]]
  /\ late' = late \ Owned(U)
  /\ fired' = IF hit = {} THEN {} ELSE {All}
  /\ UNCHANGED <<call, held, reverted>>

\* PATCH /users/:id/status { disabled: true }; an account may be disabled twice.
Disable(u) == u \in Members \ Protected /\ Deactivate({u})

\* POST /users/bulk-disable: protected accounts are filtered out first.
BulkDisable(U) == (U \cap Members) \ Protected # {} /\ Deactivate((U \cap Members) \ Protected)

Reactivate_DeploysForDisabled(U) ==  \* fault: no deploy for members who were enabled before
  LET hit == {e \in Owned(U) : entry[e].dormant} IN
  /\ user' = [u \in User |-> IF u \in U THEN [user[u] EXCEPT !.disabled = FALSE] ELSE user[u]]
  /\ entry' = [e \in Entry |-> IF e \in hit THEN [entry[e] EXCEPT !.dormant = FALSE] ELSE entry[e]]
  /\ by' = [e \in Entry |-> IF e \in hit THEN None ELSE by[e]]
  /\ late' = late \ Owned(U)
  /\ fired' = IF \E u \in U : user[u].disabled THEN {All} ELSE {}
  /\ UNCHANGED <<call, held, reverted>>

Reactivate(U) ==
  LET hit == {e \in Owned(U) : entry[e].dormant} IN
  /\ user' = [u \in User |-> IF u \in U THEN [user[u] EXCEPT !.disabled = FALSE] ELSE user[u]]
  /\ entry' = [e \in Entry |-> IF e \in hit THEN [entry[e] EXCEPT !.dormant = FALSE] ELSE entry[e]]
  /\ by' = [e \in Entry |-> IF e \in hit THEN None ELSE by[e]]
  /\ late' = late \ Owned(U)
  /\ fired' = IF hit = {} THEN {} ELSE {All}
  /\ UNCHANGED <<call, held, reverted>>

\* PATCH /users/:id/status { disabled: false }
Enable(u) == u \in Members /\ Reactivate({u})

\* POST /users/bulk-enable
BulkEnable(U) == U \cap Members # {} /\ Reactivate(U \cap Members)

\* The rows of a deleted member keep their state and lose their owner (onDelete: SetNull).
RemoveUsers(U) ==
  /\ user' = [u \in User |->
       IF u \in U THEN [status |-> "gone", disabled |-> FALSE, steam |-> None] ELSE user[u]]
  /\ entry' = [e \in Entry |->
       IF e \in Owned(U) THEN [entry[e] EXCEPT !.owner = None] ELSE entry[e]]
  /\ late' = late \ Owned(U)
  /\ reverted' = reverted \ Owned(U)
  /\ fired' = {}
  /\ UNCHANGED <<call, by, held>>

\* DELETE /users/:id
DeleteUser(u) == u \in Members /\ RemoveUsers({u})

\* POST /users/bulk-delete
BulkDeleteUsers(U) == U \cap Members # {} /\ RemoveUsers(U \cap Members)

-----------------------------------------------------------------------------
(* Steam IDs of members, and relinkWhitelistEntries.                       *)

\* POST /users/link-steam: a member sets their own Steam ID.  The collision
\* check and the read of the previous value.
StartLink(c, u, s) ==
  /\ u \in Members /\ SteamFree(u, s)
  /\ Start(c, [Idle EXCEPT !.op = "relink", !.at = "write", !.user = u,
                           !.old = user[u].steam, !.new = s])
  /\ fired' = {}
  /\ UNCHANGED <<user, entry, history>>

\* PATCH /users/:id with a steamId; an empty one clears it.
StartEditUser(c, u, s) ==
  /\ u \in Members
  /\ s # None => SteamFree(u, s)
  /\ Start(c, [Idle EXCEPT !.op = "relink", !.at = "write", !.user = u,
                           !.old = user[u].steam, !.new = s])
  /\ fired' = {}
  /\ UNCHANGED <<user, entry, history>>

SetSteam(u, s) ==
  /\ user' = [user EXCEPT ![u].steam = s]
  /\ held' = IF s = None THEN held ELSE held \cup {<<u, s>>}

WriteSteam_IgnoresConflict(c) ==  \* fault: goes on to relink after the update failed
  LET q == call[c] IN
  /\ q.op = "relink" /\ q.at = "write"
  /\ fired' = {}
  /\ Goto(c, "unlink")
  /\ IF q.user \in Members /\ SteamFree(q.user, q.new)
       THEN SetSteam(q.user, q.new) ELSE UNCHANGED <<user, held>>
  /\ UNCHANGED <<entry, by, late, reverted>>

\* user.update; a missing member or the unique index answers 500.
WriteSteam(c) ==
  LET q == call[c] IN
  /\ q.op = "relink" /\ q.at = "write"
  /\ fired' = {}
  /\ IF q.user \in Members /\ SteamFree(q.user, q.new)
       THEN Goto(c, "unlink") /\ SetSteam(q.user, q.new)
       ELSE Finish(c) /\ UNCHANGED <<user, held>>
  /\ UNCHANGED <<entry, by, late, reverted>>

Unlink_OnlyWhenCleared(c) ==  \* fault: a changed Steam ID keeps its old rows
  LET q == call[c]
      hit == IF q.old # None /\ q.new = None THEN Owned({q.user}) ELSE {} IN
  /\ q.at = "unlink"
  /\ Goto(c, "link")
  /\ entry' = [e \in Entry |-> IF e \in hit THEN [entry[e] EXCEPT !.owner = None] ELSE entry[e]]
  /\ late' = late \ hit
  /\ reverted' = reverted \ hit
  /\ fired' = {}
  /\ UNCHANGED <<user, by, held>>

\* First statement of relinkWhitelistEntries: rows of another Steam ID lose this owner.
Unlink(c) ==
  LET q == call[c]
      hit == IF q.old # None /\ q.old # q.new
             THEN {e \in Owned({q.user}) : entry[e].steam # q.new} ELSE {} IN
  /\ q.at = "unlink"
  /\ Goto(c, "link")
  /\ entry' = [e \in Entry |-> IF e \in hit THEN [entry[e] EXCEPT !.owner = None] ELSE entry[e]]
  /\ late' = late \ hit
  /\ reverted' = reverted \ hit
  /\ fired' = {}
  /\ UNCHANGED <<user, by, held>>

\* Second statement: unowned rows of the new Steam ID get this owner.  With no
\* such member any more, the foreign key refuses and the handler answers 500.
Link(c) ==
  LET q == call[c]
      hit == IF q.new # None /\ q.user \in Members
             THEN {e \in Rows : entry[e].steam = q.new /\ entry[e].owner = None} ELSE {} IN
  /\ q.at = "link"
  /\ Finish(c)
  /\ entry' = [e \in Entry |-> IF e \in hit THEN [entry[e] EXCEPT !.owner = q.user] ELSE entry[e]]
  /\ by' = [e \in Entry |-> IF e \in hit /\ by[e] # q.user THEN None ELSE by[e]]
  /\ late' = IF q.user \in Members /\ user[q.user].disabled THEN late \cup hit ELSE late \ hit
  /\ fired' = {}
  /\ UNCHANGED <<user, held, reverted>>

\* backfillMemberProfilesFromProspects reads the members without a Steam ID ...
StartBackfill(c, u, s) ==
  /\ SecretaryDb
  /\ u \in Members /\ user[u].steam = None
  /\ Start(c, [Idle EXCEPT !.op = "backfill", !.at = "write", !.user = u, !.new = s])
  /\ fired' = {}
  /\ UNCHANGED <<user, entry, history>>

\* ... and applyPatch writes the prospect's later, by id, without relinking.
BackfillWrite(c) ==
  LET q == call[c] IN
  /\ q.op = "backfill" /\ q.at = "write"
  /\ Finish(c)
  /\ fired' = {}
  /\ IF q.user \in Members /\ SteamFree(q.user, q.new)
       THEN SetSteam(q.user, q.new)
       ELSE UNCHANGED <<user, held>>
  /\ UNCHANGED <<entry, by, late, reverted>>

-----------------------------------------------------------------------------
Few(S) == {T \in SUBSET S : Cardinality(T) <= BulkMax}

\* Handlers that finish in one statement.
Handler ==
  \/ \E u \in User : SignIn(u) \/ Disable(u) \/ Enable(u) \/ DeleteUser(u)
  \/ \E U \in Few(User) : BulkDisable(U) \/ BulkEnable(U) \/ BulkDeleteUsers(U)
  \/ \E u \in User, s \in Steam : CreateMember(u, s)
  \/ \E e \in Entry : DeleteEntry(e)
  \/ \E E \in Few(Entry) : BulkDelete(E)
  \/ RenameClan

\* The first statements of the handlers that take several.
Request(c) ==
  \/ \E s \in Steam, v \in Server : StartAdd(c, s, v)
  \/ \E S \in Few(Steam), v \in Server : StartBulkAdd(c, S, v)
  \/ \E e \in Entry, s \in Steam \cup {None} : StartEdit(c, e, s)
  \/ \E E \in Few(Entry), t \in Expiries \cup {"keep"} : StartBulkUpdate(c, E, t)
  \/ \E u \in User, s \in Steam : StartLink(c, u, s) \/ StartBackfill(c, u, s)
  \/ \E u \in User, s \in Steam \cup {None} : StartEditUser(c, u, s)

\* Their later statements.
Continue(c) ==
  \/ LookupOwner(c)
  \/ \E t \in Expiries : AddWrite(c, t)
  \/ \E t \in Expiries \cup {"keep"} : EditWrite(c, t)
  \/ BulkAddWrite(c) \/ SampleDeploy(c)
  \/ WriteSteam(c) \/ Unlink(c) \/ Link(c)
  \/ BackfillWrite(c)

\* What the lists wait for after a step: a change, for a deploy; a server that a bulk-update
\* ended without deploying, for whoever changes something next.
Skipped(v) == \E c \in Call : call[c].at = "sample" /\ call'[c].at = "done" /\ v \in SampleFrom(c)
Owe == owed' = [v \in Server |->
  CASE fired' \cap {v, All} # {} -> "nothing"
    [] fired' \cap {v, All} = {} /\ Listed(v)' # Listed(v) -> "deploy"
    [] OTHER -> IF owed[v] = "deploy" /\ Skipped(v) THEN "skipped" ELSE owed[v]]

Next ==
  \/ (Handler \/ \E c \in Call : Request(c) \/ Continue(c)) /\ Owe
  \/ (\E e \in Entry : Expire(e)) /\ UNCHANGED owed

Spec == Init /\ [][Next]_vars

-----------------------------------------------------------------------------
(* What must hold.                                                         *)

TypeOK ==
  /\ user \in [User -> Account]
  /\ entry \in [Entry -> Row]
  /\ call \in [Call -> Flight]
  /\ fired \subseteq Server \cup {All}
  /\ by \in [Entry -> User \cup {None}]
  /\ late \subseteq Entry
  /\ held \subseteq User \X Steam
  /\ reverted \subseteq Entry
  /\ owed \in [Server -> {"nothing", "deploy", "skipped"}]

HeldByOwner(e) == entry[e].owner # None => <<entry[e].owner, entry[e].steam>> \in held

\* A row is only ever attributed to a member who has held the row's Steam ID,
\* whatever the lookups, relinks and creates in flight have read: findUserIdForSteam
\* and relinkWhitelistEntries never hand somebody else's whitelist to a member.  Named
\* exception: an edit whose body repeats the Steam ID it has read puts that ID back into a
\* row that was repointed, and given its new owner, between its read and its write.
OwnerHeldSteamId == \A e \in Rows \ reverted : HeldByOwner(e)

\* Disabling takes effect on every row the member owned at that moment: a row that
\* is active while its owner is disabled was attached to them (created, repointed or
\* relinked) after they had been disabled.
DisabledOwnsOnlyLateRows ==
  \A e \in Rows : (entry[e].owner # None /\ user[entry[e].owner].disabled /\ ~entry[e].dormant)
                    => e \in late

\* Whatever a handler changes of who is whitelisted on a server, by an add, an edit, a
\* removal, disabling, enabling or a new expiry, a deploy of that server is started, or the
\* bulk-update that made the change has still to start one.  Named exception: of the servers
\* whose rows a bulk-update changed it deploys one, and the others are skipped.
EveryListChangeIsDeployed ==
  \A v \in Server : owed[v] = "deploy" => \E c \in Call : call[c].at = "sample" /\ v \in SampleFrom(c)

\* What a reader expects of the two: no exception.  The code has both (see README.md).
OwnerAlwaysHeld == \A e \in Rows : HeldByOwner(e)
NothingSkipped == \A v \in Server : owed[v] # "skipped"

Quiet == \A c \in Call : call[c] = Idle

\* "Keep WhitelistEntry.userId in sync with User.steamId": with no handler in flight,
\* a row belongs to exactly the member whose Steam ID it carries.
LinksInSync ==
  Quiet => \A e \in Rows, u \in Members : entry[e].owner = u <=> user[u].steam = entry[e].steam

\* What enabling a member revives is what disabling that member removed: a dormant row that
\* has not changed hands since belongs to the member whose disabling made it dormant.
RestoresItsOwn ==
  \A e \in Rows : (entry[e].dormant /\ entry[e].owner # None) => by[e] \in {entry[e].owner, None}

\* "Every deactivated row for a given userId was deactivated by member-disable and is
\* safe to restore": the same, changed hands or not.  The code's rows can (see README.md).
SafeToRestore ==
  \A e \in Rows : (entry[e].dormant /\ entry[e].owner # None) => by[e] = entry[e].owner

\* A dormant row that belongs to somebody comes back to life only when that member
\* is enabled: no other handler reactivates a row that disabling removed.
OnlyEnableRevives ==
  [][\A e \in Entry : (entry[e].there /\ entry[e].dormant /\ entry'[e].there /\ ~entry'[e].dormant)
        => /\ entry[e].owner \in Members
           /\ ~user'[entry[e].owner].disabled
           /\ All \in fired']_vars
=============================================================================
