------------------------------- MODULE RoleDesk -------------------------------
(***************************************************************************)
(* The roles page (packages/web, app/(protected)/roles: page.tsx and        *)
(* RoleMembersPanel.tsx) and routes/roles.ts behind it: registering and     *)
(* unregistering roles, their permissions, their flags, who has them.       *)
(*                                                                         *)
(* Permissions are edited as a whole set, which starts from the set the      *)
(* page shows at the first toggle and replaces the rows by a deleteMany and  *)
(* a createMany, in no transaction.  Other staff work on the same rows; what *)
(* they see does not matter here, so they have no page.                    *)
(***************************************************************************)
EXTENDS Naturals

CONSTANTS
  Role,      \* ids of DiscordRole rows; one that was deleted does not come back
  Perm,      \* permissions
  Groups,    \* PERMISSION_GROUPS: the sets of permissions with an All and a None
  Call,      \* calls in flight; a bound
  None, Gone,
  MaxMoves   \* bound on toggles, questions and other clicks, on failures and on other staff

VARIABLES
  row,       \* row[r]: the DiscordRole row with its RolePermission rows; None, then Gone
  roles,     \* the list the page shows, role by role
  twice,     \* the roles it lists twice
  error,     \* the first load failed: the page shows nothing else
  pending,   \* pendingPerms[r], None when nothing of r was toggled
  savingId, toggling, deletingId, adding,
  expanded,  \* expandedId, and the role whose members its panel shows
  call,
  meant,     \* history, meant[r]: what the statements of the last request left of r's permissions
  mixed,     \* history: roles whose PUTs have overlapped, until one is alone again
  moves

page == <<roles, twice, error, pending, savingId, toggling, deletingId, adding, expanded>>
history == <<meant, mixed>>
vars == <<row, page, call, history, moves>>

-----------------------------------------------------------------------------
\* toDiscordRole: `flag` is grantsWhitelist, or isMemberRole; the two are handled alike.
Rows == [perms : SUBSET Perm, flag : BOOLEAN]
Ops == {"init", "list", "post", "put", "patch", "delete", "members"}
Calls == [op : Ops \cup {"idle"}, at : {"asked", "cleared", "written", "done", "failed"}, by : {"page", "staff"},
          of : Role \cup {None}, perms : SUBSET Perm, flag : BOOLEAN, data : [Role -> Rows \cup {None}]]
Empty == [r \in Role |-> None]
Idle == [op |-> "idle", at |-> "asked", by |-> "page", of |-> None, perms |-> {}, flag |-> FALSE, data |-> Empty]

Init ==
  /\ row \in [Role -> {[perms |-> P, flag |-> FALSE] : P \in SUBSET Perm} \cup {None}]
  /\ roles = Empty /\ twice = {} /\ error = FALSE
  /\ pending = Empty
  /\ savingId = None /\ toggling = None /\ deletingId = None /\ adding = FALSE
  /\ expanded = [of |-> None, members |-> None, asked |-> FALSE]
  /\ \E c \in Call : call = [o \in Call |-> IF o = c THEN [Idle EXCEPT !.op = "init"] ELSE Idle]
  /\ meant = [r \in Role |-> IF row[r] = None THEN {} ELSE row[r].perms]
  /\ mixed = {}
  /\ moves = 0

Move == moves < MaxMoves /\ moves' = moves + 1
Calm == UNCHANGED moves

Ask(c, q) == call[c] = Idle /\ call' = [call EXCEPT ![c] = q]
Listed == {r \in Role : roles[r] # None}

-----------------------------------------------------------------------------
(* What the page's user does.                                              *)

\* getEffectivePerms.
Effective(r) == IF pending[r] # None THEN pending[r] ELSE roles[r].perms

\* What togglePermission and selectGroupPerms make of a set.
Toggled(P) ==
  {(P \ {p}) \cup ({p} \ P) : p \in Perm} \cup {P \cup G : G \in Groups} \cup {P \ G : G \in Groups}

\* The checkboxes are not disabled while a save is under way.
TogglePermission(r) ==
  /\ ~error /\ r \in Listed /\ expanded.of = r /\ Move
  /\ \E P \in Toggled(Effective(r)) \ {Effective(r)} : pending' = [pending EXCEPT ![r] = P]
  /\ UNCHANGED <<row, roles, twice, error, savingId, toggling, deletingId, adding, expanded, call, history>>

\* hasPendingChanges: only then are there a Save and a Discard.
HasPendingChanges(r) == r \in Listed /\ pending[r] # None /\ pending[r] # roles[r].perms

\* Save is disabled for the one role of savingId.
SavePermissions(c, r) ==
  /\ ~error /\ expanded.of = r /\ HasPendingChanges(r) /\ savingId # r /\ Calm
  /\ Ask(c, [Idle EXCEPT !.op = "put", !.of = r, !.perms = pending[r]])
  /\ savingId' = r
  /\ UNCHANGED <<row, roles, twice, error, pending, toggling, deletingId, adding, expanded, history>>

DiscardChanges(r) ==
  /\ ~error /\ expanded.of = r /\ HasPendingChanges(r)
  /\ pending' = [pending EXCEPT ![r] = None]
  /\ Calm
  /\ UNCHANGED <<row, roles, twice, error, savingId, toggling, deletingId, adding, expanded, call, history>>

\* toggleWhitelistGrant, toggleMemberRole: what is asked for is the opposite of what is shown.
ToggleFlag(c, r) ==
  /\ ~error /\ r \in Listed /\ expanded.of = r /\ toggling # r /\ Move
  /\ Ask(c, [Idle EXCEPT !.op = "patch", !.of = r, !.flag = ~roles[r].flag])
  /\ toggling' = r
  /\ UNCHANGED <<row, roles, twice, error, pending, savingId, deletingId, adding, expanded, history>>

HandleRegister(c) ==
  /\ ~error /\ ~adding /\ Move
  /\ Ask(c, [Idle EXCEPT !.op = "post"])
  /\ adding' = TRUE
  /\ UNCHANGED <<row, roles, twice, error, pending, savingId, toggling, deletingId, expanded, history>>

\* Unregister and Cancel.
AskDelete(r) ==
  /\ ~error /\ r \in Listed
  /\ IF deletingId = r THEN deletingId' = None /\ Calm ELSE deletingId' = r /\ Move
  /\ UNCHANGED <<row, roles, twice, error, pending, savingId, toggling, adding, expanded, call, history>>

\* Confirm; the question stays until the answer, and may be put again.
HandleDelete(c, r) ==
  /\ ~error /\ r \in Listed /\ deletingId = r /\ Calm
  /\ Ask(c, [Idle EXCEPT !.op = "delete", !.of = r])
  /\ UNCHANGED <<row, page, history>>

\* `cancelled`, the panel of the role being unmounted: what it asked for is not heard.
Forgotten(q) == IF q.op = "members" THEN Idle ELSE q

\* A role's header opens and closes it.  Opening the first is not counted.
Expand(r) ==
  /\ ~error /\ r \in Listed /\ (IF expanded.of = None THEN Calm ELSE Move)
  /\ expanded' = [of |-> IF expanded.of = r THEN None ELSE r, members |-> None, asked |-> FALSE]
  /\ call' = [o \in Call |-> Forgotten(call[o])]
  /\ UNCHANGED <<row, roles, twice, error, pending, savingId, toggling, deletingId, adding, history>>

\* The effect of the panel.
Mount(c) ==
  /\ ~error /\ expanded.of \in Listed /\ ~expanded.asked
  /\ Ask(c, [Idle EXCEPT !.op = "members", !.of = expanded.of])
  /\ expanded' = [expanded EXCEPT !.asked = TRUE, !.members = None]
  /\ Calm /\ UNCHANGED <<row, roles, twice, error, pending, savingId, toggling, deletingId, adding, history>>

\* useAutoRefresh(refreshRoles), off while anything is pending or a question is open.
Refreshing == pending = Empty /\ deletingId = None
Refresh(c) ==
  /\ Refreshing /\ ~\E o \in Call : call[o].op = "list"
  /\ Ask(c, [Idle EXCEPT !.op = "list"])
  /\ Calm /\ UNCHANGED <<row, page, history>>

\* The layout renews the token: init runs once more, and the panel's effect.
Renew(c) ==
  /\ Move /\ call[c] = Idle
  /\ call' = [o \in Call |-> IF o = c THEN [Idle EXCEPT !.op = "init"] ELSE Forgotten(call[o])]
  /\ expanded' = [expanded EXCEPT !.asked = FALSE]
  /\ UNCHANGED <<row, roles, twice, error, pending, savingId, toggling, deletingId, adding, history>>

\* Other staff: the same requests, from pages of their own (registering apart, which
\* touches no role that is there).
Others(c) ==
  /\ Move
  /\ \/ \E r \in Role, b \in BOOLEAN : Ask(c, [Idle EXCEPT !.op = "patch", !.of = r, !.flag = b, !.by = "staff"])
     \/ \E r \in Role : Ask(c, [Idle EXCEPT !.op = "delete", !.of = r, !.by = "staff"])
     \/ \E r \in Role, P \in SUBSET Perm :
          Ask(c, [Idle EXCEPT !.op = "put", !.of = r, !.perms = P, !.by = "staff"])
  /\ UNCHANGED <<row, page, history>>

-----------------------------------------------------------------------------
(* The api.                                                                *)

There(r) == row[r] \notin {None, Gone}
Found(rs) == [r \in Role |-> IF rs[r] \in {None, Gone} THEN None ELSE rs[r]]

\* Only the page's own calls are answered here.
Ended(c, how, d) ==
  call' = [call EXCEPT ![c] = IF @.by = "staff" THEN Idle ELSE [@ EXCEPT !.at = how, !.data = d]]
Fails(c) == Ended(c, "failed", Empty)
Done(c) == Ended(c, "done", Found(row'))

\* GET /roles and GET /roles/:id/members.
List(c) ==
  /\ call[c].op \in {"init", "list", "members"} /\ call[c].at = "asked"
  /\ UNCHANGED <<row, history>>
  /\ IF call[c].op # "members" THEN Done(c)
     ELSE IF There(call[c].of) THEN Ended(c, "done", Empty) ELSE Fails(c)

Under(r) == {c \in Call : call[c].op = "put" /\ call[c].of = r /\ call[c].at = "cleared"}

\* PUT /roles/:id/permissions: rolePermission.deleteMany.
ClearPerms(c) ==
  LET r == call[c].of IN
  /\ call[c].op = "put" /\ call[c].at = "asked"
  /\ IF ~There(r)
       THEN Fails(c) /\ UNCHANGED <<row, history>>
       ELSE /\ row' = [row EXCEPT ![r].perms = {}]
            /\ call' = [call EXCEPT ![c].at = "cleared"]
            /\ meant' = [meant EXCEPT ![r] = {}]
            /\ mixed' = IF Under(r) = {} THEN mixed \ {r} ELSE mixed \cup {r}

\* createMany: all rows or none; one that is there makes it throw, and so does a role that
\* is gone, unless there is nothing to write.
WritePerms(c) ==
  LET r == call[c].of  P == call[c].perms IN
  /\ call[c].op = "put" /\ call[c].at = "cleared"
  /\ IF P = {} \/ (There(r) /\ P \cap row[r].perms = {})
       THEN /\ row' = IF There(r) THEN [row EXCEPT ![r].perms = @ \cup P] ELSE row
            /\ call' = [call EXCEPT ![c].at = "written"]
            /\ meant' = [meant EXCEPT ![r] = P]
       ELSE Fails(c) /\ UNCHANGED <<row, meant>>
  /\ UNCHANGED mixed

\* findUnique; toDiscordRole throws on a role that is gone.
ReadPerms(c) ==
  /\ call[c].op = "put" /\ call[c].at = "written"
  /\ UNCHANGED <<row, history>>
  /\ IF There(call[c].of) THEN Done(c) ELSE Fails(c)

\* PATCH /roles/:id, one flag.
PatchRole(c) ==
  LET r == call[c].of IN
  /\ call[c].op = "patch" /\ call[c].at = "asked"
  /\ IF There(r) THEN row' = [row EXCEPT ![r].flag = call[c].flag] /\ Ended(c, "done", Empty)
     ELSE Fails(c) /\ UNCHANGED row
  /\ UNCHANGED history

\* POST /roles, without permissions; a Discord role that is mapped already is refused.
CreateRole(c) ==
  /\ call[c].op = "post" /\ call[c].at = "asked"
  /\ \/ Fails(c) /\ UNCHANGED row
     \/ \E r \in Role :
          /\ row[r] = None /\ row' = [row EXCEPT ![r] = [perms |-> {}, flag |-> FALSE]]
          /\ call' = [call EXCEPT ![c].at = "done", ![c].of = r, ![c].data = Found(row')]
  /\ UNCHANGED history

\* DELETE /roles/:id; the permissions go with it.
DeleteRole(c) ==
  LET r == call[c].of IN
  /\ call[c].op = "delete" /\ call[c].at = "asked"
  /\ IF There(r) THEN row' = [row EXCEPT ![r] = Gone] /\ Ended(c, "done", Empty)
     ELSE Fails(c) /\ UNCHANGED row
  /\ UNCHANGED history

Serve(c) ==
  /\ List(c) \/ ClearPerms(c) \/ WritePerms(c) \/ ReadPerms(c) \/ PatchRole(c) \/ CreateRole(c) \/ DeleteRole(c)
  /\ Calm /\ UNCHANGED page

\* The network, the database or the restart of the api: the call ends where it is, its
\* answer lost when it was done.
Breaks(c) ==
  /\ call[c].op # "idle" /\ call[c].at # "failed" /\ Move /\ Fails(c)
  /\ UNCHANGED <<row, page, history>>

-----------------------------------------------------------------------------
(* The page hears the answer.                                              *)

Heard(c, ops) == call[c].op \in ops /\ call[c].at = "done"

\* A panel whose role the list has lost is unmounted; expandedId stays.
Panel(rs) == IF expanded.of # None /\ rs[expanded.of] = None
             THEN [expanded EXCEPT !.members = None, !.asked = FALSE] ELSE expanded

SetRoles(c) ==
  /\ Heard(c, {"init", "list"})
  /\ roles' = call[c].data /\ twice' = {} /\ expanded' = Panel(roles')
  /\ UNCHANGED <<error, pending, savingId, toggling, deletingId, adding>>

\* Nothing ever clears the error of a first load that failed.
LoadFailed(c) ==
  /\ call[c].op \in {"init", "list"} /\ call[c].at = "failed"
  /\ error' = (error \/ call[c].op = "init")
  /\ UNCHANGED <<roles, twice, pending, savingId, toggling, deletingId, adding, expanded>>

\* The answer of a save takes the place of the role, and of all that is pending for it.
Saved(c) ==
  /\ Heard(c, {"put"})
  /\ LET r == call[c].of IN
       /\ roles' = IF r \in Listed THEN [roles EXCEPT ![r] = call[c].data[r]] ELSE roles
       /\ pending' = [pending EXCEPT ![r] = None]
  /\ savingId' = None
  /\ UNCHANGED <<twice, error, toggling, deletingId, adding, expanded>>

\* The flag shown is flipped, whatever it is by then.
FlagSet(c) ==
  /\ Heard(c, {"patch"})
  /\ LET r == call[c].of IN roles' = IF r \in Listed THEN [roles EXCEPT ![r].flag = ~@] ELSE roles
  /\ toggling' = None
  /\ UNCHANGED <<twice, error, pending, savingId, deletingId, adding, expanded>>

\* The new role is appended, listed or not.
Registered(c) ==
  /\ Heard(c, {"post"})
  /\ LET r == call[c].of IN
       /\ roles' = [roles EXCEPT ![r] = call[c].data[r]]
       /\ twice' = IF r \in Listed THEN twice \cup {r} ELSE twice
  /\ adding' = FALSE
  /\ UNCHANGED <<error, pending, savingId, toggling, deletingId, expanded>>

\* Whatever question is open by then is closed.
Deleted(c) ==
  /\ Heard(c, {"delete"})
  /\ roles' = [roles EXCEPT ![call[c].of] = None] /\ twice' = twice \ {call[c].of}
  /\ deletingId' = None /\ expanded' = Panel(roles')
  /\ UNCHANGED <<error, pending, savingId, toggling, adding>>

Refused(c) ==
  /\ call[c].at = "failed" /\ call[c].op \notin {"init", "list"}
  /\ savingId' = IF call[c].op = "put" THEN None ELSE savingId
  /\ toggling' = IF call[c].op = "patch" THEN None ELSE toggling
  /\ adding' = (adding /\ call[c].op # "post")
  /\ UNCHANGED <<roles, twice, error, pending, deletingId, expanded>>

MembersCome(c) ==
  /\ Heard(c, {"members"})
  /\ expanded' = [expanded EXCEPT !.members = call[c].of]
  /\ UNCHANGED <<roles, twice, error, pending, savingId, toggling, deletingId, adding>>

Answer(c) ==
  /\ \/ SetRoles(c) \/ LoadFailed(c) \/ Saved(c) \/ FlagSet(c) \/ Registered(c) \/ Deleted(c)
     \/ Refused(c) \/ MembersCome(c)
  /\ call' = [o \in Call |-> IF o = c THEN Idle
                             ELSE IF expanded'.asked THEN call[o] ELSE Forgotten(call[o])]
  /\ Calm /\ UNCHANGED <<row, history>>

Next ==
  \/ \E r \in Role : TogglePermission(r) \/ DiscardChanges(r) \/ AskDelete(r) \/ Expand(r)
  \/ \E c \in Call, r \in Role : SavePermissions(c, r) \/ ToggleFlag(c, r) \/ HandleDelete(c, r)
  \/ \E c \in Call : HandleRegister(c) \/ Mount(c) \/ Refresh(c) \/ Renew(c) \/ Others(c)
                     \/ Serve(c) \/ Breaks(c) \/ Answer(c)

\* The api serves what it was asked, answers come, effects run, the interval fires.
Fairness ==
  /\ \A c \in Call : WF_vars(Serve(c)) /\ WF_vars(Answer(c))
  /\ WF_vars(\E c \in Call : Mount(c)) /\ WF_vars(\E c \in Call : Refresh(c))

Spec == Init /\ [][Next]_vars /\ Fairness

-----------------------------------------------------------------------------
TypeOK ==
  /\ row \in [Role -> Rows \cup {None, Gone}] /\ roles \in [Role -> Rows \cup {None}]
  /\ twice \subseteq Listed /\ error \in BOOLEAN /\ adding \in BOOLEAN
  /\ pending \in [Role -> (SUBSET Perm) \cup {None}]
  /\ {savingId, toggling, deletingId, expanded.of, expanded.members} \subseteq Role \cup {None}
  /\ call \in [Call -> Calls]
  /\ meant \in [Role -> SUBSET Perm] /\ mixed \subseteq Role /\ moves \in 0 .. MaxMoves

\* Between requests a role has the permissions that the last one asked for, or none when that
\* one was cut short: a mixture of two requests, or one that failed on the other's rows, takes
\* two that overlapped.
RowsAreMeant ==
  \A r \in Role : There(r) /\ Under(r) = {} /\ r \notin mixed => row[r].perms = meant[r]

\* The members shown under a role are that role's, however fast one role is opened after another.
MembersAreOfRole == expanded.members \in {None, expanded.of}

\* A button that is disabled waits for an answer, which comes.
DisabledIsWaiting ==
  LET waiting(op) == \E c \in Call : call[c].op = op /\ call[c].by = "page" IN
  /\ savingId # None => waiting("put")
  /\ toggling # None => waiting("patch")
  /\ adding => waiting("post")

\* Once staff leave things alone, a page that refreshes (nothing toggled, no question open)
\* shows every role once, with the permissions and the flag it has.
RolesPageIsTrue == Refreshing => roles = Found(row) /\ twice = {}
RolesPageSettles == <>[]RolesPageIsTrue
=============================================================================
