------------------------------ MODULE Sessions ------------------------------
(***************************************************************************)
(* Signing in and what it allows: POST /auth/sync (routes/auth.ts) with its *)
(* two-minute answer cache, the JWT it mints, the routes that change what a *)
(* member may do (routes/roles.ts, routes/users.ts), and the layout of the *)
(* web application, which holds the JWT and asks for a new one every two    *)
(* minutes (packages/web, app/(protected)/layout.tsx).                      *)
(*                                                                         *)
(* A permission reaches a page through four copies: the role rows, the call *)
(* that read them, the cached answer, the JWT.  Only the last two have an   *)
(* age that anything looks at.  Time is counted in ages: Tick makes every   *)
(* age grow by one, up to the largest that matters.                        *)
(***************************************************************************)
EXTENDS Naturals

CONSTANTS
  Member,     \* members with a Discord account
  Role,       \* Discord roles mapped in the database
  Perm,       \* permissions
  Call,       \* slots for POST /auth/sync calls in flight; a bound on concurrency
  None,
  TTL,        \* ages at which a cached answer has expired (SYNC_CACHE_TTL_MS)
  Life,       \* and a JWT (setExpirationTime)
  Patience,   \* the longest a call may take
  MaxTrouble  \* bound on changes of rights, on failures and on reloads

ASSUME SessionsAssumption ==
  /\ TTL \in Nat /\ Life \in Nat /\ Patience \in Nat /\ MaxTrouble \in Nat

VARIABLES
  inGuild,  \* inGuild[m]: is m in the Discord guild?
  guild,    \* guild[m]: m's roles on Discord
  grants,   \* grants[r]: the RolePermission rows of role r
  extra,    \* extra[m]: the UserPermission rows of m
  disabled, \* disabled[m]: User.disabled
  edit,     \* PUT /roles/:id/permissions under way
  clearing, \* members whose change is committed and whose cache entry is not cleared yet
  cache,    \* syncCache
  call,     \* POST /auth/sync in flight
  page,     \* page[m]: the state of m's layout
  gone,     \* history: how long ago each role, grant and extra permission was last there
  trouble   \* history: changes, failures and reloads so far

rights == <<inGuild, guild, grants, extra, disabled>>
vars == <<rights, edit, clearing, cache, call, page, gone, trouble>>

-----------------------------------------------------------------------------
Cap == Life + 2 * Patience + TTL + 1
Age == 0 .. Cap
Older(a) == IF a < Cap THEN a + 1 ELSE a

Token == [perms : SUBSET Perm, age : Age]
Answer == [token : Token, age : Age]

\* null is neither an account nor a JWT.
ASSUME NoneAssumption == None \notin Member /\ None \notin Token

Stage == {"idle", "user", "guild", "account", "roles", "rows", "extras", "answer"}
Calling == [at : Stage, who : Member \cup {None}, via : {"init", "poll", "gone"},
            took : Age, roles : SUBSET Role, got : SUBSET Perm, token : Token \cup {None}]
NoCall == [at |-> "idle", who |-> None, via |-> "gone", took |-> 0, roles |-> {},
           got |-> {}, token |-> None]

\* What layout.tsx keeps: synced, syncError, and apiToken with the permissions that
\* came with it.
Layout == [synced : BOOLEAN, error : {None, "disabled", "failed"}, token : Token \cup {None}]
Mounted == [synced |-> FALSE, error |-> None, token |-> None]

Rights(m) == UNION {grants[r] : r \in guild[m]} \cup extra[m]

\* Was permission p, within the last k ticks, an extra of m, or granted by a role that
\* m had within the last k ticks too?
Recent(m, p, k) ==
  \/ gone.extra[m][p] <= k
  \/ \E r \in Role : gone.role[m][r] <= k /\ gone.grant[r][p] <= k

Init ==
  /\ inGuild \in [Member -> BOOLEAN]
  /\ guild \in [Member -> SUBSET Role]
  /\ \A m \in Member : ~inGuild[m] => guild[m] = {}
  /\ grants \in [Role -> SUBSET Perm]
  /\ extra = [m \in Member |-> {}]
  /\ disabled = [m \in Member |-> FALSE]
  /\ edit = [at |-> "idle", role |-> None, perms |-> {}]
  /\ clearing = {}
  /\ cache = [m \in Member |-> None]
  /\ call = [c \in Call |-> NoCall]
  /\ page = [m \in Member |-> Mounted]
  /\ gone = [role |-> [m \in Member |-> [r \in Role |-> IF r \in guild[m] THEN 0 ELSE Cap]],
             grant |-> [r \in Role |-> [p \in Perm |-> IF p \in grants[r] THEN 0 ELSE Cap]],
             extra |-> [m \in Member |-> [p \in Perm |-> Cap]]]
  /\ trouble = 0

-----------------------------------------------------------------------------
(* POST /auth/sync.                                                        *)

Fresh_Always(answer, spent) == TRUE  \* fault: the expiry is never looked at

\* entry.expiry > now, where now was taken `spent` ticks ago, when the call began.
Fresh(answer, spent) == answer.age < TTL + spent

\* The call begins: now is taken, and expired entries are pruned, everybody's.
Begin(c, m, via) ==
  /\ call[c] = NoCall
  /\ call' = [call EXCEPT ![c] = [NoCall EXCEPT !.at = "user", !.who = m, !.via = via]]
  /\ cache' = [n \in Member |->
                 IF cache[n] # None /\ ~Fresh(cache[n], 0) THEN None ELSE cache[n]]
  /\ UNCHANGED <<rights, edit, clearing, page, gone>>

\* What the layout does with an answer: a token, or the error it is given.  Only the
\* effect that runs on mounting ends the loading, and only it shows every error; nothing
\* takes an error away when a later call succeeds.
Receive(c, token, error) ==
  LET q == call[c] IN
  page' = IF q.via = "gone" THEN page
          ELSE [page EXCEPT ![q.who] =
            [synced |-> @.synced \/ q.via = "init",
             error |-> IF error = "disabled" \/ (q.via = "init" /\ error # None)
                       THEN error ELSE @.error,
             token |-> IF token # None THEN token ELSE @.token]]

End(c, token, error) ==
  /\ call' = [call EXCEPT ![c] = NoCall]
  /\ Receive(c, token, error)
  /\ UNCHANGED <<rights, edit, clearing, gone>>

Goto(c, stage) == call' = [call EXCEPT ![c].at = stage]
Untouched == UNCHANGED <<rights, edit, clearing, cache, page, gone, trouble>>

Lookup_Resigns(c) ==  \* fault: a cached answer is signed again
  LET q == call[c] IN
  /\ q.at = "user"
  /\ IF cache[q.who] # None /\ Fresh(cache[q.who], q.took)
       THEN /\ End(c, [cache[q.who].token EXCEPT !.age = 0], None)
            /\ cache' = [cache EXCEPT ![q.who].age = 0, ![q.who].token.age = 0]
            /\ UNCHANGED trouble
       ELSE Goto(c, "guild") /\ Untouched

\* fetchDiscordUser has answered: a cached answer will do while it is fresh.
Lookup(c) ==
  LET q == call[c] IN
  /\ q.at = "user"
  /\ IF cache[q.who] # None /\ Fresh(cache[q.who], q.took)
       THEN End(c, cache[q.who].token, None) /\ UNCHANGED <<cache, trouble>>
       ELSE Goto(c, "guild") /\ Untouched

\* fetchGuildRoles: the roles of a member of the guild; an error for anybody else.
ReadGuild(c) ==
  LET q == call[c] IN
  /\ q.at = "guild"
  /\ IF inGuild[q.who]
       THEN /\ call' = [call EXCEPT ![c].at = "account", ![c].roles = guild[q.who]]
            /\ Untouched
       ELSE End(c, None, "failed") /\ UNCHANGED <<cache, trouble>>

ReadAccount_NotAsked(c) ==  \* fault: the account's state is left to the middleware
  call[c].at = "account" /\ Goto(c, "roles") /\ Untouched

\* The upsert returns the account: a disabled one is refused.
ReadAccount(c) ==
  LET q == call[c] IN
  /\ q.at = "account"
  /\ IF disabled[q.who] THEN End(c, None, "disabled") /\ UNCHANGED <<cache, trouble>>
                        ELSE Goto(c, "roles") /\ Untouched

\* The mapped roles among them, with the permissions they grant now.
ReadRoles(c) ==
  /\ call[c].at = "roles"
  /\ call' = [call EXCEPT ![c].at = "rows", ![c].got = UNION {grants[r] : r \in call[c].roles}]
  /\ Untouched

\* The role rows are rewritten; the answer does not depend on them (see RoleRows).
WriteRows(c) == call[c].at = "rows" /\ Goto(c, "extras") /\ Untouched

\* The extra permissions; the JWT is minted with both.
Mint(c) ==
  LET q == call[c] IN
  /\ q.at = "extras"
  /\ call' = [call EXCEPT ![c].at = "answer",
                          ![c].token = [perms |-> q.got \cup extra[q.who], age |-> 0]]
  /\ Untouched

\* The answer is cached, whatever has been cleared meanwhile, and sent.
Reply(c) ==
  LET q == call[c] IN
  /\ q.at = "answer"
  /\ cache' = [cache EXCEPT ![q.who] = [token |-> q.token, age |-> 0]]
  /\ End(c, q.token, None)
  /\ UNCHANGED trouble

Progress(c) ==
  \/ Lookup(c) \/ ReadGuild(c) \/ ReadAccount(c) \/ ReadRoles(c) \/ WriteRows(c)
  \/ Mint(c) \/ Reply(c)

-----------------------------------------------------------------------------
(* The layout.                                                             *)

Troubled == trouble < MaxTrouble /\ trouble' = trouble + 1
Calm == UNCHANGED trouble

\* The effect of mounting, which is also run again by Retry and by a new session object.
Load(m) ==
  /\ ~page[m].synced /\ page[m].error = None
  /\ ~\E c \in Call : call[c].who = m /\ call[c].via = "init"
  /\ \E c \in Call : Begin(c, m, "init")
  /\ Calm

SessionChanged(m) == page[m].synced /\ Troubled /\ \E c \in Call : Begin(c, m, "init")

\* The interval; an error on the screen does not stop it.
Poll(m) ==
  /\ page[m].token # None
  /\ ~\E c \in Call : call[c].who = m /\ call[c].via = "poll"
  /\ \E c \in Call : Begin(c, m, "poll")
  /\ Calm

Retry(m) ==
  /\ page[m].synced /\ page[m].error = "failed" /\ Troubled
  /\ page' = [page EXCEPT ![m].synced = FALSE, ![m].error = None]
  /\ UNCHANGED <<rights, edit, clearing, cache, call, gone>>

\* The page is loaded anew; what it had asked for is answered to nobody.
Reload(m) ==
  /\ Troubled
  /\ page' = [page EXCEPT ![m] = Mounted]
  /\ call' = [c \in Call |-> IF call[c].who = m THEN [call[c] EXCEPT !.via = "gone"] ELSE call[c]]
  /\ UNCHANGED <<rights, edit, clearing, cache, gone>>

-----------------------------------------------------------------------------
(* What may go wrong, and who may change what.                             *)

\* Discord or the database refuses, or the rate limiter does.
SyncFails(c) ==
  /\ call[c].at # "idle" /\ Troubled
  /\ End(c, None, "failed")
  /\ UNCHANGED cache

\* fetchGuildRoles takes a 401 or a 403 for "no roles".
GuildDenied(c) ==
  /\ call[c].at = "guild" /\ Troubled
  /\ call' = [call EXCEPT ![c].at = "account", ![c].roles = {}]
  /\ UNCHANGED <<rights, edit, clearing, cache, page, gone>>

\* Something that was not there is there, or the other way round; in both cases it was
\* there just now.
Touch(was, is, age) == [x \in DOMAIN age |-> IF x \in was \cup is THEN 0 ELSE age[x]]

SetGuild(m, R, in) ==
  /\ guild' = [guild EXCEPT ![m] = R]
  /\ inGuild' = [inGuild EXCEPT ![m] = in]
  /\ gone' = [gone EXCEPT !.role[m] = Touch(guild[m], R, @)]
  /\ UNCHANGED <<grants, extra, disabled, edit, clearing, cache, call, page>>

\* On Discord, the member is given other roles, joins or leaves.
DiscordChanges(m) ==
  /\ Troubled
  /\ \/ \E R \in SUBSET Role : SetGuild(m, R, TRUE)
     \/ SetGuild(m, {}, FALSE)

SetGrants(r, P) ==
  /\ grants' = [grants EXCEPT ![r] = P]
  /\ gone' = [gone EXCEPT !.grant[r] = Touch(grants[r], P, @)]
  /\ UNCHANGED <<inGuild, guild, extra, disabled, clearing, cache, call, page>>

\* PUT /roles/:id/permissions: the rows are deleted, then the new ones created.  Neither
\* clears the cache.
EditRole(r, P) ==
  /\ edit.at = "idle" /\ Troubled
  /\ edit' = [at |-> "delete", role |-> r, perms |-> P]
  /\ UNCHANGED <<rights, clearing, cache, call, page, gone>>

EditDelete ==
  /\ edit.at = "delete"
  /\ SetGrants(edit.role, {})
  /\ edit' = [edit EXCEPT !.at = "create"]
  /\ Calm

EditCreate ==
  /\ edit.at = "create"
  /\ SetGrants(edit.role, edit.perms)
  /\ edit' = [at |-> "idle", role |-> None, perms |-> {}]
  /\ Calm

\* The second statement fails: the role is left without permissions.
EditFails ==
  /\ edit.at = "create" /\ Troubled
  /\ edit' = [at |-> "idle", role |-> None, perms |-> {}]
  /\ UNCHANGED <<rights, clearing, cache, call, page, gone>>

\* POST /roles creates the mapping with its permissions in one statement.
CreateRole(r, P) == grants[r] = {} /\ Troubled /\ SetGrants(r, P) /\ UNCHANGED edit

\* DELETE /roles/:id takes the permissions along; an edit under way has nothing left to
\* write to.
DeleteRole(r) ==
  /\ Troubled
  /\ SetGrants(r, {})
  /\ edit' = IF edit.role = r THEN [at |-> "idle", role |-> None, perms |-> {}] ELSE edit

\* PUT /users/:id/extra-permissions commits, and clears the cache when it has the answer.
SetExtra(m, P) ==
  /\ Troubled
  /\ extra' = [extra EXCEPT ![m] = P]
  /\ gone' = [gone EXCEPT !.extra[m] = Touch(extra[m], P, @)]
  /\ clearing' = clearing \cup {m}
  /\ UNCHANGED <<inGuild, guild, grants, disabled, edit, cache, call, page>>

\* PATCH /users/:id/status and POST /users/bulk-disable: the same; enabling clears nothing.
SetDisabled(m, b) ==
  /\ disabled[m] # b /\ Troubled
  /\ disabled' = [disabled EXCEPT ![m] = b]
  /\ clearing' = IF b THEN clearing \cup {m} ELSE clearing
  /\ UNCHANGED <<inGuild, guild, grants, extra, edit, cache, call, page, gone>>

ClearSyncCache(m) ==
  /\ m \in clearing
  /\ clearing' = clearing \ {m}
  /\ cache' = [cache EXCEPT ![m] = None]
  /\ UNCHANGED <<rights, edit, call, page, gone>> /\ Calm

Staff ==
  \/ \E m \in Member : DiscordChanges(m) \/ \E P \in SUBSET Perm : SetExtra(m, P)
  \/ \E m \in Member, b \in BOOLEAN : SetDisabled(m, b)
  \/ \E r \in Role, P \in SUBSET Perm : EditRole(r, P) \/ CreateRole(r, P)
  \/ \E r \in Role : DeleteRole(r)
  \/ EditFails

StaffContinues == EditDelete \/ EditCreate \/ \E m \in Member : ClearSyncCache(m)

-----------------------------------------------------------------------------
AgeAnswer(a) == IF a = None THEN None ELSE [token |-> [a.token EXCEPT !.age = Older(@)],
                                            age |-> Older(a.age)]
AgeToken(t) == IF t = None THEN None ELSE [t EXCEPT !.age = Older(@)]

\* Time passes; no call has already taken as long as it may.
Tick ==
  /\ \A c \in Call : call[c].at # "idle" => call[c].took < Patience
  /\ call' = [c \in Call |-> IF call[c].at = "idle" THEN call[c]
                ELSE [call[c] EXCEPT !.took = @ + 1, !.token = AgeToken(@)]]
  /\ cache' = [m \in Member |-> AgeAnswer(cache[m])]
  /\ page' = [m \in Member |-> [page[m] EXCEPT !.token = AgeToken(@)]]
  /\ gone' =
       [role |-> [m \in Member |-> [r \in Role |->
                    IF r \in guild[m] THEN 0 ELSE Older(gone.role[m][r])]],
        grant |-> [r \in Role |-> [p \in Perm |->
                    IF p \in grants[r] THEN 0 ELSE Older(gone.grant[r][p])]],
        extra |-> [m \in Member |-> [p \in Perm |->
                    IF p \in extra[m] THEN 0 ELSE Older(gone.extra[m][p])]]]
  /\ UNCHANGED <<rights, edit, clearing>> /\ Calm

Next ==
  \/ \E c \in Call : Progress(c) \/ SyncFails(c) \/ GuildDenied(c)
  \/ \E m \in Member : Load(m) \/ SessionChanged(m) \/ Poll(m) \/ Retry(m) \/ Reload(m)
  \/ Staff \/ StaffContinues \/ Tick

Safety == Init /\ [][Next]_vars

\* Statements run to their end, the browser's timers fire, time passes.  Nobody has to
\* change anything, to reload a page or to press Retry.
Fairness ==
  /\ \A c \in Call : WF_vars(Progress(c))
  /\ \A m \in Member : WF_vars(Load(m)) /\ WF_vars(Poll(m)) /\ WF_vars(ClearSyncCache(m))
  /\ WF_vars(EditDelete) /\ WF_vars(EditCreate) /\ WF_vars(Tick)

Spec == Safety /\ Fairness

-----------------------------------------------------------------------------
(* What must hold.                                                         *)

\* Every variable has the type its declaration states; an idle call holds nothing.
TypeOK ==
  /\ inGuild \in [Member -> BOOLEAN] /\ guild \in [Member -> SUBSET Role]
  /\ grants \in [Role -> SUBSET Perm] /\ extra \in [Member -> SUBSET Perm]
  /\ disabled \in [Member -> BOOLEAN]
  /\ edit \in [at : {"idle", "delete", "create"}, role : Role \cup {None}, perms : SUBSET Perm]
  /\ edit.at # "idle" => edit.role \in Role
  /\ clearing \subseteq Member
  /\ cache \in [Member -> Answer \cup {None}]
  /\ call \in [Call -> Calling]
  /\ \A c \in Call : /\ call[c].at = "idle" <=> call[c].who = None
                     /\ call[c].at = "answer" <=> call[c].token # None
                     /\ call[c].took <= Patience
  /\ page \in [Member -> Layout]
  /\ gone \in [role : [Member -> [Role -> Age]], grant : [Role -> [Perm -> Age]],
               extra : [Member -> [Perm -> Age]]]
  /\ trouble \in Nat

\* A JWT is believed for its whole life, whatever becomes of the member's rights.  What it
\* allows was granted to the member no longer ago than that life and one call: neither the
\* cache, nor a call that overlaps with a change, nor a role edit half done adds to it.
RightsExpire ==
  \A m \in Member : page[m].token # None /\ page[m].token.age < Life
    => \A p \in page[m].token.perms : Recent(m, p, Life + Patience)

\* What POST /auth/sync answers is more recent than that: whatever it allows was granted
\* within the cache's time and two calls (the one that filled the cache, the one that
\* found it filled), also when the cache was cleared before it was filled.
AnswersAreRecent ==
  [][\A m \in Member : page'[m].token # None /\ page'[m].token # page[m].token
                         /\ page'[m].token # AgeToken(page[m].token)
       => \A p \in page'[m].token.perms : Recent(m, p, TTL + 2 * Patience)]_vars

\* Once rights and Discord stay as they are, an open page comes to show exactly what its
\* member may do, or shows an error; a disabled member's page shows one.  (The poll passes
\* over NOT_IN_GUILD: whoever left the guild, disabled or not, keeps the page as it was.)
PagesSettle ==
  \A m \in Member : <>[](page[m].token # None =>
    \/ page[m].error # None
    \/ inGuild[m] => ~disabled[m] /\ page[m].token.perms = Rights(m))
=============================================================================
