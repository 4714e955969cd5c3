# Verification of the Royal Battalion web page

TLA+ models of the parts of this repository whose correctness depends on order,
interleaving or failure; the TLC runs that check them on small instances; and TLAPS
proofs of what matters most, for every instance. Paths below are relative to
`src/packages/api/src/` unless they say otherwise; `page.tsx` files are under
`src/packages/web/app/(protected)/`.

Contents: [the system](#the-system) · [the modules](#the-modules) ·
[sums](#modules-checked-side-by-side) ·
[the runs](#the-runs) · [fairness and deadlock](#fairness-and-deadlock) ·
[what the runs refute](#what-the-runs-refute) · [the proofs](#the-proofs) ·
[what is not modelled](#what-is-not-modelled) · [what could come next](#what-could-come-next)

## The system

The api is one Bun process. Handlers of HTTP requests, WebSocket messages, socket.io
events and timers run on one event loop, so what lies between two `await`s is atomic
and anything may run during an `await`. It keeps its records in MariaDB (Prisma),
mirrors in memory what the game servers' SquadJS instances report, and writes one
`Admins.cfg` per game server over SFTP. The browser's pages talk to it over HTTP and
two WebSockets. A Discord bot, SquadJS, the game servers and three more databases
(secretary, SquadJS, GitHub's configuration repository) are outside the repository.

| component | state | operations | meets others by |
|---|---|---|---|
| Whitelist routes (`routes/whitelist.ts`) | `WhitelistEntry` rows | add, bulk add, edit, bulk update, repoint, delete, dismiss, restore | reads members' Steam IDs; starts deploys |
| Member routes (`routes/users.ts`) | `User` rows | disable, enable, delete, link a Steam ID, edit | rewrites whitelist rows (`relinkWhitelistEntries`, `applyUserStatus`); starts deploys |
| Sign-in and sessions (`routes/auth.ts`, `middleware/auth.ts`, web `layout.tsx`) | two-minute answer cache, role rows, JWTs | sync, check of every request, renewal | creates members; cache cleared by member routes |
| Roles (`routes/roles.ts`, `lib/role-sync.ts`) | `DiscordRole`, `UserRole`, `RolePermission` | map, mark, set permissions, synchronise | a JWT carries what they said |
| Background jobs (`lib/bootstrap.ts`, `lib/prospect-profile-backfill.ts`, `lib/eos-backfill.ts`) | the rows they write | timers, no overlap guard | write members beside the routes |
| SFTP deploy (`lib/sftp-deploy.ts`, `lib/cfg-generator.ts`) | deploys in flight, remote files | read configuration, read rows, connect, put | started by handlers, never awaited |
| Server configuration (`routes/server-config.ts`) | `ServerConfig` rows | create, edit, switch sync, delete | read by deploys |
| SquadJS link (`lib/squadjs-socket.ts`) | `ServerState` per game server, connection, watchdog, timers | events, initial requests, poll, reconnect | feeds the relay |
| Live-server relay (`ws/live-server.ts`) | subscription of each socket | snapshot, relay, switch_server | sends the mirror's changes to pages |
| Live-server page (`live-server/page.tsx`, `handle-game-event.ts`) | what it shows, its tab | receive, switch tab, reconnect | has a socket of its own |
| RCON commands (`ws/live-server.ts`, `executeRcon`) | `lastRcon`, audit rows | one to many commands per request | share the link and the socket's subscription |
| Presence (`ws/presence.ts`, `hooks/use-presence.ts`) | set of sockets | join, navigate, hide, leave | broadcast whole |
| Lobby service (`packages/lobby-service`) | Steam client, EOS token, refresh and retry timers, server cache | log on, exchange, retry, create a lobby | called by the api |
| Match history (`lib/match-sync.ts`, `lib/match-assembler.ts`, `routes/matches.ts`) | `Match` rows | pass, edit, delete, resync; assembly is a pure function | reads SquadJS's database |
| Giveaway (`routes/giveaway.ts`) | rows of the secretary database | start, draw, end, cancel, adjust tickets | executed by the bot |
| Prospects (`routes/prospects.ts`) | settings, cooldowns, extensions | patch, create, pause, extend | read by the bot |
| Temporary voice (`routes/discord-bot/tempvoice.ts`) | presets, pending actions | save, apply to live channels | executed by the bot |
| SquadJS configuration (`routes/squadjs-config.ts`, `lib/github-config.ts`, page) | a file on GitHub | read, edit, merge, write with `sha` | edited by several staff |
| Whitelist, members pages (`whitelist/page.tsx`, `members/page.tsx`) | lists, an open profile, a form, ticked rows | load, refresh, click | HTTP answers that arrive in any order |
| Pages that list rows (tickets, audit log, logs, matches, Discord users, API tokens, ...) | a filter, a page, rows, an open row | filter, turn, refresh, edit, delete | each route answers two queries; others write the rows |
| Rate limits, statistics, live status | counters, read-only queries | check, count | nothing modelled depends on them |

Where it is hard:

* **Statements in sequence, no transaction.** Most handlers read, await, and write
  what they concluded: `findUserIdForSteam` then `create`, `user.update` then two
  `updateMany` of a relink, `deleteMany` then `createMany` of role rows, a preset that is
  read, merged and written. Other handlers run between.
* **Fire and forget.** `deployInBackground` returns at once. Deploys overlap, nothing
  orders them, a failing one is logged and not retried, and its loop ends.
* **Copies of copies.** SquadJS's list is mirrored in the api and again in each page,
  over two connections that fail independently. A permission passes from a role row to a
  cached answer to a JWT to a page.
* **Answers nobody waits for any more.** No page cancels a request: an answer arrives
  after the server, the profile or the environment it was about has been left.
* **State read after an await.** A socket's subscription changes while a command is
  under way; a timer of an old connection fires into a new one; a closure of a React
  render gives back the profile that was open when it was made.
* **Two systems over one table.** The bot carries out what the api has queued, in its
  own time, and changes the same rows unasked.

What makes the modelled components correct, in a line each:

* whitelist: a row belongs to nobody, or to somebody who has held its Steam ID;
  disabling removes every row the member owned; only enabling revives what disabling
  removed, and for the member it was removed from; what a handler changes of a server's
  list it deploys, but for bulk-update's rows on servers other than its sample's;
* deploy: a file that is out of date is about to be refreshed, or a named cause has
  struck; a deploy carries at least the change that asked for it;
* both: a disabled member's row leaves the game, or a named cause has struck;
* requests: what the tab and the badge show ends up as the database has it, and a
  dismissal acts on one server alone;
* sessions: a permission that was taken away is gone from every JWT after a bounded
  time; a page's rights, and the role rows, settle to what Discord and the database say;
* link: the api's list never goes back; after the last failure the api catches up, also
  after a connection that died unnoticed;
* live page: what it shows is the mirror of its subscription, its subscription is its tab;
* commands: no audit row without a sending; no repetition within the window;
* lobby service: a connection that stays has a valid token again and again;
* matches: every finished match is stored once, with the result of its own round, and
  staff's edits are kept; kills and scores go to the squad and side of the moment;
* bot tables: concurrent changes of settings, bonuses and extensions are all kept;
* pages: what is shown ends up true, a form acts on the record it was opened for.

## The modules

| module | models | state in the code |
|---|---|---|
| `MemberWhitelist` | `routes/whitelist.ts`, the parts of `routes/users.ts` and of the background jobs that touch `User.steamId`, `User.disabled` or whitelist rows | `user`, `entry`: rows; `call`: handlers in flight with their local variables; `fired`: arguments of `deployInBackground` in the last step |
| `SftpDeploy` | `lib/sftp-deploy.ts`, `lib/cfg-generator.ts`'s read, `routes/server-config.ts` | `config`: `ServerConfig` rows; `job`: calls of `triggerSftpDeploy`; `file`: remote files; `live`: what a generation would list now |
| `WhitelistDeploy` | the two above, composed: `live` becomes the whitelist table, and a handler's `fired` starts jobs | |
| `WhitelistRequests` | candidates and dismissals (`routes/whitelist.ts`, `shared/whitelist-candidates.ts`), the Requests tab of `whitelist/page.tsx`, the sidebar's badge of `layout.tsx` | `eligible`, `entry`, `dismissed`: rows; `list`, `badge`: what is shown; `fetch`, `count`: requests under way |
| `EntriesTab` | the Entries tab of `whitelist/page.tsx` with its modal, bulk dialog, add form and import | `row`; `entries`, `selected`, `form`, `confirm`, `ticked`, `dialog`, `importing`: states of the page; `call`: requests under way with what their closure holds |
| `MemberDesk` | `members/page.tsx`: list, profile with form and questions, bulk dialog, role sync | `row`; `users`, `selected`, `form`, `deleting`, `disabling`, `ticked`, `bulkAction`; `call` |
| `PluginEditor` | `squadjs-config/page.tsx`, `routes/squadjs-config.ts`, `lib/github-config.ts` | `file`: on GitHub, standing for its sha; `plugins`, `original`, `activeEnv`, `showDiff`; `call`: with the two readings of the route |
| `RoleDesk` | `roles/page.tsx` with `RoleMembersPanel.tsx`, `routes/roles.ts` statement by statement | `role`: rows; `roles`, `pending`, `savingId`, `toggling`, `deletingId`, `adding`, `expanded`; `call` |
| `ListPages` | seventeen pages and tabs that list rows (tickets, audit log, the bot's messages, logs, timeouts and tickets, matches, Discord users, applications, cooldowns, mentors, seeding, API tokens, the lobby service, past giveaways) and the routes that answer them | `page`: which of them, as a record of what its code does (numbers its requests, puts the page back, refreshes, keeps details) and offers (`acts`); `row`; `view`, `shown`, `open`, `kept`, `detail`, `editing`; `call` |
| `Sessions` | `POST /auth/sync`, its cache, the JWT, the routes that change rights, `layout.tsx` | `cache`: `syncCache`; `call`; `page`: the layout's JWT; ages in place of clocks |
| `RoleRows` | the two writers of `UserRole`: sign-in and `syncAllUserRoles` | `rows`, `known`, `marked`; `sign`, `job`: with what each has read |
| `Presence` | `ws/presence.ts`, `use-presence.ts` | `socket`, `clients`: `presenceClients`; `given`: the path an effect captured; `roster`: what a page shows |
| `LiveMirror` | abstract: the steps that change `ServerState`, with lists as version numbers | `mirror` |
| `SquadLink` | `lib/squadjs-socket.ts`: connection, watchdog, requests, poll, events; implements `LiveMirror` | `line`, `asks`, `wire`, `quiet`, `mirror` |
| `SquadInfo` | the collection of `serverInfo`, its fallback timer and the metric interval | `answers`, `published`, `timer`, `info`, `sampling` |
| `LivePage` | `ws/live-server.ts`'s relay and the browser's page, built on `LiveMirror` | `sub`: `ws.data.serverKey`; `tab`, `shown`: the page's state; `inbox`, `outbox`: messages under way |
| `RconDesk` | RCON commands: `executeRcon` and the handlers over it | `lastRcon`, `view`: `ws.data.serverKey`, `call`, `log`: audit rows |
| `LobbyService` | `packages/lobby-service`: log-on, EOS chains, discovery, lobbies; `routes/lobby.ts` | `steamClient`, `steamConnected`, `steamConnecting`, `serverCache`; `lib`: the Steam library; `chain`: one per log-on |
| `MatchSync` | `lib/match-sync.ts`, `routes/matches.ts`, the winner of `lib/match-assembler.ts` | `stored`: `Match` rows; `pass`, `resync`: under way, with the matches still to do (`todo`, taken in any order: the property speaks of each alone) and the one at hand (`now`) |
| `MatchDetail` | `lib/match-assembler.ts`, `lib/match-squad-utils.ts` as a function of the rows a round leaves; the round is a state machine that writes them | `combat`, `creations`, `spawned`, `board`: SquadJS's tables |
| `Giveaway` | `routes/giveaway.ts`, `shared/giveaway-math.ts`; the bot is external | `giveaways`, `entries`, `channel`; `pending`: `pending_actions`; `req` |
| `ProspectDesk` | the settings, cooldowns, pauses and extensions of `routes/prospects.ts` | `config`, `cooldown`, `paused`, `extra`, `logged`: rows; `call` |
| `TempVoice` | `routes/discord-bot/tempvoice.ts`; the bot is external, and opens a channel under an id once (`Gone`: it is closed for good) | `preset`, `live`, `pending`; `call` |

`LiveMirror` is the abstract specification of what the link does (`ImplementsMirror` in
`SquadLink`). A page can therefore be checked against `LiveMirror`'s few steps and still
be told the truth about the link. `WhitelistDeploy` takes `SftpDeploy`'s own actions for
its deploys, with what `generateAdminsCfg` would read from the table in the place of
`live`; that it therefore takes steps of `SftpDeploy` is no result, and the properties of
the composition are about what the two do to each other.

Conventions:

* One awaited database statement, or one `$transaction`, is one step; the code between
  two awaits goes with the statement before it. A handler of one statement is one
  action; a handler of several is a record in `call` (or `req`, `pass`, `job`), with the
  step it is `at`. In the modules of pages a call is served in one step and answered in
  another, so that answers overtake each other.
* A list, a text or a payload is a model value, a set of ids or a version number.
  `Admins.cfg` is the set of Steam IDs that it lists; a file on GitHub is its contents.
* Time is not measured in `MemberWhitelist`: an expiry is `"never"`, `"ahead"` or
  `"past"`, and `Expire` moves a row on; no handler runs then, and the row stays in the
  file until the next deploy of its server. `RconDesk` counts seconds in coarse units,
  `Sessions` ages, `LobbyService` ticks.
* History variables, on which no handler depends: `by`, `late`, `held` (who made a row
  dormant; rows attached to members already disabled; Steam IDs members have held),
  `reverted`, `owed` (owned rows that an edit gave back the Steam ID it had read; what a
  change of a server's list still waits for),
  `ver`, `put`, `excused` (versions of a server's list and of its file; whether a named
  cause of staleness has struck), `sent`, `ran` (commands sent and run), `gone`, `missed`,
  `given`, `overlapped`, `doubled`, `lost`, `wanted`, `mixed`, `tally`, `from`, `twice`,
  `meant`, `suspect`, `blurred`.
* An operator named `X_Something` with the comment "fault" is a plausible mistake in
  `X`, the definition below it: a missing guard, a swapped order, a forgotten deploy.
  No specification uses it. Each property of a passing run fails when `X` is given the
  body of one of these; `PROJECT.json` pairs them.

## Modules checked side by side

Components that share no state are checked in one run. The module of such a run
(`MCLive`, `MCBackground`, `MCAccounts`, `MCPages`, `MCRecords`, `MCMemberWhitelist`)
takes its components by `INSTANCE`, and a variable `part`, chosen at the start, says
which of them moves; the others stay in one fixed initial state. The states reached are
the sum, not the product, of what the components reach alone, and a property speaks of
its part: `part = "tab" => ...`, or an action property over the component's own
variables, which no step of another part changes. Fairness is
`WF_v(part = x /\ A)` for each fair action `A` of part `x` with variables `v`. In the
same way `MCSftpDeploy` chooses at the start (`staffed`) between several servers whose
configuration stands still and one whose configuration staff change.

## The runs

`tlc -workers 2 -config X.cfg M` for each row; every one ends within four minutes. In
the modules with SYMMETRY, only ids that no definition names are symmetric, and no
liveness is checked under it.

| run (module, configuration) | shows | bounds, and why they are enough |
|---|---|---|
| `whitelist` (`MCMemberWhitelist`, `MCMemberWhitelist_whitelist`) | part `races`: `OwnerHeldSteamId`, `DisabledOwnsOnlyLateRows`, `OnlyEnableRevives`, `RestoresItsOwn`, `EveryListChangeIsDeployed` with two handlers interleaved and the backfill job; part `serial`: one multi-statement handler at a time and no prospect database, where in addition rows and members always agree (`RowsFollowMembers`, which repeats the last one over several servers) | races: two handlers contend for one row; of members, Steam IDs and a row with an expiry, `MaxAtOnce = 3` at a time: two members over one Steam ID, one member with two, or one of each with an expiry. Serial: two members, one of them protected, two Steam IDs, servers and rows, bulk requests of two: enough to swap Steam IDs, to move a row from one member to the other, and for a bulk request to touch rows of both members and of both servers |
| `deploy` (`MCSftpDeploy`, `MCSftpDeploy_deploy`) | `StaleIsAccounted`, `CarriesItsChange`, `FileIsLive` with deploys overlapping and one failing query or upload, and while staff create, switch and delete configurations | two servers, so that a failure on the first keeps the second from its deploy; two deploys, so that an older one overtakes; every kind of configuration, and the environment's target in use |
| `reaches` (`MCWhitelistDeploy`, `WhitelistDeploy_reaches`) | `PulledRowsLeaveTheGame`; whatever the handlers did last reaches the server, or a named cause has struck (`WhitelistReachesServers`, liveness) | one row added, disabled, enabled; two deploys; one failure |
| `live` (`MCLive`, `MCLive_live`) | commands (`AuditedWasSent`, `SpacedOut`, `HandlersEnd`), sampling after every reconnect (`SamplesAgain`), the page (`PageMirrors`, `SwitchesArrive`, `PagesCatchUp`) | one admin with two requests in flight on two servers, a squad move of two commands, refusals, timeouts, one link failure; `CleanAt = 0` makes the clean-up run on every command and `Keep = Window` makes it forget as early as it may. Three fields of the information, four connections. Two servers, one switch, one lost socket, three changes of the mirrors, four messages under way; pages share nothing but the mirror: one is enough |
| `background` (`MCBackground`, `MCBackground_background`) | the link (`ImplementsMirror`, `QueueInSync`, `LinkConverges`), the lobby service (`ServersFollow`, with what its flags say), the match history (`ResultIsOwn`, `EditsStay`, `MatchesAreListed`) | the list and the queue change twice around two link failures, two messages of a poll's backlog; two log-ons and clients, one lost connection, one failed exchange, one reconnect asked for, one discovery; two matches, two passes at a time, one thing done by staff, both writers of the winner column. Game servers share nothing in `SquadLink`: one is enough |
| `accounts` (`MCAccounts`, `MCAccounts_accounts`) | `RightsExpire`, `AnswersAreRecent`, `PagesSettle`, `RolesSettle`, `RosterIsTrue` | one role, permission and member with two sign-ins in flight and two changes or failures: the second change falls on any statement of a sign-in that the first has overtaken. Two members with two sign-ins and two runs of the synchronisation. One developer with two paths and two moves |
| `pages` (`MCPages`, `MCPages_pages`) | requests (`RequestsSettle`, `ActsPerServer`), entries, roles and lists (`PagesMatch`), and that lists, profiles, plugins and roles settle to what is stored (`ShownIsTrue`) | two servers, members, entries, roles or environments, two calls in flight: one answer that another overtakes; two or three clicks. The pages of lists: two rows on pages of one, so that a deletion empties the last page; of the two filters the narrower finds one row; two moves, shared by the user, failures and the others who write |
| `records` (`MCRecords`, `MCRecords_records`) | `DetailIsTrue`; `LiveFollows`, `SettingsKept`; `BonusAddsUp`; `ConfigIsValid`, `ExtensionsAddUp` | a round of three steps of two players over two squad numbers, one of them with the name that a nameless squad is given; two requests in flight, two channels and two steps of the bot's own for voice, where requests may be renamed (`SYMMETRY CallSymmetry`); one person, two giveaways, four adjustments; two settings that restrict each other, two requests, one failing statement |
| `overtaken` (`MCWhitelistDeploy`, `WhitelistDeploy_overtaken`) | counterexample, below | two deploys, none fails |
| `desk_server` (`MCRconDesk`, `RconDesk_server`) | counterexample, below | two requests, time for one answer |
| `lobby_relogin` (`LobbyService`, `LobbyService_reconnect`) | counterexample, below | two reconnects asked for, nothing fails |
| `members_form` (`MemberDesk`, `MemberDesk_form`) | counterexample, below | two members, two calls, two clicks |

`Max...` constants bound what has no bound in the code: changes of a list
(`MaxVersion`, `MaxRoster`, `MaxFlips`, `MaxNews`, `MaxChanges`), what races at once (`MaxAtOnce`), failures (`MaxFail`,
`MaxFails`, `MaxErrors`, `MaxDrops`, `MaxConnDrops`, `MaxPageDrops`), connections
(`MaxConn`), what people do (`MaxRequests`, `MaxSwitches`, `MaxMoves`, `MaxClicks`,
`MaxSteps`, `MaxEdits`, `MaxToggles`, `MaxTurns`, `MaxCalls`, `MaxPosts`, `MaxStaff`, `MaxAdjustments`), what the
bot does unasked (`MaxBot`, `MaxEarned`), both together (`MaxTrouble`), messages under
way (`MaxWire`, `MaxInbox`), the clock (`MaxTime`). `BulkMax` bounds the rows of one bulk
request; `Call`, `Job`, `Fetch`, `Count`, `AskId`, `Req`, `Request`, `Slot`, `Pass`,
`Login`, `Client`, `Loop` and `Lobby` are slots that bound how much is in flight.
The proofs need none of these bounds to be small.

Some constants stand for the code's own settings and are not bounds: `Protected`
(ADMIN_DISCORD_IDS), `SecretaryDb` (is the prospect database configured), `EnvCreds`,
`EnvSync` and `Kinds` (how uploads are configured), `Window`, `Keep`, `Patience` and
`CleanAt` (2 s, 5 s, 10 s and 50 entries in `executeRcon`), `TTL` and `Life` (the two
minutes of an answer and the age of a JWT, in ages), `Developers` (who may hide).

## Fairness and deadlock

Only what the event loop, a timer or a library drives is fair, and weakly: the next
statement of a handler, a job or a deploy (an SFTP call ends, one way or the other, by
ssh2's timeouts), a request's service and answer, the pages' refresh intervals (20 s,
two minutes), socket.io's reconnect, which is unbounded, SquadJS's answers, delivery on
an open connection, the watchdog, the poll, the page's reconnect after three seconds, the
ten-second timers, the lobby service's retry and refresh timers and its library's events,
the fifteen-minute pass over the matches. No person, no bot and no failure is fair: nobody
has to edit, press or switch, and links, sockets and uploads need not fail. Liveness is
therefore of the form `<>[]`: every failure and every edit is bounded, and after the last
one the copies agree. (`ServersFollow` is `[]<>` for a service whose connection stays.)

`CHECK_DEADLOCK FALSE` stands where a bound ends the behaviour: when lists have had
their changes, the clock has run out, or clicks, calls and connections are used up.
The runs `whitelist` and `deploy` are checked for deadlock.

## What the runs refute

Four configurations listed in `PROJECT.json` end in a counterexample:

* `overtaken`, `DisabledOutOfGame`. "Disabling a member immediately removes their
  in-game whitelist" (`src/docs/superpowers/plans/2026-06-17-member-disable-removes-whitelist.md:5`).
  A deploy generates the file and only then connects (`lib/sftp-deploy.ts:53, 60`), and
  nothing orders deploys. One that read the rows before the disabling uploads after the
  one that the disabling fired: both succeed, nothing is left to run, and the member is
  in the file until the next deploy of that server.
  `StaleIsAccounted` and `PulledRowsLeaveTheGame` say that this, a failed upload,
  a failing query, a change that started no deploy at once and a changed configuration
  are the only causes.
* `desk_server`, `AuditNamesServer`. `rconAudit` reads `ws.data.serverKey` after the
  command's answer (`ws/live-server.ts:26`); a `switch_server` meanwhile makes the row
  name another server, with that server's layer and player count.
* `lobby_relogin`, `WillReconnect`. `reconnectSteam` (`lobby-service/src/auth.ts:161`)
  drops a client whose log-on is under way, and `connectSteam` returns at once while
  `steamConnecting` is set (118): nothing clears the flag, and no later reconnect connects.
* `members_form`, `FormKeepsMember`. A refresh that was asked for before a form was
  opened gives back the profile that was open then (`members/page.tsx:239`); Save would
  write the form of one member to the other. The interval pauses while a form is open,
  the request under way does not.

Other statements of documents, comments or of what a reader expects are refuted by a
configuration to look at the trace with, which is no listed run:

| configuration (module) | refutes | by |
|---|---|---|
| `MemberWhitelist_refuted` (`MemberWhitelist`), as it stands | `SafeToRestore` | a dormant row that is repointed or relinked ends with a member who was never disabled (`routes/whitelist.ts:799`) |
| the same, with `INVARIANT NothingSkipped` in its place | `NothingSkipped` | a bulk-update changes the expiry of rows on two servers and deploys the server of one (`routes/whitelist.ts:689`, `694`); the other's file keeps or lacks them until something else deploys it |
| the same, with `INVARIANT LinksInSync` and `SecretaryDb = TRUE` | `LinksInSync` | role sync (`lib/role-sync.ts:151`) and prospect backfill give members Steam IDs without relinking rows |
| the same, with `INVARIANT OwnerAlwaysHeld`, `Call = {c1, c2}`, `Server = {main}` and `Entry = {e1}` | `OwnerAlwaysHeld` | an edit whose body repeats the Steam ID that it read writes it again (`routes/whitelist.ts:802`) and leaves the owner alone (795); a repoint in between has given the row an owner of another Steam ID |
| `LivePage_refuted` (`LivePage`) | `TabIsSubscribed` | the page restores a stored tab without a `switch_server` (`live-server/page.tsx:258`) |
| the same, its second property | `PillHasCause` | the answer of `getBalanceStatus` updates the mirror and is not broadcast (`lib/squadjs-socket.ts:350`), and a `null` status in a snapshot does not clear the pill (`live-server/page.tsx:274`) |
| `RconDesk_server` (`MCRconDesk`), with `INVARIANT EveryActionLogged` in the place of its own | `EveryActionLogged` | the loop of `switchsquad` leaves at the first failing player, before its audit row (`ws/live-server.ts:241`); a command also runs after its timeout |
| `SquadInfo_fallback` (`SquadInfo`) | `CompleteInfoStays` | the ten-second timer of a dead connection replaces a complete `serverInfo` (`lib/squadjs-socket.ts:317`) |
| `ProspectDesk_stacked` (`ProspectDesk`) | `OneActiveCooldown` | two transactions that both find no active cooldown both insert one: the `SELECT` does not lock |
| the same, with `INVARIANT SavedIsRead` in its place | `SavedIsRead` | a zero is a valid number of hours and is stored; reading the row takes the default instead (`routes/prospects.ts:244`) |
| `MatchDetail` alone, with the round's constants of `MCRecords_records` and `INVARIANT FactionsKept` | `FactionsKept` | of the factions that created squads the first goes to team 1 if the snapshot has none for it, though it may be team 2's (`lib/match-assembler.ts:405`) |
| `EntriesTab_import` (`EntriesTab`) | `ImportsWhereOpened` | a renewed token loads the page anew with its first server while the import dialog is open (`whitelist/page.tsx:150`) |
| `PluginEditor_refuted` (`PluginEditor`) | `CommitsToItsEnvironment` | a list that arrives for the environment before the switch is edited and put into the other one's file |
| the same, its second property | `EditsStay` | a refresh asked for before an edit replaces the list under it |
| the same, its third property | `SaveMergesPlugins` | the whole list is put, and the sha is read just before the put, so it does not protect what was read first (`lib/github-config.ts:122`) |

## The proofs

`tlapm M.tla` checks each module below from nothing. What is assumed is what the modules
assume of their constants, by name and evaluated by TLC, or what a theorem states as its
hypothesis: special values (`All`, `None`, `Env`, a roster that is none) are no ids,
bounds and factions are numbers, the page's first tab is a server, a squad move has at
least one command, the whitelist page opens with a configured server, a page has at
least one request to make, a role that is not there is told from every row, clients of
the lobby service are numbered from 1, squads are numbered from 1, the prospects'
defaults satisfy what the route checks, extensions are numbers of days, tickets are
counted, no setting of a voice channel is mistaken for a channel that is not there, and
in `RconDesk` the clean-up keeps at least the window (`Keep >= Window`; 5 s and 2 s in
the code). What a theorem counts or adds up is finite: the requests about prospects, the
settings and channels of temporary voice. The second table of `MCMemberWhitelist` has
one handler in flight (`SerialAssumption`), because with two the property is false. The
number of members, rows, servers, pages, handlers in flight,
deploys, failures and requests is arbitrary. A module whose component is a part of a sum
extends the module of the sum, and its theorems are about the part's own specification.

| module | theorems | of the runs' properties |
|---|---|---|
| `MemberWhitelist_proofs` | `TypeCorrect`, `OwnersAreHolders`, `DisablingIsComplete`, `OnlyEnablingRevives`, `EnablingRestoresItsOwn`, `ListChangesAreDeployed` | `OwnerHeldSteamId`, `DisabledOwnsOnlyLateRows`, `OnlyEnableRevives`, `RestoresItsOwn`, `EveryListChangeIsDeployed` |
| `SftpDeploy_proofs` | `DeployTypeCorrect`, `StalenessIsAccounted`, `DeploysCarryTheirChange`, `FilesAreLive` | `StaleIsAccounted`, `CarriesItsChange`, `FileIsLive` |
| `WhitelistDeploy_proofs` | `DisablingLeavesTheGame`, `RowsFollowTheirMembers` | `PulledRowsLeaveTheGame`, `RowsFollowMembers` |
| `Background_proofs` | `LinkTypeCorrect`, `LinkImplementsMirror`, `QueueStaysInSync`, `ResultsAreTheirOwn`, `EditsAreKept`, `ConnectedIsLoggedOn` | `ImplementsMirror`, `QueueInSync`, `ResultIsOwn`, `EditsStay` |
| `Live_proofs` | `DeskTypeCorrect`, `AuditRowsWereSent`, `CommandsAreSpaced`, `PagesShowTheirServer`, `ChosenTabsArrive` | `AuditedWasSent`, `SpacedOut`, `PageMirrors`, `SwitchesArrive` |
| `Accounts_proofs` | `SessionsTypeCorrect`, `SessionsExpire`, `SyncAnswersAreRecent`, `RostersAreTrue` | `RightsExpire`, `AnswersAreRecent`, `RosterIsTrue` |
| `Records_proofs` | `SettingsStayValid`, `ExtensionsAreKept`, `BonusesAddUp`, `SettingsAreKept`, `LiveChannelsFollow`, `DetailsAreTrue` | `ConfigIsValid`, `ExtensionsAddUp`, `BonusAddsUp`, `SettingsKept`, `LiveFollows`, `DetailIsTrue` |
| `Pages_proofs` | `RequestsActPerServer`, `PagesShowWhatIsChosen` | `ActsPerServer`, `PagesMatch` |

**`MemberWhitelist_proofs`.** `OwnerHeldSteamId` is not inductive: the owner that
a create writes was looked up by an earlier statement, and by then the member may have
another Steam ID. `WInv` adds what handlers in flight have in their hands: the owner
each has found, and the one it is about to link, has held the Steam ID (`FlightHeld`),
and each has the server, row and member its next statement needs (`FlightShape`). From
`WInv`: `TypeCorrect`, `OwnersAreHolders`, `DisablingIsComplete`,
`EnablingRestoresItsOwn`. `OwnersAreHolders` has an exception, and the proof shows that it
is the only one: an edit that repeats the Steam ID it read is the one write that changes a
row's Steam ID and not its owner. `SlotInv` adds that rows have distinct (Steam ID,
server) slots, which is the table's unique index, and that an edit in flight is on the
server its handler has read. From it, `OnlyEnablingRevives` and `ListChangesAreDeployed`.
The latter is about two moments: an edit deploys the server it has read, which is right
only because a row never changes servers; and a bulk-update changes lists in one statement
and deploys in a later one, in between which rows of its own may be repointed or disabled
but leave their server only by a removal, which deploys it (`OwedStep`).

**`SftpDeploy_proofs`.** `StaleIsAccounted` is not inductive, because a deploy that is
redirected to the environment's target reads a server's entries without refreshing its
file. `SInv` asks for a deploy that does refresh it, and ties what a job has in
its hands to the versions. From it, `DeployTypeCorrect`, `StalenessIsAccounted`,
`DeploysCarryTheirChange`, `FilesAreLive`. `BlankFiles` (a file that is missing or
incomplete lists nobody) is an invariant by itself.

**`WhitelistDeploy_proofs`.** A lemma, `DeployStep`: each step of the composition is a
step of `SftpDeploy` with the whitelist table in the place of `live`, or leaves it alone.
The invariants of both components then hold of the composition
(`SysInv == SlotInv /\ SInv /\ BlankFiles`), and `DisablingLeavesTheGame` follows from
them: a pulled row is not live, because its slot is its own; a file that is up to date
lists what is live; one that is not has a deploy coming or a cause.

**`WhitelistDeploy_proofs`, one handler at a time.** `LinksInSync` breaks as soon as a
handler writes what another has outdated; with one in flight a lookup cannot be out of
date, but a handler of several statements still has the table out of step between them.
`SyncInv` says how far: a relink has given its member the new Steam ID, then has freed the
rows of the old one, then owns those of the new one, and whatever statement it is at, the
rows of every other member follow. What comes back to life and what is deployed needs no
such restriction and is taken from `MemberWhitelist_proofs`, once more for this table
(`SerialInv`).

**`Background_proofs`, the link.** That the api's list never goes back needs to know what
is on the wire. `LInv` says that the lists under way are in order, no older than the api's
copy and no newer than SquadJS's. From it, `LinkTypeCorrect` and `LinkImplementsMirror`:
the initial states map to initial states of `LiveMirror`, every step to a step or a
stutter. `QueueInSync` speaks of a moment when nothing is under way; `QInv` of every
moment: the last word on the wire about the queue is SquadJS's present one, or there is
none and either the answer to a request is still owed or the mirror is right already.

**`Background_proofs`, the match history.** A result is worked out from the columns of
two rounds and stored two statements later. `HInv` says what makes that right: a column
that names a faction names the winner of the round before, one of the newer kind its own
round's (`Columned`, `Carries`); what a pass or the resync holds fits the round it was read
for (`GoodCall`, which takes that a round that has ended changes no more); and so does every
row (`GoodRow`). From it, `ResultsAreTheirOwn` and `EditsAreKept`: a pass only inserts, and
a row that came to be there meanwhile makes its insert fail.

**`Background_proofs`, the lobby service.** `ConnectedIsOn` is not inductive: a client that
was dropped may still log on and set the flag. `ServiceOK` says that it cannot, because a
client that is logged on, logging on or about to do so again is the service's own
(`OneSession`): a reconnect closes or forgets the one before, and what is heard of it
later only clears the flag.

**`Live_proofs`, the commands.** The code looks only at `lastRcon`, which its clean-up cuts down;
the properties speak of every command ever sent. `DInv` ties the two together: what
`lastRcon` holds is when a command was last sent, and what it no longer holds was sent at
least a window ago; what a handler counts as done was sent. From it, `DeskTypeCorrect`,
`AuditRowsWereSent`, `CommandsAreSpaced`.

**`Live_proofs`, the page.** A page and what is on its way to it are one thing. `PInv` says that
the last request under way is for the tab (`OutboxOK`). Of a page with no request under
way it says that, for each matter (the list, the connection), the last message on its way
that tells of it agrees with the mirror of the page's subscription, or the display does and
no message tells of it (`ShownOK`); and that the subscription is the tab, or the list of
servers that makes the page ask for it is on its way (`SwitchOK`). A switch clears the
display, but then a request is under way, and its answer is a snapshot.

**`Accounts_proofs`, the sessions.** A permission travels through a sign-in, the cache, the
JWT and the page, and each adds its own time. `SInv` gives each its bound: what a call has
read is no older than the call, what a cached answer holds no older than the answer and one
call, what a token holds no older than the token and one call. A token in the cache needs
the last two, because its own age decides how long a page believes it and the age of the
answer how long it is handed out.

**`Accounts_proofs`, the roster.** `RosterIsTrue` speaks of the moment when everything is
delivered. `RInv` speaks of what is on its way: `presenceClients` holds the sockets that
are up, each once (`ClientsOK`); a socket that a page has let go of is gone or ends with
its close (`Leaving`), which is why nobody is counted twice for ever; of the path and of
the hiding, what a page's data say once its messages have come is what the page has said,
unless it has missed to say it (`PathTold`, `HideTold`); and the roster that the data make
is on its way to every page that is connected, or shown by it (`NewsOK`).

**`Records_proofs`.** `SettingsOK`: what a request is about to write is valid as a whole,
whatever the row has become since it was read. `RaffleOK`: a person's bonus tickets in a
giveaway are what staff gave, less what they took, and what an adjustment has read is what
is still there, save where two adjustments overlapped; and while no start was let through
beside another, one giveaway at most is active or has its start on the way.
`VoiceOK`: a request that is about to write has the row of now in its hands, or has been
overtaken; what changes otherwise is what the request asked to change.

`FollowOK`, for the channels that are open: while requests do not overlap and none fails,
each setting of a live channel is what was last asked of it, or the last action in the
bot's queue about that setting of that channel says so, or the one request under way has
that action still to queue. It must also say that queued actions are about channels that
were once open, because a channel can close with its actions still queued: Discord gives no
channel id twice. `TempVoice` had let ids return, and the property had held only because
its run was too small to open a channel again; the proof found it.

`PeriodOK`, for the extensions: the period of a prospect and the events about it differ by
what requests between their two statements have yet to write, and by what failed there.
That is a sum over the requests in flight. That such a sum is determined, and changes by a
term when a term does, is induction over data, done here by a smallest counterexample (`LeastNumber`, `LeastSubset`, from the library's `WFMin`).

**`Pages_proofs`.** The pages share no state, so each has an invariant of its own.
`RequestsOK`: a click in flight has the person and the server of the click in its hands,
also after another server was opened. `ModalOK`: a question is about the entry that is
shown, or was overtaken by an answer that showed another. `RolesOK`: for a role whose
requests did not overlap, at most one PUT is under way, and what the last one left is what was meant
(`HistoryOK`); a members call is of the role whose panel is open (`Heard`); a disabled
button has its request. `ListsOK` has two cases, because only the tickets page numbers its
requests. There, the request with the last number asks for the chosen view (`NumberedOK`).
On the others, a request that was made alone is still the only one and asks for the view,
and while nothing overlapped or failed, every request is of that kind (`PlainOK`): the
exception that `ListIsOfView` makes is what the missing number costs. `DetailOK` says the
same of the detail, by the way each page fetches it.

`RoundOK`, for the detail of a match, is about the round: what was counted of each player
is what the rows of deaths and revives say, whatever squad and side he was in (`CountOK`),
and at the end the snapshot says what is so, or nothing (`BoardOK`). That the detail is
true follows from the two: a name the snapshot has of a squad is the squad's own, so every
source that is asked before the creations agrees on it (`LookupKnows`), and where they are
all silent, coalescing takes one name for all (`CoalesceNames`).

Only model-checked: the liveness properties (`WhitelistReachesServers`, `HandlersEnd`,
`SamplesAgain`, `PagesCatchUp`, `LinkConverges`, `ServersFollow` but for what it says of the
flags, `MatchesAreListed`, `PagesSettle`, `RolesSettle`, `RequestsSettle`, `ShownIsTrue`),
because fairness and ENABLED are out of the prover's reach. Every invariant and every
action property of a passing run is a theorem.

No theorem is about `SquadInfo`, `RoleRows`, `MemberDesk` or
`PluginEditor`: what the passing runs check of them is liveness.

## What is not modelled

* **What SquadJS, the game, the bot, GitHub, Steam, EOS and ssh2 do** beyond what the
  code relies on: SquadJS answers in order on a connection and drops what is unanswered
  when it ends; the bot serves its queue in order; an upload succeeds, or fails before or
  after it has truncated the file; a query of a deploy may fail; GitHub takes a put if the sha is current.
* **A crash of the api.** Deploys in flight, mirrors, caches and subscriptions are in
  memory and go with it. A restart is a new beginning for the link and for pages (as
  `Connect` and `PageConnect` are); the deploys it loses are not among the causes
  `excused` counts.
* **Permissions of the modelled handlers**: any request may be made at any time. What a
  JWT allows, and for how long, is `Sessions`.
* **Comments, notes, descriptions, colours, texts of groups and clans**, the wording of
  audit rows, chat and console buffers, metrics: they decide no order and no failure here.
* **Display**: charts, layout, formatting, and the pages that only load and show.
* **Read-only queries** (statistics, playtime, server status, live status) and
  the counters in front of them (uses of API tokens, rate limits), which one synchronous
  step updates.
* **Single-row settings** of the bot (seeding, birthday, timeouts, messages), which single
  statements write.

`PROJECT.json` lists every component with its status, and every hazard of the code with
the properties about it; a hazard that no property covers says why.

## What could come next

1. A restart of the api in `SftpDeploy` (deploys in flight are lost, as a further cause
   of staleness), `MemberWhitelist` (a handler stops between two statements) and their
   composition, with the proofs carried over.
2. `Sessions` composed with the members of `MemberWhitelist`: a disabled member is
   refused from the moment of disabling, but for named windows.
