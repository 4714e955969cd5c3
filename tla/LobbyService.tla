---------------------------- MODULE LobbyService ----------------------------
(***************************************************************************)
(* packages/lobby-service: the Steam client the service keeps logged on     *)
(* (auth.ts), the EOS token exchanged for a Steam ticket and refreshed by   *)
(* timers, the discovery loop that asks EOS for the game servers             *)
(* (discovery.ts), and the lobbies opened on Steam for whoever wants to      *)
(* join one (lobby.ts).                                                     *)
(*                                                                         *)
(* A login starts a chain: exchange, timer, exchange, timer...; a failed    *)
(* first exchange is retried three times, a failed refresh is not.  Nothing *)
(* ends the chain of an earlier login, so there are as many as logins.      *)
(* The Steam library, Steam and EOS are external: a client drops, logs on   *)
(* again by itself, reports a fatal error, answers late or never.           *)
(***************************************************************************)
EXTENDS Naturals

CONSTANTS
  Server,     \* sessions EOS may list
  Login,      \* 1 .. a bound on the logins of a life of the service
  Client,     \* 1 .. a bound on the SteamUser objects it makes
  Loop,       \* discovery refreshes that may overlap; a bound
  Lobby,      \* lobbies at a time; a bound
  Life,       \* ticks between a token and its refresh: more than 1, the discovery's round
  MaxErrors,  \* bounds: fatal errors of the library, lost connections,
  MaxDrops,
  MaxFails,   \* failed exchanges,
  MaxChanges, \* changes of what EOS lists,
  MaxPosts    \* POST /internal/steam/reconnect

VARIABLES
  steamClient,     \* the client of the module, 0 for null
  steamConnected,
  steamConnecting,
  serving,         \* start() has come past connectSteam: the routes answer
  lib,             \* lib[k]: what the library does with client k
  eos,             \* ticks until getEosToken() returns null; 0: it does
  chain,           \* chain[i]: what the i-th login set going
  discovery,       \* refreshServerDiscovery() in flight
  serverCache,
  listed,          \* external: what EOS lists
  polled,          \* the discovery has asked since the last tick
  lobby,           \* lobbies, from the request to their end
  spent            \* how often each thing that is bounded has happened

steam == <<steamClient, steamConnected, steamConnecting, serving, lib>>
servers == <<discovery, serverCache, listed, polled>>
vars == <<steam, eos, chain, servers, lobby, spent>>

-----------------------------------------------------------------------------
EOS_RETRY_DELAYS == 3  \* how many there are

NoChain == [at |-> "none", via |-> "login", client |-> 0, n |-> 0]
\* at: waits for the ticket of `client`, for the answer of EOS, for the retry timer n, for
\* the refresh timer (n ticks), or for nothing any more.
Chains == [at : {"none", "ticket", "post", "retry", "refresh", "ended"},
           via : {"login", "retry", "refresh"}, client : Client \cup {0},
           n : 0 .. (Life + EOS_RETRY_DELAYS)]

NoLobby == [at |-> "none", owner |-> 0, waiting |-> FALSE]
Lobbies == [at : {"none", "asked", "made", "open", "forgotten"}, owner : Client \cup {0},
            waiting : BOOLEAN]

Refreshes == [at : {"idle", "build", "asking", "answered"}, list : SUBSET Server]
NoRefresh == [at |-> "idle", list |-> {}]

Spend(what, max) == spent[what] < max /\ spent' = [spent EXCEPT ![what] = @ + 1]
Free == UNCHANGED spent

Init ==
  /\ steamClient = 1 /\ steamConnected = FALSE /\ steamConnecting = TRUE
  /\ serving = FALSE
  /\ lib = [k \in Client |-> IF k = 1 THEN "logging" ELSE "none"]
  /\ eos = 0
  /\ chain = [i \in Login |-> NoChain]
  /\ discovery = [d \in Loop |-> NoRefresh] /\ serverCache = {} /\ polled = FALSE
  /\ listed \in SUBSET Server
  /\ lobby = [l \in Lobby |-> NoLobby]
  /\ spent = [errors |-> 0, drops |-> 0, fails |-> 0, changes |-> 0, posts |-> 0]

-----------------------------------------------------------------------------
(* auth.ts.                                                                *)

\* exchangeForEosToken() begins: it throws at once without a client that is connected.
Exchange(via, n) ==
  IF steamClient # 0 /\ steamConnected
    THEN [at |-> "ticket", via |-> via, client |-> steamClient, n |-> n]
    ELSE [at |-> "failing", via |-> via, client |-> 0, n |-> n]

\* What a failed exchange leads to: scheduleEosRetry after a login and after a retry that
\* was not the last; a line in the log after a refresh.
AfterFailure(q) ==
  LET next == IF q.via = "login" THEN 1 ELSE q.n + 1 IN
  IF q.via = "refresh" \/ next > EOS_RETRY_DELAYS
    THEN [q EXCEPT !.at = "ended", !.client = 0, !.n = 0]
    ELSE [at |-> "retry", via |-> "retry", client |-> 0, n |-> next]

Begin(q) == IF q.at = "failing" THEN AfterFailure(q) ELSE q

\* The promise of the first connectSteam() settles when an exchange of a login of its
\* client does, well or badly.
Settles(q) == q.via = "login" /\ q.client = 1

\* 'loggedOn': the flags, and a chain of its own.
LoggedOn(k) ==
  /\ lib[k] = "logging"
  /\ lib' = [lib EXCEPT ![k] = "on"]
  /\ steamConnected' = TRUE /\ steamConnecting' = FALSE
  /\ \E i \in Login :
       /\ chain[i].at = "none" /\ \A j \in Login : j < i => chain[j].at # "none"
       /\ chain' = [chain EXCEPT ![i] =
                      [at |-> "ticket", via |-> "login", client |-> steamClient, n |-> 0]]
  /\ UNCHANGED <<steamClient, serving, eos, servers, lobby>> /\ Free

\* A session ends: what waited for an answer in it waits for ever, its lobbies are gone.
SessionEnds(k) ==
  /\ chain' = [i \in Login |-> IF chain[i].at = "ticket" /\ chain[i].client = k
                                 THEN [chain[i] EXCEPT !.at = "ended", !.client = 0, !.n = 0]
                                 ELSE chain[i]]
  /\ lobby' = [l \in Lobby |-> IF lobby[l].owner = k THEN NoLobby ELSE lobby[l]]
  /\ UNCHANGED <<eos, servers>>

\* 'error': the library gives the client up.
Error(k) ==
  /\ lib[k] \in {"logging", "on", "off"} /\ Spend("errors", MaxErrors)
  /\ lib' = [lib EXCEPT ![k] = "dead"]
  /\ steamConnected' = FALSE /\ steamConnecting' = FALSE
  /\ serving' = (serving \/ k = 1)
  /\ SessionEnds(k) /\ UNCHANGED steamClient

\* 'disconnected': the connection is lost, and the library will log on again.
Disconnected(k) ==
  /\ lib[k] = "on" /\ Spend("drops", MaxDrops)
  /\ lib' = [lib EXCEPT ![k] = "off"]
  /\ steamConnected' = FALSE
  /\ SessionEnds(k) /\ UNCHANGED <<steamClient, steamConnecting, serving>>

\* ... or logOff() has been heard of, by whichever client; the flag is the service's.
LoggedOff(k) ==
  /\ lib[k] = "closing"
  /\ lib' = [lib EXCEPT ![k] = "dead"]
  /\ steamConnected' = FALSE
  /\ SessionEnds(k) /\ UNCHANGED <<steamClient, steamConnecting, serving>> /\ Free

Relogin(k) ==
  /\ lib[k] = "off"
  /\ lib' = [lib EXCEPT ![k] = "logging"]
  /\ UNCHANGED <<steamClient, steamConnected, steamConnecting, serving, eos, chain, servers,
                 lobby>> /\ Free

\* The old client is logged off: nothing more is heard of it unless it was logged on.
LogOff(old) == IF old = 0 THEN lib
               ELSE [lib EXCEPT ![old] = IF @ = "on" THEN "closing" ELSE "dead"]

\* POST /internal/steam/reconnect: reconnectSteam() and connectSteam() up to its first
\* await.  Who finds a connect under way has taken its client away and makes no other.
Reconnect ==
  /\ serving /\ Spend("posts", MaxPosts)
  /\ steamConnected' = IF steamClient = 0 THEN steamConnected ELSE FALSE
  /\ eos' = 0
  /\ IF steamConnecting
       THEN steamClient' = 0 /\ lib' = LogOff(steamClient) /\ UNCHANGED steamConnecting
       ELSE \E k \in Client :
              /\ lib[k] = "none" /\ \A j \in Client : j < k => lib[j] # "none"
              /\ steamClient' = k /\ steamConnecting' = TRUE
              /\ lib' = [LogOff(steamClient) EXCEPT ![k] = "logging"]
  /\ UNCHANGED <<serving, chain, servers, lobby>>

\* createAuthSessionTicket answers: the ticket goes to EOS.
Ticket(i) ==
  /\ chain[i].at = "ticket" /\ lib[chain[i].client] = "on"
  /\ chain' = [chain EXCEPT ![i].at = "post"]
  /\ UNCHANGED <<steam, eos, servers, lobby>> /\ Free

Exchanged_NoTimer(i) ==  \* fault: the token is kept, and nothing refreshes it
  /\ chain[i].at = "post"
  /\ eos' = Life
  /\ chain' = [chain EXCEPT ![i] = [NoChain EXCEPT !.at = "ended", !.via = "refresh"]]
  /\ serving' = (serving \/ Settles(chain[i]))
  /\ UNCHANGED <<steamClient, steamConnected, steamConnecting, lib, servers, lobby>> /\ Free

\* EOS answers with a token; the refresh is due when getEosToken stops returning it.
Exchanged(i) ==
  /\ chain[i].at = "post"
  /\ eos' = Life
  /\ chain' = [chain EXCEPT ![i] =
                 [at |-> "refresh", via |-> "refresh", client |-> 0, n |-> Life]]
  /\ serving' = (serving \/ Settles(chain[i]))
  /\ UNCHANGED <<steamClient, steamConnected, steamConnecting, lib, servers, lobby>> /\ Free

ExchangeFails(i) ==
  /\ chain[i].at \in {"ticket", "post"} /\ Spend("fails", MaxFails)
  /\ chain' = [chain EXCEPT ![i] = AfterFailure(chain[i])]
  /\ serving' = (serving \/ Settles(chain[i]))
  /\ UNCHANGED <<steamClient, steamConnected, steamConnecting, lib, eos, servers, lobby>>

RetryFires(i) ==
  /\ chain[i].at = "retry"
  /\ chain' = [chain EXCEPT ![i] = Begin(Exchange("retry", chain[i].n))]
  /\ UNCHANGED <<steam, eos, servers, lobby>> /\ Free

RefreshFires(i) ==
  /\ chain[i].at = "refresh" /\ chain[i].n = 0
  /\ chain' = [chain EXCEPT ![i] = Begin(Exchange("refresh", 0))]
  /\ UNCHANGED <<steam, eos, servers, lobby>> /\ Free

\* Timers that are due have fired, the discovery has had a round: much shorter.
Tick ==
  /\ polled
  /\ \A i \in Login : chain[i].at = "refresh" => chain[i].n > 0
  /\ eos' = IF eos > 0 THEN eos - 1 ELSE 0
  /\ chain' = [i \in Login |-> IF chain[i].at = "refresh" THEN [chain[i] EXCEPT !.n = @ - 1]
                                                          ELSE chain[i]]
  /\ polled' = FALSE
  /\ UNCHANGED <<steam, discovery, serverCache, listed, lobby>> /\ Free

-----------------------------------------------------------------------------
(* discovery.ts.                                                           *)

\* The loop's timer, whether or not the last refresh has ended.
Refresh(d) ==
  /\ serving /\ discovery[d].at = "idle"
  /\ discovery' = [discovery EXCEPT ![d].at = "build"]
  /\ UNCHANGED <<steam, eos, chain, serverCache, listed, polled, lobby>> /\ Free

\* fetchBuildId has ended somehow; without a token nobody is asked.
Ask(d) ==
  /\ discovery[d].at = "build"
  /\ discovery' = [discovery EXCEPT ![d].at = IF eos > 0 THEN "asking" ELSE "idle"]
  /\ polled' = TRUE
  /\ UNCHANGED <<steam, eos, chain, serverCache, listed, lobby>> /\ Free

EosLists(d) ==
  /\ discovery[d].at = "asking"
  /\ discovery' = [discovery EXCEPT ![d] = [at |-> "answered", list |-> listed]]
  /\ UNCHANGED <<steam, eos, chain, serverCache, listed, polled, lobby>> /\ Free

Arrives(d) ==
  /\ discovery[d].at = "answered"
  /\ serverCache' = discovery[d].list
  /\ discovery' = [discovery EXCEPT ![d] = NoRefresh]
  /\ UNCHANGED <<steam, eos, chain, listed, polled, lobby>> /\ Free

RefreshFails(d) ==
  /\ discovery[d].at \in {"asking", "answered"} /\ Spend("fails", MaxFails)
  /\ discovery' = [discovery EXCEPT ![d] = NoRefresh]
  /\ UNCHANGED <<steam, eos, chain, serverCache, listed, polled, lobby>>

ListChanges ==
  /\ Spend("changes", MaxChanges)
  /\ listed' \in SUBSET Server \ {listed}
  /\ UNCHANGED <<steam, eos, chain, discovery, serverCache, polled, lobby>>

-----------------------------------------------------------------------------
(* lobby.ts.                                                               *)

\* createLobby: a session in the cache, and the request goes to Steam.
CreateLobby(l) ==
  /\ serving /\ lobby[l].at = "none"
  /\ steamConnected /\ serverCache # {} /\ steamClient # 0
  /\ lobby' = [lobby EXCEPT ![l] = [at |-> "asked", owner |-> steamClient, waiting |-> TRUE]]
  /\ UNCHANGED <<steam, eos, chain, servers>> /\ Free

SteamCreates(l) ==
  /\ lobby[l].at = "asked" /\ lib[lobby[l].owner] = "on"
  /\ lobby' = [lobby EXCEPT ![l].at = "made"]
  /\ UNCHANGED <<steam, eos, chain, servers>> /\ Free

\* The answer: a link for whoever still waits, and a timer to leave the lobby; a callback
\* of a promise that has been rejected does nothing.
Answered(l) ==
  /\ lobby[l].at = "made" /\ lib[lobby[l].owner] = "on"
  /\ lobby' = [lobby EXCEPT ![l].at = IF lobby[l].waiting THEN "open" ELSE "forgotten",
                            ![l].waiting = FALSE]
  /\ UNCHANGED <<steam, eos, chain, servers>> /\ Free

\* Ten seconds have passed.
TimesOut(l) ==
  /\ lobby[l].at \in {"asked", "made"} /\ lobby[l].waiting
  /\ lobby' = [lobby EXCEPT ![l].waiting = FALSE]
  /\ UNCHANGED <<steam, eos, chain, servers>> /\ Free

\* A minute has passed: ClientMMSLeaveLobby, sent by the client the service has now.  Steam
\* takes it from the lobby's owner; whatever goes wrong is ignored.
Leave(l) ==
  /\ lobby[l].at = "open"
  /\ lobby' = [lobby EXCEPT ![l] =
                 IF steamClient = @.owner /\ lib[@.owner] = "on" THEN NoLobby
                 ELSE [@ EXCEPT !.at = "forgotten"]]
  /\ UNCHANGED <<steam, eos, chain, servers>> /\ Free

-----------------------------------------------------------------------------
Library(k) == LoggedOn(k) \/ LoggedOff(k) \/ Relogin(k)
Chain(i) == Ticket(i) \/ Exchanged(i) \/ RetryFires(i) \/ RefreshFires(i)
Discovery(d) == Refresh(d) \/ Ask(d) \/ EosLists(d) \/ Arrives(d)
Lobbying(l) == SteamCreates(l) \/ Answered(l) \/ Leave(l)

Next ==
  \/ \E k \in Client : Library(k) \/ Error(k) \/ Disconnected(k)
  \/ \E i \in Login : Chain(i) \/ ExchangeFails(i)
  \/ \E d \in Loop : Discovery(d) \/ RefreshFails(d)
  \/ \E l \in Lobby : Lobbying(l) \/ CreateLobby(l) \/ TimesOut(l)
  \/ Reconnect \/ ListChanges \/ Tick

Safety == Init /\ [][Next]_vars

\* The library logs on when it can, timers fire, Steam and EOS answer, time passes.  Nobody
\* has to ask for a lobby or for a new connection.
Fairness ==
  /\ \A k \in Client : WF_vars(Library(k))
  /\ \A i \in Login : WF_vars(Chain(i))
  /\ \A d \in Loop : WF_vars(Discovery(d))
  /\ \A l \in Lobby : WF_vars(Lobbying(l))
  /\ WF_vars(Tick)

Spec == Safety /\ Fairness

-----------------------------------------------------------------------------
(* What must hold.                                                         *)

\* Every variable has the type its declaration states; no timer is overdue.
TypeOK ==
  /\ steamClient \in Client \cup {0} /\ steamConnected \in BOOLEAN
  /\ steamConnecting \in BOOLEAN /\ serving \in BOOLEAN
  /\ lib \in [Client -> {"none", "logging", "on", "off", "closing", "dead"}]
  /\ eos \in 0 .. Life
  /\ chain \in [Login -> Chains]
  /\ discovery \in [Loop -> Refreshes] /\ serverCache \in SUBSET Server
  /\ listed \in SUBSET Server /\ polled \in BOOLEAN
  /\ lobby \in [Lobby -> Lobbies]
  /\ spent \in [{"errors", "drops", "fails", "changes", "posts"} -> Nat]

\* /internal/health, createLobby and the exchanges believe steamConnected.  It is never TRUE
\* without a client that is logged on, whatever the events of an older client do to it (it
\* may be FALSE with one: the events of all clients write the same flag).  No other client
\* is logged on meanwhile: the account has one session.
ConnectedIsOn ==
  /\ steamConnected => steamClient # 0 /\ lib[steamClient] = "on"
  /\ \A k \in Client : lib[k] = "on" => k = steamClient

\* Every chain has come to its end, the last login's by a failure.
Lost == spent.fails > 0 /\ \A i \in Login : chain[i].at \in {"none", "ended"}

\* As long as the connection stays, there is a token again and again (it ends as its
\* refresh begins), and the cache comes to hold what EOS lists, however refreshes overlap;
\* unless a refresh fails, or all retries of a login do: nothing tries again until somebody
\* posts a reconnect or the connection is lost.
ServersFollow ==
  <>[]steamConnected => \/ []<>(eos > 0) /\ <>[](serverCache = listed)
                        \/ <>[]Lost

\* "Steam disconnected, will auto-reconnect" (the log line of 'disconnected').
WillReconnect == ~steamConnected ~> steamConnected
=============================================================================
