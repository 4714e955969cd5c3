----------------------------- MODULE SftpDeploy -----------------------------
(***************************************************************************)
(* The Admins.cfg deploy pipeline: lib/sftp-deploy.ts with the ServerConfig *)
(* rows it reads (routes/server-config.ts) and the read of the database by *)
(* generateAdminsCfg (lib/cfg-generator.ts).                               *)
(*                                                                         *)
(* A handler that changed the whitelist calls deployInBackground and does  *)
(* not wait: the deploy is a job of its own, several run at once, and       *)
(* nothing orders them.  A job reads a server's configuration, then its    *)
(* entries, then connects and puts the file.                               *)
(*                                                                         *)
(* `live` is the module's input: the Steam IDs generateAdminsCfg would list *)
(* for each server if it ran now.  Alone, the module lets it change in any *)
(* way; WhitelistDeploy substitutes the whitelist table for it.            *)
(***************************************************************************)
EXTENDS Naturals, FiniteSets

CONSTANTS
  Server,     \* server keys
  Item,       \* what an Admins.cfg lists
  Job,        \* slots for deploys in flight; a bound on concurrency
  All,        \* the scope "every configured server"
  Env,        \* the upload target of the SFTP_* environment variables
  None,
  EnvCreds,   \* are SFTP_HOST, SFTP_USER, SFTP_PASS and SFTP_PATH set?
  EnvSync,    \* SFTP_SYNC_ENABLED = "true"
  Kinds,      \* the kinds of configuration the servers start with
  Reconfigure, \* may staff change the configurations?
  MaxVersion, \* bound on the changes of one server's list
  MaxFail     \* bound on failed reads and uploads

ASSUME DeployAssumption ==
  /\ EnvCreds \in BOOLEAN /\ EnvSync \in BOOLEAN
  /\ Kinds \subseteq {"none", "off", "on", "bare"} /\ Reconfigure \in BOOLEAN
  /\ MaxVersion \in Nat /\ MaxFail \in Nat
  /\ Env \notin Server /\ All \notin Server /\ None \notin Server
  /\ All # None /\ Env # None /\ Env # All

VARIABLES
  live,    \* live[s]: what server s's Admins.cfg should list
  config,  \* config[s]: the ServerConfig row of s
  job,     \* job[j]: a deploy in flight
  file,    \* file[t]: the Admins.cfg at upload target t
  ver,     \* history: ver[s] counts the changes of live[s]
  put,     \* history: put[s] is the version of the last complete upload to target s
  excused, \* history: has something happened that may leave target s stale for good?
  fails    \* history: failed reads and uploads so far

dvars == <<live, config, job, file, ver, put, excused, fails>>

-----------------------------------------------------------------------------
Target == Server \cup {Env}

\* No row; syncEnabled off; on, with SFTP credentials; on, without them.
ConfigKind == {"none", "off", "on", "bare"}
Enabled(s) == config[s] \in {"on", "bare"}

\* What has been written to a target; a torn upload leaves a file cut short.
File == [of : Server \cup {All, None}, items : SUBSET Item, whole : BOOLEAN]

Stage == {"idle", "begin", "next", "config", "snapshot", "put"}
DeployJob == [at : Stage, scope : Server \cup {All, None}, todo : SUBSET Server,
              cur : Server \cup {All, None}, target : Target \cup {None},
              items : SUBSET Item, seen : Nat, asked : [Server -> Nat]]
NoJob == [at |-> "idle", scope |-> None, todo |-> {}, cur |-> None, target |-> None,
          items |-> {}, seen |-> 0, asked |-> [s \in Server |-> 0]]

\* What generateAdminsCfg(server) lists; without a server, the rows of every server.
Generate(s) == IF s = All THEN UNION {live[v] : v \in Server} ELSE live[s]

DInit ==
  /\ live = [s \in Server |-> {}]
  /\ config \in [Server -> Kinds]
  /\ job = [j \in Job |-> NoJob]
  /\ file = [t \in Target |-> [of |-> None, items |-> {}, whole |-> TRUE]]
  /\ ver = [s \in Server |-> 0]
  /\ put = [s \in Server |-> 0]
  /\ excused = [s \in Server |-> FALSE]
  /\ fails = 0

-----------------------------------------------------------------------------
(* Changes of the whitelist, and the deploys they start.                   *)

Fire_GeneratesFirst(F) ==  \* fault: the caller generates the file before its write
  \E slot \in [F -> {j \in Job : job[j] = NoJob}] :
    /\ \A f, g \in F : slot[f] = slot[g] => f = g
    /\ job' = [j \in Job |->
         IF \E f \in F : slot[f] = j
         THEN LET f == CHOOSE g \in F : slot[g] = j IN
              IF f = All THEN [NoJob EXCEPT !.at = "begin", !.scope = All, !.asked = ver']
              ELSE [NoJob EXCEPT !.at = "put", !.scope = f, !.cur = f, !.target = f,
                                 !.items = live[f], !.seen = ver[f], !.asked = ver']
         ELSE job[j]]

\* triggerSftpDeploy(scope), called without await once for each scope in F.  The
\* callers fire after their write, so a job is asked to carry the new version.
Fire(F) ==
  \E slot \in [F -> {j \in Job : job[j] = NoJob}] :
    /\ \A f, g \in F : slot[f] = slot[g] => f = g
    /\ job' = [j \in Job |->
         IF \E f \in F : slot[f] = j
         THEN [NoJob EXCEPT !.at = "begin", !.scope = CHOOSE f \in F : slot[f] = j,
                            !.asked = ver']
         ELSE job[j]]

\* Counting the versions; a change that starts no deploy of its server is excused.
Track(F) ==
  /\ ver' = [s \in Server |-> IF live'[s] # live[s] THEN ver[s] + 1 ELSE ver[s]]
  /\ \A s \in Server : ver'[s] <= MaxVersion
  /\ excused' = [s \in Server |->
       excused[s] \/ (live'[s] # live[s] /\ F \cap {s, All} = {})]

\* A step of the whitelist: the lists may change and the deploys in F start.
Change(F) == Track(F) /\ Fire(F) /\ UNCHANGED <<config, file, put, fails>>

\* Any change of one or more lists, with or without deploys.
Edit ==
  /\ live' \in [Server -> SUBSET Item]
  /\ \E F \in SUBSET (Server \cup {All}) : Change(F)

-----------------------------------------------------------------------------
(* A deploy job.                                                           *)

\* A job stops, or goes on with the next configured server (the loop of line 21).
After(j) ==
  IF job[j].todo = {} THEN NoJob
  ELSE [job[j] EXCEPT !.at = "next", !.cur = None, !.target = None, !.items = {}, !.seen = 0]

TriggerSftpDeploy_FirstOnly(j) ==  \* fault: findFirst instead of findMany
  LET q == job[j]
      enabled == {s \in Server : Enabled(s)} IN
  /\ q.at = "begin"
  /\ job' = [job EXCEPT ![j] =
       IF q.scope # All THEN [q EXCEPT !.at = "config", !.cur = q.scope]
       ELSE IF enabled # {} THEN [q EXCEPT !.at = "next", !.todo = {CHOOSE s \in enabled : TRUE}]
       ELSE IF EnvSync /\ EnvCreds
            THEN [q EXCEPT !.at = "snapshot", !.cur = All, !.target = Env]
       ELSE NoJob]
  /\ UNCHANGED <<live, config, file, ver, put, excused, fails>>

\* triggerSftpDeploy: one server, or every enabled configuration read now, or the
\* environment's target when there is none and SFTP_SYNC_ENABLED asks for it.
TriggerSftpDeploy(j) ==
  LET q == job[j]
      enabled == {s \in Server : Enabled(s)} IN
  /\ q.at = "begin"
  /\ job' = [job EXCEPT ![j] =
       IF q.scope # All THEN [q EXCEPT !.at = "config", !.cur = q.scope]
       ELSE IF enabled # {} THEN [q EXCEPT !.at = "next", !.todo = enabled]
       ELSE IF EnvSync /\ EnvCreds
            THEN [q EXCEPT !.at = "snapshot", !.cur = All, !.target = Env]
       ELSE NoJob]
  /\ UNCHANGED <<live, config, file, ver, put, excused, fails>>

\* The next turn of the loop; findMany states no order.
NextServer(j, s) ==
  /\ job[j].at = "next" /\ s \in job[j].todo
  /\ job' = [job EXCEPT ![j].at = "config", ![j].cur = s, ![j].todo = @ \ {s}]
  /\ UNCHANGED <<live, config, file, ver, put, excused, fails>>

\* deployForServer reads the configuration again: without one, or without
\* credentials, it falls back to the environment's target; switched off, it skips.
ReadConfig(j) ==
  LET q == job[j]
      to(t) == [q EXCEPT !.at = "snapshot", !.target = t] IN
  /\ q.at = "config"
  /\ job' = [job EXCEPT ![j] =
       CASE config[q.cur] = "on" -> to(q.cur)
         [] config[q.cur] = "off" -> After(j)
         [] OTHER -> IF EnvCreds THEN to(Env) ELSE After(j)]
  /\ UNCHANGED <<live, config, file, ver, put, excused, fails>>

Snapshot_EveryServer(j) ==  \* fault: the server argument is not passed on
  LET q == job[j] IN
  /\ q.at = "snapshot"
  /\ job' = [job EXCEPT ![j].at = "put", ![j].items = Generate(All),
                        ![j].seen = IF q.cur = All THEN 0 ELSE ver[q.cur]]
  /\ UNCHANGED <<live, config, file, ver, put, excused, fails>>

\* generateAdminsCfg, before the connection is made.
Snapshot(j) ==
  LET q == job[j] IN
  /\ q.at = "snapshot"
  /\ job' = [job EXCEPT ![j].at = "put", ![j].items = Generate(q.cur),
                        ![j].seen = IF q.cur = All THEN 0 ELSE ver[q.cur]]
  /\ UNCHANGED <<live, config, file, ver, put, excused, fails>>

Write(j, whole) ==
  file' = [file EXCEPT ![job[j].target] =
            [of |-> job[j].cur, items |-> IF whole THEN job[j].items ELSE {}, whole |-> whole]]

\* connect and put succeed.  An upload older than the one it replaces is excused.
PutFile(j) ==
  LET q == job[j] IN
  /\ q.at = "put"
  /\ Write(j, TRUE)
  /\ job' = [job EXCEPT ![j] = After(j)]
  /\ IF q.target = q.cur
       THEN /\ put' = [put EXCEPT ![q.cur] = q.seen]
            /\ excused' = [excused EXCEPT ![q.cur] =
                 IF q.seen = ver[q.cur] THEN FALSE ELSE @ \/ q.seen < put[q.cur]]
       ELSE UNCHANGED <<put, excused>>
  /\ UNCHANGED <<live, config, ver, fails>>

\* connect or put throws: the whole job ends, with it the servers still to do, and
\* the file may be left cut short.  Nothing retries.
FailPut(j) ==
  LET q == job[j] IN
  /\ q.at = "put" /\ fails < MaxFail
  /\ fails' = fails + 1
  /\ Write(j, FALSE) \/ UNCHANGED file
  /\ job' = [job EXCEPT ![j] = NoJob]
  /\ excused' = [s \in Server |-> excused[s] \/ s \in q.todo \/ s \in {q.cur, q.target}]
  /\ UNCHANGED <<live, config, ver, put>>

\* A query or the decryption throws: as above, with nothing written.  Asked for one server,
\* triggerSftpDeploy reads nothing of its own.
FailRead(j) ==
  LET q == job[j] IN
  /\ \/ q.at = "begin" /\ q.scope = All
     \/ q.at \in {"config", "snapshot"}
  /\ fails < MaxFail
  /\ fails' = fails + 1
  /\ job' = [job EXCEPT ![j] = NoJob]
  /\ excused' = [s \in Server |-> excused[s] \/ q.at = "begin" \/ s \in q.todo \/ s = q.cur]
  /\ UNCHANGED <<live, config, file, ver, put>>

JobStep(j) ==
  \/ TriggerSftpDeploy(j) \/ ReadConfig(j) \/ Snapshot(j) \/ PutFile(j) \/ FailPut(j) \/ FailRead(j)
  \/ \E s \in Server : NextServer(j, s)

-----------------------------------------------------------------------------
(* The configurations: routes/server-config.ts.  None of them deploys.     *)

SetConfig(s, k) ==
  /\ config' = [config EXCEPT ![s] = k]
  /\ excused' = [excused EXCEPT ![s] = TRUE]
  /\ UNCHANGED <<live, job, file, ver, put, fails>>

\* POST /server-config
UpsertConfig(s, k) == k \in {"off", "on", "bare"} /\ SetConfig(s, k)

\* PATCH /server-config/:server { syncEnabled }; hasCreds: were SFTP fields stored?
SetSync(s, enabled, hasCreds) ==
  /\ config[s] # "none"
  /\ config[s] = "on" => hasCreds
  /\ config[s] = "bare" => ~hasCreds
  /\ SetConfig(s, IF ~enabled THEN "off" ELSE IF hasCreds THEN "on" ELSE "bare")

\* DELETE /server-config/:server
DeleteConfig(s) == config[s] # "none" /\ SetConfig(s, "none")

Configure ==
  /\ Reconfigure
  /\ \E s \in Server :
       \/ \E k \in ConfigKind : UpsertConfig(s, k)
       \/ \E enabled, hasCreds \in BOOLEAN : SetSync(s, enabled, hasCreds)
       \/ DeleteConfig(s)

-----------------------------------------------------------------------------
JobNext == \E j \in Job : JobStep(j)
DNext == Edit \/ JobNext \/ Configure

DeploySafety == DInit /\ [][DNext]_dvars

\* A job's statements run: the event loop goes on, and an SFTP call ends, one way
\* or the other (ssh2's timeouts).  Nothing obliges anybody to edit or to configure.
DeployFairness == \A j \in Job : WF_dvars(JobStep(j))
DeploySpec == DeploySafety /\ DeployFairness

-----------------------------------------------------------------------------
(* What must hold.                                                         *)

DeployTypeOK ==
  /\ live \in [Server -> SUBSET Item]
  /\ config \in [Server -> ConfigKind]
  /\ job \in [Job -> DeployJob]
  /\ file \in [Target -> File]
  /\ ver \in [Server -> Nat]
  /\ put \in [Server -> Nat]
  /\ excused \in [Server -> BOOLEAN]
  /\ fails \in Nat

\* Job j still has to read server s's entries.
WillRead(j, s) ==
  \/ job[j].at = "begin" /\ job[j].scope \in {s, All}
  \/ s \in job[j].todo
  \/ job[j].cur = s /\ job[j].at \in {"config", "snapshot"}

\* Job j has read server s's current entries and is about to put them.
Carries(j, s) ==
  job[j].at = "put" /\ job[j].cur = s /\ job[j].target = s /\ job[j].seen = ver[s]

\* Staleness is accounted for: when the file of a configured server is out of date, a
\* deploy that will refresh it is under way, or one of the known causes has struck (a
\* read or an upload failed, an upload overtook a newer one, a change started no deploy, the configuration
\* was changed).  triggerSftpDeploy loses no server and no change in any other way.
StaleIsAccounted ==
  \A s \in Server :
    config[s] = "on" /\ put[s] # ver[s]
      => excused[s] \/ \E j \in Job : WillRead(j, s) \/ Carries(j, s)

\* A deploy carries at least the change that asked for it: the entries are read after
\* the write that fired the job, whichever other jobs run.
CarriesItsChange ==
  \A j \in Job : job[j].at = "put" /\ job[j].cur \in Server
                   => job[j].seen >= job[j].asked[job[j].cur]

\* A complete file of a server with its own target lists what the database held when
\* that version was current; in particular an up-to-date version is the live list.
FileIsLive ==
  \A s \in Server : file[s].whole /\ file[s].of # None /\ put[s] = ver[s] => file[s].items = live[s]
=============================================================================
