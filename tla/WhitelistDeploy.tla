--------------------------- MODULE WhitelistDeploy ---------------------------
(***************************************************************************)
(* The whitelist and its deploy pipeline together: MemberWhitelist's       *)
(* handlers change the table and start deploys, SftpDeploy's jobs read the  *)
(* table as it is when they get to it and put what they read.              *)
(***************************************************************************)
EXTENDS MemberWhitelist

CONSTANTS Job, Env, EnvCreds, EnvSync, Kinds, Reconfigure, MaxVersion, MaxFail

VARIABLES config, job, file, ver, put, excused, fails

deployVars == <<config, job, file, ver, put, excused, fails>>
sysVars == <<vars, deployVars>>

Live_WithDormant == [v \in Server |->  \* fault: the deactivatedAt filter is missing
  {entry[e].steam : e \in {r \in Rows : entry[r].until # "past" /\ entry[r].server = v}}]

\* What generateAdminsCfg(server) lists: the rows neither deactivated nor expired.
Live == [v \in Server |-> Listed(v)]

Deploy == INSTANCE SftpDeploy WITH live <- Live, Item <- Steam

ASSUME PipelineAssumption == Deploy!DeployAssumption

SysInit == Init /\ Deploy!DInit

\* A handler's step, with the deploys it starts.
Staff == Next /\ Deploy!Change(fired')

\* A step of a deploy or of its configuration.
Quietly == fired' = {} /\ UNCHANGED <<user, entry, call, history, owed>>
Background == Quietly /\ (Deploy!JobNext \/ Deploy!Configure)

SysNext == Staff \/ Background

\* Handlers run to their end and so do deploys; nobody is obliged to start either.
SysFairness ==
  /\ \A c \in Call : WF_sysVars(Continue(c) /\ Owe /\ Deploy!Change(fired'))
  /\ \A j \in Job : WF_sysVars(Quietly /\ Deploy!JobStep(j))

SysSafety == SysInit /\ [][SysNext]_sysVars
SysSpec == SysSafety /\ SysFairness

-----------------------------------------------------------------------------
\* The rows that disabling their owner removed, and that nothing else keeps listed.
Pulled(e) ==
  /\ entry[e].there /\ entry[e].dormant
  /\ entry[e].owner # None /\ user[entry[e].owner].disabled

InGame(e) == entry[e].steam \in file[entry[e].server].items

\* "Disabling a member immediately removes their in-game whitelist": while a pulled row
\* is still in the file of a configured server, a deploy that will take it out is under
\* way, or that server's file is known to be stale for a cause of SftpDeploy's.
PulledRowsLeaveTheGame ==
  \A e \in Entry : Pulled(e) /\ config[entry[e].server] = "on" /\ InGame(e)
     => LET v == entry[e].server IN
        excused[v] \/ \E j \in Job : Deploy!WillRead(j, v) \/ Deploy!Carries(j, v)

\* The promise as the design document makes it: once nothing is in flight any more and
\* no upload has failed, a row that disabling pulled is out of the game.
DisabledOutOfGame ==
  (Quiet /\ (\A j \in Job : job[j].at = "idle") /\ fails = 0)
     => \A e \in Entry : Pulled(e) /\ config[entry[e].server] = "on" => ~InGame(e)

\* Once the whitelist stays as it is, every configured server gets it, or has a cause
\* of SftpDeploy's not to.
WhitelistReachesServers ==
  <>[](\A v \in Server : config[v] = "on" => put[v] = ver[v] \/ excused[v])
=============================================================================
