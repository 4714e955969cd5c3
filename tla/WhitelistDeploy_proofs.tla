----------------------- MODULE WhitelistDeploy_proofs -----------------------
(***************************************************************************)
(* What the proofs about MemberWhitelist and SftpDeploy say of the modules  *)
(* that put them together.  In WhitelistDeploy, the rows that disabling     *)
(* removed leave the servers' files: the unique index of the table and the  *)
(* invariant of the pipeline together.  In MCMemberWhitelist, a second      *)
(* table whose handlers run one at a time stays in sync with its members.   *)
(***************************************************************************)
EXTENDS WhitelistDeploy, MCMemberWhitelist, MemberWhitelist_proofs

Pipeline == INSTANCE SftpDeploy_proofs WITH live <- Live, Item <- Steam

SerialTable == INSTANCE MemberWhitelist_proofs WITH
  User <- SerialUser, Steam <- SerialSteam, Server <- SerialServer,
  Entry <- SerialEntry, Call <- SerialCall, Protected <- SerialProtected,
  SecretaryDb <- FALSE, Expiries <- SerialExpiries, BulkMax <- SerialBulkMax,
  user <- serialUser, entry <- serialEntry, call <- serialCall,
  fired <- serialFired, by <- serialBy, late <- serialLate, held <- serialHeld,
  reverted <- serialReverted, owed <- serialOwed

\* The whitelist's part of the state stays within its own invariant.
LEMMA TableStep == WInv /\ [SysNext]_sysVars => WInv'
<1> SUFFICES ASSUME WInv, [SysNext]_sysVars PROVE WInv'
  OBVIOUS
<1>1. CASE Staff
  BY <1>1, Inductive DEF Staff
<1>2. CASE Background
  <2>1. fired' = {} /\ UNCHANGED <<user, entry, call, history>>
    BY <1>2 DEF Background, Quietly
  <2>2. CallShape'
    BY <2>1, CallsKept DEF history
  <2> QED
    BY <2>1, <2>2, UntilStep DEF WInv, TableTypeOK
<1>3. CASE UNCHANGED sysVars
  BY <1>3, Inductive DEF sysVars
<1> QED
  BY <1>1, <1>2, <1>3 DEF SysNext

\* What generateAdminsCfg reads depends on the rows only.
LEMMA LiveKept == UNCHANGED entry => Live' = Live
  BY DEF Live, Listed, Active

\* A step of the composition is a step of SftpDeploy, or leaves it alone.
LEMMA DeployStep == WInv /\ [SysNext]_sysVars => [Deploy!DNext]_Deploy!dvars
<1> SUFFICES ASSUME WInv, [SysNext]_sysVars PROVE [Deploy!DNext]_Deploy!dvars
  OBVIOUS
<1>0. WInv'
  BY TableStep
<1>1. CASE Staff
  <2>1. fired' \in SUBSET (Server \cup {All})
    BY <1>0 DEF WInv, TableTypeOK
  <2>2. Live' \in [Server -> SUBSET Steam]
    BY <1>0 DEF WInv, RowShape, Live, Listed, Active
  <2>3. Deploy!Change(fired')
    BY <1>1 DEF Staff
  <2> QED
    BY <2>1, <2>2, <2>3 DEF Deploy!DNext, Deploy!Edit
<1>2. CASE Background
  BY <1>2 DEF Background, Deploy!DNext
<1>3. CASE UNCHANGED sysVars
  <2>1. UNCHANGED entry /\ UNCHANGED deployVars
    BY <1>3 DEF sysVars, vars
  <2> QED
    BY <2>1, LiveKept DEF deployVars, Deploy!dvars
<1> QED
  BY <1>1, <1>2, <1>3 DEF SysNext

-----------------------------------------------------------------------------
(* What SftpDeploy's theorems say of the composition.                      *)

\* The theorems of SftpDeploy_proofs speak of SftpDeploy as Pipeline instantiates it:
\* definition by definition the same as Deploy.
LEMMA SameStep == [Deploy!DNext]_Deploy!dvars => [Pipeline!DNext]_Pipeline!dvars
  BY DEF Deploy!Target, Pipeline!Target, Deploy!ConfigKind, Pipeline!ConfigKind,
         Deploy!Enabled, Pipeline!Enabled, Deploy!Stage, Pipeline!Stage, Deploy!DeployJob,
         Pipeline!DeployJob, Deploy!NoJob, Pipeline!NoJob, Deploy!Generate,
         Pipeline!Generate, Deploy!Fire, Pipeline!Fire, Deploy!Track, Pipeline!Track,
         Deploy!Change, Pipeline!Change, Deploy!Edit, Pipeline!Edit, Deploy!After,
         Pipeline!After, Deploy!TriggerSftpDeploy, Pipeline!TriggerSftpDeploy,
         Deploy!NextServer, Pipeline!NextServer, Deploy!ReadConfig, Pipeline!ReadConfig,
         Deploy!Snapshot, Pipeline!Snapshot, Deploy!Write, Pipeline!Write, Deploy!PutFile,
         Pipeline!PutFile, Deploy!FailPut, Pipeline!FailPut, Deploy!FailRead, Pipeline!FailRead, Deploy!JobStep,
         Pipeline!JobStep, Deploy!SetConfig, Pipeline!SetConfig, Deploy!UpsertConfig,
         Pipeline!UpsertConfig, Deploy!SetSync, Pipeline!SetSync, Deploy!DeleteConfig,
         Pipeline!DeleteConfig, Deploy!Configure, Pipeline!Configure, Deploy!JobNext,
         Pipeline!JobNext, Deploy!DNext, Pipeline!DNext, Deploy!dvars, Pipeline!dvars

LEMMA SameInit == Deploy!DInit => Pipeline!DInit
  BY DEF Deploy!DInit, Pipeline!DInit, Deploy!NoJob, Pipeline!NoJob, Deploy!Target, Pipeline!Target

LEMMA SameConstants == Pipeline!DeployAssumption
  BY PipelineAssumption DEF Deploy!DeployAssumption, Pipeline!DeployAssumption

\* The invariant of the composition: of the rows, of the jobs, and of the files.
SysInv == SlotInv /\ Pipeline!SInv /\ Pipeline!BlankFiles

LEMMA SysInvInit == SysInit => SysInv
<1> SUFFICES ASSUME SysInit PROVE SysInv
  OBVIOUS
<1>1. SlotsAreUnique /\ EditsInPlace
  BY DEF SysInit, Init, SlotsAreUnique, EditsInPlace, Rows, NoRow, Idle
<1>2. Pipeline!SInv /\ Pipeline!BlankFiles
  BY SameInit, SameConstants, Pipeline!SInvInit, Pipeline!BlankInit DEF SysInit
<1> QED
  BY <1>1, <1>2, Inductive DEF SysInit, SysInv, SlotInv

LEMMA SysInvStep == SysInv /\ [SysNext]_sysVars => SysInv'
<1> SUFFICES ASSUME SysInv, [SysNext]_sysVars PROVE SysInv'
  OBVIOUS
<1>1. WInv' /\ [Pipeline!DNext]_Pipeline!dvars
  BY TableStep, DeployStep, SameStep DEF SysInv, SlotInv
<1>2. Pipeline!SInv' /\ Pipeline!BlankFiles'
  BY <1>1, SameConstants, Pipeline!SInvStep, Pipeline!BlankStep DEF SysInv
<1>3. SlotsAreUnique' /\ EditsInPlace'
  <2>1. CASE Next
    BY <2>1, SlotStep DEF SysInv
  <2>2. CASE UNCHANGED <<entry, call>>
    BY <2>2 DEF SysInv, SlotInv, SlotsAreUnique, EditsInPlace, Rows
  <2> QED
    BY <2>1, <2>2 DEF SysNext, Staff, Background, Quietly, sysVars, vars
<1> QED
  BY <1>1, <1>2, <1>3 DEF SysInv, SlotInv

\* For any number of members, rows, servers, handlers and deploys in flight: a row that
\* disabling its member removed is out of the server's file, or a deploy that will take
\* it out is under way, or the file is stale for one of the causes SftpDeploy names.
THEOREM DisablingLeavesTheGame == SysSafety => []PulledRowsLeaveTheGame
<1>1. SysInv => PulledRowsLeaveTheGame
  <2> SUFFICES ASSUME SysInv, NEW e \in Entry, Pulled(e), config[entry[e].server] = "on", InGame(e)
               PROVE  LET v == entry[e].server IN
                      excused[v] \/ \E j \in Job : Deploy!WillRead(j, v) \/ Deploy!Carries(j, v)
    BY DEF PulledRowsLeaveTheGame
  <2> DEFINE v == entry[e].server
  <2>1. v \in Server /\ entry[e].steam \in file[v].items
    BY DEF SysInv, SlotInv, WInv, RowShape, Pulled, InGame
  <2>2. entry[e].steam \notin Live[v]
    BY <2>1 DEF SysInv, SlotInv, SlotsAreUnique, Rows, Live, Listed, Active, Pulled
  <2>3. file[v].of # None /\ file[v].whole
    <3>1. file \in [Pipeline!Target -> Pipeline!File] /\ v \in Pipeline!Target
      BY <2>1 DEF SysInv, Pipeline!SInv, Pipeline!DeployTypeOK, Pipeline!Target
    <3> QED
      BY <2>1, <3>1 DEF SysInv, Pipeline!BlankFiles
  <2>4. put[v] # ver[v]
    BY <2>1, <2>2, <2>3 DEF SysInv, Pipeline!SInv, Pipeline!FileIsLive
  <2>5. excused[v] \/ \E j \in Job : Pipeline!Refreshes(job[j], v)
    BY <2>1, <2>4 DEF SysInv, Pipeline!SInv, Pipeline!Accounted
  <2> QED
    BY <2>5 DEF Pipeline!Refreshes, Deploy!WillRead, Deploy!Carries
<1> QED
  BY SysInvInit, SysInvStep, <1>1, PTL DEF SysSafety
-----------------------------------------------------------------------------
(* One handler at a time: the second table of MCMemberWhitelist.           *)

\* SerialTable speaks of MemberWhitelist as Serial instantiates it, definition by definition.
LEMMA SameHelpers ==
  SerialTable!Members = Serial!Members /\ \A S : SerialTable!Few(S) = Serial!Few(S)
<1>1. SerialTable!Members = Serial!Members
  BY DEF Serial!Members, SerialTable!Members
<1>2. \A S : SerialTable!Few(S) = Serial!Few(S)
  BY DEF Serial!Few, SerialTable!Few, Serial!Cardinality, SerialTable!Cardinality
<1> QED
  BY <1>1, <1>2

LEMMA SameRequest == \A c \in SerialCall : Serial!Request(c) => SerialTable!Request(c)
<1>1. \A c, s, v : Serial!StartAdd(c,s,v) => SerialTable!StartAdd(c,s,v)
  BY DEF Serial!StartAdd, SerialTable!StartAdd, Serial!Taken, SerialTable!Taken,
         Serial!Rows, SerialTable!Rows, Serial!Start, SerialTable!Start, Serial!Idle,
         SerialTable!Idle, Serial!history, SerialTable!history
<1>2. \A c, S, v : Serial!StartBulkAdd(c,S,v) => SerialTable!StartBulkAdd(c,S,v)
  BY DEF Serial!StartBulkAdd, SerialTable!StartBulkAdd, Serial!Taken, SerialTable!Taken,
         Serial!Rows, SerialTable!Rows, Serial!Start, SerialTable!Start, Serial!Idle,
         SerialTable!Idle, Serial!history, SerialTable!history
<1>3. \A c, e, s : Serial!StartEdit(c,e,s) => SerialTable!StartEdit(c,e,s)
  BY DEF Serial!StartEdit, SerialTable!StartEdit, Serial!Taken, SerialTable!Taken,
         Serial!Rows, SerialTable!Rows, Serial!Start, SerialTable!Start, Serial!Idle,
         SerialTable!Idle, Serial!history, SerialTable!history
<1>4. \A c, u, s : Serial!StartLink(c,u,s) => SerialTable!StartLink(c,u,s)
  BY DEF Serial!StartLink, SerialTable!StartLink, Serial!Members, SerialTable!Members,
         Serial!SteamFree, SerialTable!SteamFree, Serial!HeldBy, SerialTable!HeldBy,
         Serial!Start, SerialTable!Start, Serial!Idle, SerialTable!Idle, Serial!history,
         SerialTable!history
<1>5. \A c, u, s : Serial!StartBackfill(c,u,s) => SerialTable!StartBackfill(c,u,s)
  BY DEF Serial!StartBackfill, SerialTable!StartBackfill, Serial!Members,
         SerialTable!Members, Serial!Start, SerialTable!Start, Serial!Idle,
         SerialTable!Idle, Serial!history, SerialTable!history
<1>6. \A c, u, s : Serial!StartEditUser(c,u,s) => SerialTable!StartEditUser(c,u,s)
  BY DEF Serial!StartEditUser, SerialTable!StartEditUser, Serial!Members,
         SerialTable!Members, Serial!SteamFree, SerialTable!SteamFree, Serial!HeldBy,
         SerialTable!HeldBy, Serial!Start, SerialTable!Start, Serial!Idle,
         SerialTable!Idle, Serial!history, SerialTable!history
<1>7. \A c, E, t : Serial!StartBulkUpdate(c,E,t) => SerialTable!StartBulkUpdate(c,E,t)
  BY DEF Serial!StartBulkUpdate, SerialTable!StartBulkUpdate, Serial!SetUntil, SerialTable!SetUntil,
         Serial!Rows, SerialTable!Rows, Serial!Start, SerialTable!Start, Serial!Idle,
         SerialTable!Idle, Serial!history, SerialTable!history
<1> QED
  BY <1>1, <1>2, <1>3, <1>4, <1>5, <1>6, <1>7, SameHelpers DEF Serial!Request, SerialTable!Request

LEMMA SameSampleFrom ==
  \A c : /\ SerialTable!SampleFrom(c) = Serial!SampleFrom(c)
         /\ SerialTable!SampleFrom(c)' = Serial!SampleFrom(c)'
  BY DEF Serial!SampleFrom, SerialTable!SampleFrom, Serial!Rows, SerialTable!Rows

LEMMA SameContinue == \A c \in SerialCall : Serial!Continue(c) => SerialTable!Continue(c)
<1>1. \A c : Serial!LookupOwner(c) => SerialTable!LookupOwner(c)
  BY DEF Serial!LookupOwner, SerialTable!LookupOwner, Serial!FindUserIdForSteam,
         SerialTable!FindUserIdForSteam, Serial!HeldBy, SerialTable!HeldBy,
         Serial!Members, SerialTable!Members, Serial!history, SerialTable!history
<1>2. \A c, t : Serial!AddWrite(c,t) => SerialTable!AddWrite(c,t)
  BY DEF Serial!AddWrite, SerialTable!AddWrite, Serial!Finish, SerialTable!Finish,
         Serial!Idle, SerialTable!Idle, Serial!Creatable, SerialTable!Creatable,
         Serial!Taken, SerialTable!Taken, Serial!Rows, SerialTable!Rows, Serial!KeyOk,
         SerialTable!KeyOk, Serial!Members, SerialTable!Members, Serial!Insert,
         SerialTable!Insert, Serial!Fresh, SerialTable!Fresh, Serial!NewRow,
         SerialTable!NewRow
<1>3. \A c : Serial!BulkAddWrite(c) => SerialTable!BulkAddWrite(c)
  BY DEF Serial!BulkAddWrite, SerialTable!BulkAddWrite, Serial!Finish, SerialTable!Finish,
         Serial!Idle, SerialTable!Idle, Serial!Creatable, SerialTable!Creatable,
         Serial!Taken, SerialTable!Taken, Serial!Rows, SerialTable!Rows, Serial!KeyOk,
         SerialTable!KeyOk, Serial!Members, SerialTable!Members, Serial!Insert,
         SerialTable!Insert, Serial!Fresh, SerialTable!Fresh, Serial!NewRow,
         SerialTable!NewRow
<1>4. \A c, t : Serial!EditWrite(c,t) => SerialTable!EditWrite(c,t)
  <2>1. \A q : Serial!Editable(q) <=> SerialTable!Editable(q)
    BY DEF Serial!Editable, SerialTable!Editable, Serial!KeyOk, SerialTable!KeyOk,
           Serial!Members, SerialTable!Members, Serial!Rows, SerialTable!Rows
  <2>2. \A e, t : Serial!SetUntil(e, t) = SerialTable!SetUntil(e, t)
    BY DEF Serial!SetUntil, SerialTable!SetUntil
  <2>3. \A c : Serial!Finish(c) <=> SerialTable!Finish(c)
    BY DEF Serial!Finish, SerialTable!Finish, Serial!Idle, SerialTable!Idle
  <2> QED
    BY <2>1, <2>2, <2>3 DEF Serial!EditWrite, SerialTable!EditWrite
<1>5. \A c : Serial!WriteSteam(c) => SerialTable!WriteSteam(c)
  BY DEF Serial!WriteSteam, SerialTable!WriteSteam, Serial!Finish, SerialTable!Finish,
         Serial!Idle, SerialTable!Idle, Serial!Goto, SerialTable!Goto, Serial!SteamFree,
         SerialTable!SteamFree, Serial!HeldBy, SerialTable!HeldBy, Serial!Members,
         SerialTable!Members, Serial!SetSteam, SerialTable!SetSteam
<1>6. \A c : Serial!Unlink(c) => SerialTable!Unlink(c)
  BY DEF Serial!Unlink, SerialTable!Unlink, Serial!Goto, SerialTable!Goto, Serial!Owned,
         SerialTable!Owned, Serial!Rows, SerialTable!Rows
<1>7. \A c : Serial!Link(c) => SerialTable!Link(c)
  BY DEF Serial!Link, SerialTable!Link, Serial!Finish, SerialTable!Finish, Serial!Idle,
         SerialTable!Idle, Serial!Members, SerialTable!Members, Serial!Rows,
         SerialTable!Rows
<1>8. \A c : Serial!BackfillWrite(c) => SerialTable!BackfillWrite(c)
  BY DEF Serial!BackfillWrite, SerialTable!BackfillWrite, Serial!Finish, SerialTable!Finish,
         Serial!Idle, SerialTable!Idle, Serial!SteamFree, SerialTable!SteamFree,
         Serial!HeldBy, SerialTable!HeldBy, Serial!Members, SerialTable!Members,
         Serial!SetSteam, SerialTable!SetSteam
<1>9. \A c : Serial!SampleDeploy(c) => SerialTable!SampleDeploy(c)
  BY SameSampleFrom
     DEF Serial!SampleDeploy, SerialTable!SampleDeploy, Serial!Finish, SerialTable!Finish,
         Serial!Idle, SerialTable!Idle, Serial!history, SerialTable!history
<1> QED
  BY <1>1, <1>2, <1>3, <1>4, <1>5, <1>6, <1>7, <1>8, <1>9, SameHelpers
     DEF Serial!Continue, SerialTable!Continue

LEMMA SameHandler == Serial!Handler => SerialTable!Handler
<1>1. \A u : Serial!SignIn(u) => SerialTable!SignIn(u)
  BY DEF Serial!SignIn, SerialTable!SignIn, Serial!Born, SerialTable!Born
<1>2. \A u : Serial!Disable(u) => SerialTable!Disable(u)
  BY DEF Serial!Disable, SerialTable!Disable, Serial!Members, SerialTable!Members,
         Serial!Deactivate, SerialTable!Deactivate, Serial!Owned, SerialTable!Owned,
         Serial!Rows, SerialTable!Rows
<1>3. \A u : Serial!Enable(u) => SerialTable!Enable(u)
  BY DEF Serial!Enable, SerialTable!Enable, Serial!Members, SerialTable!Members,
         Serial!Reactivate, SerialTable!Reactivate, Serial!Owned, SerialTable!Owned,
         Serial!Rows, SerialTable!Rows
<1>4. \A u : Serial!DeleteUser(u) => SerialTable!DeleteUser(u)
  BY DEF Serial!DeleteUser, SerialTable!DeleteUser, Serial!Members, SerialTable!Members,
         Serial!RemoveUsers, SerialTable!RemoveUsers, Serial!Owned, SerialTable!Owned,
         Serial!Rows, SerialTable!Rows
<1>5. \A U : Serial!BulkDisable(U) => SerialTable!BulkDisable(U)
  BY DEF Serial!BulkDisable, SerialTable!BulkDisable, Serial!Members, SerialTable!Members,
         Serial!Deactivate, SerialTable!Deactivate, Serial!Owned, SerialTable!Owned,
         Serial!Rows, SerialTable!Rows
<1>6. \A U : Serial!BulkEnable(U) => SerialTable!BulkEnable(U)
  BY DEF Serial!BulkEnable, SerialTable!BulkEnable, Serial!Members, SerialTable!Members,
         Serial!Reactivate, SerialTable!Reactivate, Serial!Owned, SerialTable!Owned,
         Serial!Rows, SerialTable!Rows
<1>7. \A U : Serial!BulkDeleteUsers(U) => SerialTable!BulkDeleteUsers(U)
  BY DEF Serial!BulkDeleteUsers, SerialTable!BulkDeleteUsers, Serial!Members,
         SerialTable!Members, Serial!RemoveUsers, SerialTable!RemoveUsers, Serial!Owned,
         SerialTable!Owned, Serial!Rows, SerialTable!Rows
<1>8. \A u, s : Serial!CreateMember(u,s) => SerialTable!CreateMember(u,s)
  BY DEF Serial!CreateMember, SerialTable!CreateMember, Serial!Born, SerialTable!Born,
         Serial!SteamFree, SerialTable!SteamFree, Serial!HeldBy, SerialTable!HeldBy,
         Serial!Members, SerialTable!Members
<1>9. \A e : Serial!DeleteEntry(e) => SerialTable!DeleteEntry(e)
  BY DEF Serial!DeleteEntry, SerialTable!DeleteEntry, Serial!Remove, SerialTable!Remove,
         Serial!NoRow, SerialTable!NoRow
<1>10. \A E : Serial!BulkDelete(E) => SerialTable!BulkDelete(E)
  BY DEF Serial!BulkDelete, SerialTable!BulkDelete, Serial!Remove, SerialTable!Remove,
         Serial!NoRow, SerialTable!NoRow, Serial!Rows, SerialTable!Rows
<1>11. Serial!RenameClan => SerialTable!RenameClan
  BY DEF Serial!RenameClan, SerialTable!RenameClan, Serial!Rows, SerialTable!Rows,
         Serial!history, SerialTable!history
<1> QED
  BY <1>1, <1>2, <1>3, <1>4, <1>5, <1>6, <1>7, <1>8, <1>9, <1>10, <1>11, SameHelpers
     DEF Serial!Handler, SerialTable!Handler

LEMMA SameListed == \A v : /\ SerialTable!Listed(v) = Serial!Listed(v)
                          /\ SerialTable!Listed(v)' = Serial!Listed(v)'
  BY DEF Serial!Listed, SerialTable!Listed, Serial!Active, SerialTable!Active

LEMMA SameOwe == Serial!Owe => SerialTable!Owe
<1>1. \A v : SerialTable!Skipped(v) <=> Serial!Skipped(v)
  BY SameSampleFrom DEF Serial!Skipped, SerialTable!Skipped
<1> QED
  BY <1>1, SameListed DEF Serial!Owe, SerialTable!Owe

LEMMA SameNext == Serial!Next => SerialTable!Next
<1>1. \A e : Serial!Expire(e) => SerialTable!Expire(e)
  BY DEF Serial!Expire, SerialTable!Expire, Serial!history, SerialTable!history
<1> QED
  BY <1>1, SameHandler, SameRequest, SameContinue, SameOwe DEF Serial!Next, SerialTable!Next

LEMMA SameSerialRest ==
  /\ Serial!Init => SerialTable!Init
  /\ SerialTable!ConstantsAssumption
  /\ SerialTable!LinksInSync => Serial!LinksInSync
  /\ SerialTable!EveryListChangeIsDeployed => Serial!EveryListChangeIsDeployed
  /\ SerialTable!OneAtATime
  BY SerialAssumption, SameSampleFrom
  DEF Serial!ConstantsAssumption, SerialTable!ConstantsAssumption, Serial!Init, SerialTable!Init,
      Serial!NoRow, SerialTable!NoRow, Serial!Idle, SerialTable!Idle, Serial!LinksInSync,
      SerialTable!LinksInSync, Serial!Quiet, SerialTable!Quiet, Serial!Rows, SerialTable!Rows, Serial!Members, SerialTable!Members,
      SerialTable!OneAtATime, Serial!EveryListChangeIsDeployed, SerialTable!EveryListChangeIsDeployed

SerialInv ==
  SerialTable!SlotInv /\ SerialTable!EveryListChangeIsDeployed /\ SerialTable!SyncInv

LEMMA SerialStep == SerialInv /\ [WNext]_<<part, vars, serialVars>> => [SerialTable!Next]_SerialTable!vars
  BY SameNext DEF WNext, serialVars, SerialTable!vars

LEMMA SerialInductive ==
  /\ WInit => SerialInv
  /\ SerialInv /\ [WNext]_<<part, vars, serialVars>> => SerialInv'
<1>1. WInit => SerialInv
  BY SameSerialRest, SerialTable!SlotInductive, SerialTable!SyncInit
     DEF WInit, SerialInv, SerialTable!Init, SerialTable!EveryListChangeIsDeployed
<1>2. SerialInv /\ [SerialTable!Next]_SerialTable!vars => SerialInv'
  <2>1. SerialInv /\ UNCHANGED SerialTable!vars => SerialTable!EveryListChangeIsDeployed'
    BY DEF SerialInv, SerialTable!vars, SerialTable!EveryListChangeIsDeployed,
           SerialTable!SampleFrom, SerialTable!Rows
  <2> QED
    BY <2>1, SameSerialRest, SerialTable!SlotInductive, SerialTable!SyncStep, SerialTable!OwedStep
       DEF SerialInv, SerialTable!SlotInv
<1> QED
  BY <1>1, <1>2, SerialStep

\* With one handler at a time and Steam IDs by the routes alone, every step leaves rows and
\* members agreeing on whose a row is, for any number of members, rows, servers and Steam IDs;
\* what comes back to life and what is deployed is as with any number of handlers.
THEOREM RowsFollowTheirMembers == WSpec => RowsFollowMembers
<1>1. SerialInv => Serial!LinksInSync /\ Serial!EveryListChangeIsDeployed
  BY SameSerialRest, SerialTable!SyncQuiet DEF SerialInv
<1>2. ASSUME SerialInv, SerialTable!Next
      PROVE  \A e \in SerialEntry :
               (serialEntry[e].there /\ serialEntry[e].dormant
                  /\ serialEntry'[e].there /\ ~serialEntry'[e].dormant)
                 => /\ serialEntry[e].owner \in Serial!Members
                    /\ ~serialUser'[serialEntry[e].owner].disabled
                    /\ All \in serialFired'
  BY <1>2, SameSerialRest, SameHelpers, SerialTable!ReviveStep DEF SerialInv
<1>3. SerialInv /\ [WNext]_<<part, vars, serialVars>>
        => [/\ SerialInv'
            /\ serialEntry' # serialEntry =>
                 \A e \in SerialEntry :
                   (serialEntry[e].there /\ serialEntry[e].dormant
                      /\ serialEntry'[e].there /\ ~serialEntry'[e].dormant)
                     => /\ serialEntry[e].owner \in Serial!Members
                        /\ ~serialUser'[serialEntry[e].owner].disabled
                        /\ All \in serialFired']_serialVars
  BY <1>2, SerialInductive, SerialStep DEF SerialTable!vars, serialVars
<1> QED
  BY <1>1, <1>3, SerialInductive, PTL DEF WSpec, RowsFollowMembers
=============================================================================
