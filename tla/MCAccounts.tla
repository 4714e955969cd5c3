----------------------------- MODULE MCAccounts -----------------------------
(***************************************************************************)
(* What the services know of who is signed in, checked side by side:        *)
(* sessions (Sessions), the rows of the members' roles (RoleRows) and the   *)
(* roster of who is online (Presence).  They share no state here, so `part`  *)
(* says which of them a behaviour is about, and the others stay as they      *)
(* began.  What a part chooses at the start is pinned down while it is not   *)
(* the one that moves.                                                     *)
(***************************************************************************)
EXTENDS Sessions, FiniteSets

CONSTANTS User, Job, Developers, Path, MaxMoves

VARIABLES
  part,
  rGuild, rInGuild, known, marked, there, rows, sign, job, rTrouble,            \* RoleRows
  path, hide, given, current, opened, roster, socket, clients, missed, moves    \* Presence

Rows == INSTANCE RoleRows WITH Member <- User, guild <- rGuild, inGuild <- rInGuild,
                               trouble <- rTrouble
Online == INSTANCE Presence

\* None is no roster: a page that has been sent nothing is told from one that has.
ASSUME RosterAssumption == None \notin [User -> Path \cup {None}]

sessionVars == vars
rowVars == <<rGuild, rInGuild, known, marked, there, rows, sign, job, rTrouble>>
onlineVars == <<path, hide, given, current, opened, roster, socket, clients, missed, moves>>
allVars == <<part, sessionVars, rowVars, onlineVars>>

AccountsInit ==
  /\ part \in {"sessions", "rows", "online"}
  /\ Init /\ Rows!RInit /\ Online!Init
  /\ part # "sessions" => grants = [r \in Role |-> {}] /\ inGuild = [m \in Member |-> FALSE]
  /\ part # "rows" => known = {} /\ rInGuild = [m \in User |-> FALSE]
  /\ part # "online" => path = [u \in User |-> CHOOSE p \in Path : TRUE]

AccountsNext ==
  \/ part = "sessions" /\ Next /\ UNCHANGED <<part, rowVars, onlineVars>>
  \/ part = "rows" /\ Rows!RNext /\ UNCHANGED <<part, sessionVars, onlineVars>>
  \/ part = "online" /\ Online!Next /\ UNCHANGED <<part, sessionVars, rowVars>>

\* The fairness of the parts, for the part that moves; nothing is asked of Presence.
SessionsFairness ==
  /\ \A c \in Call : WF_sessionVars(part = "sessions" /\ Progress(c))
  /\ \A m \in Member : /\ WF_sessionVars(part = "sessions" /\ Load(m))
                       /\ WF_sessionVars(part = "sessions" /\ Poll(m))
                       /\ WF_sessionVars(part = "sessions" /\ ClearSyncCache(m))
  /\ WF_sessionVars(part = "sessions" /\ EditDelete)
  /\ WF_sessionVars(part = "sessions" /\ EditCreate)
  /\ WF_sessionVars(part = "sessions" /\ Tick)

RowsFairness ==
  /\ \A c \in Call : WF_rowVars(part = "rows" /\ Rows!SignStep(c))
  /\ \A j \in Job : WF_rowVars(part = "rows" /\ Rows!JobStep(j) /\ Rows!Calm)

AccountsSpec == AccountsInit /\ [][AccountsNext]_allVars /\ SessionsFairness /\ RowsFairness

-----------------------------------------------------------------------------
(* What the run checks beside the properties of Sessions, each for the part *)
(* it speaks of.                                                           *)

\* Once the guild and the known roles stand still, a member's rows come to be the known roles
\* held there, however sign-ins and the synchronisation job overlapped (RoleRows).
RolesSettle == Rows!RolesSettle

\* Once all messages are delivered, every page shows who is online, and where (Presence).
RosterIsTrue == part = "online" => Online!RosterIsTrue
=============================================================================
