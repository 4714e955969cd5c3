------------------------- MODULE MCMemberWhitelist -------------------------
(***************************************************************************)
(* MemberWhitelist checked in two instances side by side.  In the one that  *)
(* this module extends two handlers of several statements run at once, with *)
(* the backfill job, and contend for one row.  In Serial one runs at a time, *)
(* over several rows, servers and Steam IDs.  `part` says which of the two a *)
(* behaviour is about; the other stays as it began.                        *)
(***************************************************************************)
EXTENDS MemberWhitelist, TLC

CONSTANTS
  SerialUser, SerialSteam, SerialServer, SerialEntry, SerialCall, SerialProtected,
  SerialExpiries, SerialBulkMax,
  MaxAtOnce    \* bound on what races: members, Steam IDs and a row that expires

VARIABLES
  part,
  serialUser, serialEntry, serialCall, serialFired, serialBy, serialLate, serialHeld,
  serialReverted, serialOwed

Serial == INSTANCE MemberWhitelist WITH
            User <- SerialUser, Steam <- SerialSteam, Server <- SerialServer,
            Entry <- SerialEntry, Call <- SerialCall, Protected <- SerialProtected,
            SecretaryDb <- FALSE, Expiries <- SerialExpiries, BulkMax <- SerialBulkMax,
            user <- serialUser, entry <- serialEntry, call <- serialCall,
            fired <- serialFired, by <- serialBy, late <- serialLate, held <- serialHeld,
            reverted <- serialReverted, owed <- serialOwed

\* The second instance is one too, and no two of its handlers are in flight at once.
ASSUME SerialAssumption == Serial!ConstantsAssumption /\ \A c, d \in SerialCall : c = d

serialVars ==
  <<serialUser, serialEntry, serialCall, serialFired, serialBy, serialLate, serialHeld,
    serialReverted, serialOwed>>

\* What a race is about: two members and a Steam ID, a member and two Steam IDs, or one of
\* each and a row with an expiry.
Came == {u \in User : user[u].status # "unborn"}
Named == {s \in Steam : \/ \E u \in User : <<u, s>> \in held
                       \/ \E e \in Entry : entry[e].steam = s
                       \/ \E c \in Call : s \in call[c].steams \cup {call[c].new}}
Expiring == {e \in Rows : entry[e].until # "never"}
Bounded == Cardinality(Came) + Cardinality(Named) + Cardinality(Expiring) <= MaxAtOnce

WInit == part \in {"serial", "races"} /\ Init /\ Serial!Init

WNext ==
  \/ part = "races" /\ Next /\ Bounded' /\ UNCHANGED <<part, serialVars>>
  \/ part = "serial" /\ Serial!Next /\ UNCHANGED <<part, vars>>

WSpec == WInit /\ [][WNext]_<<part, vars, serialVars>>

\* Ids that no definition names.  A member is protected in Serial, so its members are not
\* among them.  The two instances share no id and one of them stays as it began: a swap of
\* ids of one is paired with a swap of ids of the other, which keeps the group small.
Swap(S, swapped) ==
  CHOOSE p \in Permutations(S) : \A x \in S : IF swapped THEN p[x] # x ELSE p[x] = x
IdSymmetry == {Swap(SerialSteam, a) @@ Swap(User, a) @@ Swap(SerialServer, b) @@ Swap(Call, b)
               @@ Swap(SerialEntry, c) @@ Swap(Steam, c)
                 : a \in BOOLEAN, b \in BOOLEAN, c \in BOOLEAN}

-----------------------------------------------------------------------------
\* With one handler at a time, and members who get Steam IDs by the routes alone, every step
\* leaves rows and members agreeing on whose a row is (LinksInSync); a dormant row that belongs
\* to somebody comes back to life by enabling him, with a deploy of every server; and over
\* several rows and servers too, a changed list has its deploy, or a bulk-update that will
\* start it or skips the server (OnlyEnableRevives, EveryListChangeIsDeployed).
RowsFollowMembers ==
  [][/\ Serial!LinksInSync'
     /\ Serial!EveryListChangeIsDeployed'
     /\ serialEntry' # serialEntry =>
          \A e \in SerialEntry :
            (serialEntry[e].there /\ serialEntry[e].dormant
               /\ serialEntry'[e].there /\ ~serialEntry'[e].dormant)
              => /\ serialEntry[e].owner \in Serial!Members
                 /\ ~serialUser'[serialEntry[e].owner].disabled
                 /\ All \in serialFired']_serialVars
=============================================================================
