------------------------------ MODULE RoleRows ------------------------------
(***************************************************************************)
(* The UserRole rows and their two writers: POST /auth/sync                *)
(* (routes/auth.ts) for one member, syncAllUserRoles (lib/role-sync.ts) for *)
(* all of them, every two minutes and with nothing that keeps two runs      *)
(* apart.  Both replace a member's rows by deleteMany and createMany, in no *)
(* transaction; a row that is there already, or whose member or role is     *)
(* gone, makes createMany throw.                                           *)
(***************************************************************************)
EXTENDS Naturals

CONSTANTS
  Member, Role, None,
  Call,       \* slots for sign-ins in flight
  Job,        \* slots for runs of the job
  MaxTrouble  \* bound on sign-ins, overlapping runs, and what Discord, staff and failures do

VARIABLES
  inGuild, \* inGuild[m], guild[m]: the guild as Discord has it
  guild,
  known,   \* DiscordRole rows, and those of them with isMemberRole
  marked,
  there,   \* User rows
  rows,    \* rows[m]: the roles m has UserRole rows for
  sign,    \* sign-ins in flight
  job,     \* runs of syncAllUserRoles
  trouble

rvars == <<inGuild, guild, known, marked, there, rows, sign, job, trouble>>
tables == <<known, marked, there, rows>>
discord == <<inGuild, guild>>

-----------------------------------------------------------------------------
NoSign == [at |-> "idle", who |-> None, roles |-> {}]
Signing == [at : {"idle", "account", "match", "delete", "create"}, who : Member \cup {None},
            roles : SUBSET Role]

\* A run keeps what it read: the guild's members, the mapped roles, the users with
\* their rows.  `left` are the users, then the members, still to be looked at.
NoRun == [at |-> "idle", members |-> {}, roles |-> [m \in Member |-> {}], known |-> {},
          marked |-> {}, users |-> {}, was |-> [m \in Member |-> {}], left |-> {}, cur |-> None]
Running == [at : {"idle", "roles", "users", "loop", "create", "members"}, members : SUBSET Member,
            roles : [Member -> SUBSET Role], known : SUBSET Role, marked : SUBSET Role,
            users : SUBSET Member, was : [Member -> SUBSET Role], left : SUBSET Member,
            cur : Member \cup {None}]

RInit ==
  /\ inGuild \in [Member -> BOOLEAN]
  /\ guild \in [Member -> SUBSET Role] /\ \A m \in Member : ~inGuild[m] => guild[m] = {}
  /\ known \in SUBSET Role /\ marked \in SUBSET known
  /\ there = {}
  /\ rows = [m \in Member |-> {}]
  /\ sign = [c \in Call |-> NoSign]
  /\ job = [j \in Job |-> NoRun]
  /\ trouble = 0

Troubled == trouble < MaxTrouble /\ trouble' = trouble + 1
Calm == UNCHANGED trouble

-----------------------------------------------------------------------------
DeleteMany(m) == rows' = [rows EXCEPT ![m] = {}]

\* createMany of one row for each of R: all of them or none.
Creatable(m, R) == m \in there /\ R \subseteq known /\ R \cap rows[m] = {}
CreateMany(m, R) == rows' = [rows EXCEPT ![m] = @ \cup R]

(* POST /auth/sync, past the cache.                                        *)

SignIn(c, m) ==
  /\ sign[c].at = "idle" /\ inGuild[m] /\ Troubled
  /\ sign' = [sign EXCEPT ![c] = [at |-> "account", who |-> m, roles |-> guild[m]]]
  /\ UNCHANGED <<discord, tables, job>>

Upsert(c) ==
  /\ sign[c].at = "account"
  /\ there' = there \cup {sign[c].who}
  /\ sign' = [sign EXCEPT ![c].at = "match"]
  /\ UNCHANGED <<discord, known, marked, rows, job>> /\ Calm

Match(c) ==
  /\ sign[c].at = "match"
  /\ sign' = [sign EXCEPT ![c].at = "delete", ![c].roles = @ \cap known]
  /\ UNCHANGED <<discord, tables, job>> /\ Calm

SignDelete(c) ==
  /\ sign[c].at = "delete"
  /\ DeleteMany(sign[c].who)
  /\ sign' = [sign EXCEPT ![c] = IF @.roles = {} THEN NoSign ELSE [@ EXCEPT !.at = "create"]]
  /\ UNCHANGED <<discord, known, marked, there, job>> /\ Calm

\* Whether createMany succeeds or throws, the call ends.
SignCreate(c) ==
  LET q == sign[c] IN
  /\ q.at = "create"
  /\ IF Creatable(q.who, q.roles) THEN CreateMany(q.who, q.roles) ELSE UNCHANGED rows
  /\ sign' = [sign EXCEPT ![c] = NoSign]
  /\ UNCHANGED <<discord, known, marked, there, job>> /\ Calm

SignStep(c) == Upsert(c) \/ Match(c) \/ SignDelete(c) \/ SignCreate(c)

-----------------------------------------------------------------------------
(* syncAllUserRoles.                                                       *)

\* The interval fires.  That the run before has not ended yet is possible, and counted as
\* a trouble: runs that always overlap would undo each other's work for ever.
FetchMembers(j) ==
  /\ job[j].at = "idle"
  /\ IF \A i \in Job : job[i].at = "idle" THEN Calm ELSE Troubled
  /\ job' = [job EXCEPT ![j] = [NoRun EXCEPT !.at = "roles",
                                  !.members = {m \in Member : inGuild[m]}, !.roles = guild]]
  /\ UNCHANGED <<discord, tables, sign>>

ReadRoles(j) ==
  /\ job[j].at = "roles"
  /\ job' = [job EXCEPT ![j].at = "users", ![j].known = known, ![j].marked = marked]
  /\ UNCHANGED <<discord, tables, sign>> /\ Calm

ReadUsers(j) ==
  /\ job[j].at = "users"
  /\ job' = [job EXCEPT ![j].at = "loop", ![j].users = there, ![j].was = rows, ![j].left = there]
  /\ UNCHANGED <<discord, tables, sign>> /\ Calm

Expected(j, m) == job[j].roles[m] \cap job[j].known

Settled_Subset(j, m) == Expected(j, m) \subseteq job[j].was[m]  \* fault: sizes not compared

\* The rows that the run read are the ones it wants: it leaves the member alone.
Settled(j, m) == Expected(j, m) = job[j].was[m]

\* The next user of the loop: skipped, or its rows deleted to be written anew.
NextUser(j, m) ==
  LET q == job[j] IN
  /\ q.at = "loop" /\ m \in q.left
  /\ IF m \notin q.members \/ Settled(j, m)
       THEN job' = [job EXCEPT ![j].left = @ \ {m}] /\ UNCHANGED rows
       ELSE /\ DeleteMany(m)
            /\ job' = [job EXCEPT ![j].left = @ \ {m},
                         ![j].at = IF Expected(j, m) = {} THEN "loop" ELSE "create",
                         ![j].cur = IF Expected(j, m) = {} THEN None ELSE m]
  /\ UNCHANGED <<discord, known, marked, there, sign>> /\ Calm

\* createMany throws into the run's caller: the users still to do are not done.
JobCreate(j) ==
  LET q == job[j] IN
  /\ q.at = "create"
  /\ IF Creatable(q.cur, Expected(j, q.cur))
       THEN /\ CreateMany(q.cur, Expected(j, q.cur))
            /\ job' = [job EXCEPT ![j].at = "loop", ![j].cur = None]
       ELSE job' = [job EXCEPT ![j] = NoRun] /\ UNCHANGED rows
  /\ UNCHANGED <<discord, known, marked, there, sign>> /\ Calm

\* Members of the guild with a marked role that the run has not seen a user for.
Unseen(j) ==
  {m \in job[j].members \ job[j].users : job[j].roles[m] \cap job[j].marked # {}}

EndLoop(j) ==
  /\ job[j].at = "loop" /\ job[j].left = {}
  /\ job' = [job EXCEPT ![j] = IF Unseen(j) = {} THEN NoRun
                               ELSE [@ EXCEPT !.at = "members", !.left = Unseen(j)]]
  /\ UNCHANGED <<discord, tables, sign>> /\ Calm

\* user.create with its role rows; a member created meanwhile, or a role removed
\* meanwhile, makes it fail, which is logged and passed over.
CreateUser(j, m) ==
  LET q == job[j] IN
  /\ q.at = "members" /\ m \in q.left
  /\ IF m \notin there /\ Expected(j, m) \subseteq known
       THEN /\ there' = there \cup {m}
            /\ rows' = [rows EXCEPT ![m] = Expected(j, m)]
       ELSE UNCHANGED <<there, rows>>
  /\ job' = [job EXCEPT ![j] = IF q.left = {m} THEN NoRun ELSE [q EXCEPT !.left = @ \ {m}]]
  /\ UNCHANGED <<discord, known, marked, sign>> /\ Calm

JobStep(j) ==
  \/ FetchMembers(j) \/ ReadRoles(j) \/ ReadUsers(j) \/ JobCreate(j) \/ EndLoop(j)
  \/ \E m \in Member : NextUser(j, m) \/ CreateUser(j, m)

-----------------------------------------------------------------------------
(* Discord, staff and failures.                                            *)

GuildChanges(m) ==
  /\ Troubled
  /\ \/ /\ inGuild' = [inGuild EXCEPT ![m] = TRUE]
        /\ \E R \in SUBSET Role : guild' = [guild EXCEPT ![m] = R]
     \/ /\ inGuild' = [inGuild EXCEPT ![m] = FALSE]
        /\ guild' = [guild EXCEPT ![m] = {}]
  /\ UNCHANGED <<tables, sign, job>>

\* POST /roles; PATCH /roles/:id { isMemberRole }
SetRole(r, member) ==
  /\ Troubled
  /\ known' = known \cup {r}
  /\ marked' = IF member THEN marked \cup {r} ELSE marked \ {r}
  /\ UNCHANGED <<discord, there, rows, sign, job>>

\* DELETE /roles/:id; its UserRole rows go with it.
DeleteRole(r) ==
  /\ r \in known /\ Troubled
  /\ known' = known \ {r} /\ marked' = marked \ {r}
  /\ rows' = [m \in Member |-> rows[m] \ {r}]
  /\ UNCHANGED <<discord, there, sign, job>>

\* DELETE /users/:id
DeleteUser(m) ==
  /\ m \in there /\ Troubled
  /\ there' = there \ {m} /\ DeleteMany(m)
  /\ UNCHANGED <<discord, known, marked, sign, job>>

\* Discord or the database refuses the next step.
Breaks ==
  /\ Troubled
  /\ \/ \E c \in Call : sign[c].at # "idle" /\ sign' = [sign EXCEPT ![c] = NoSign] /\ UNCHANGED job
     \/ \E j \in Job : job[j].at # "idle" /\ job' = [job EXCEPT ![j] = NoRun] /\ UNCHANGED sign
  /\ UNCHANGED <<discord, tables>>

RNext ==
  \/ \E c \in Call : SignStep(c) \/ \E m \in Member : SignIn(c, m)
  \/ \E j \in Job : JobStep(j)
  \/ \E m \in Member : GuildChanges(m) \/ DeleteUser(m)
  \/ \E r \in Role : DeleteRole(r) \/ \E b \in BOOLEAN : SetRole(r, b)
  \/ Breaks

RSafety == RInit /\ [][RNext]_rvars

\* A call and a run go on, and the interval starts the next run after the last.
RFairness ==
  /\ \A c \in Call : WF_rvars(SignStep(c))
  /\ \A j \in Job : WF_rvars(JobStep(j) /\ Calm)
RSpec == RSafety /\ RFairness

-----------------------------------------------------------------------------
RTypeOK ==
  /\ inGuild \in [Member -> BOOLEAN] /\ guild \in [Member -> SUBSET Role]
  /\ known \subseteq Role /\ marked \subseteq known
  /\ there \subseteq Member
  /\ rows \in [Member -> SUBSET Role]
  /\ sign \in [Call -> Signing] /\ job \in [Job -> Running]
  /\ trouble \in Nat

\* Whatever the two writers did to each other (one's rows deleted by the other, rows of two
\* fetches mixed, a run cut short), once Discord and staff leave things alone every guild
\* member's rows come to be the mapped roles that Discord says, and everybody in the guild
\* with a member role has an account.
RolesSettle ==
  \A m \in Member : <>[](inGuild[m] =>
    /\ m \in there => rows[m] = guild[m] \cap known
    /\ guild[m] \cap marked # {} => m \in there)
=============================================================================
