----------------------------- MODULE ProspectDesk -----------------------------
(***************************************************************************)
(* What staff change about prospects (routes/prospects.ts): the settings     *)
(* (one row, patched field by field), the cooldowns that keep a user from    *)
(* applying, and the period of a prospect, paused, resumed and extended.     *)
(*                                                                         *)
(* The tables are in the secretary's MySQL database, which the Discord bot   *)
(* reads.  Requests interleave statement by statement; only creating a       *)
(* cooldown is a transaction, whose SELECT does not lock.                    *)
(***************************************************************************)
EXTENDS Naturals, FiniteSets, FiniteSetsExt

CONSTANTS
  Prospect, User,
  Row,        \* ids of cooldown rows
  Call,       \* requests in flight; a bound
  Hours,      \* values of the two settings modelled
  StartDefault, AcceptDefault,  \* of DEFAULT_PROSPECT_CONFIG
  Days,       \* extensions
  None,
  MaxCalls,   \* bound on requests
  MaxFails    \* bound on statements that fail

VARIABLES
  config,     \* the row of prospect_config, None when there is none
  cooldown,   \* cooldown[r]: row r, None when there is none
  paused,     \* paused[p]: paused_at is set
  extra,      \* extra[p]: extra_days
  logged,     \* logged[p]: the sum of the 'extended' events of p
  lost,       \* history: days whose event was never written
  call,
  calls, fails

period == <<paused, extra, logged, lost>>
vars == <<config, cooldown, period, call, calls, fails>>

-----------------------------------------------------------------------------
\* voteStartHours and voteAcceptHours: the two settings that restrict each other.
Config == [start : Hours, accept : Hours]
Patch == [start : Hours \cup {None}, accept : Hours \cup {None}]
Cooldown == [user : User, active : BOOLEAN]

Defaults == [start |-> StartDefault, accept |-> AcceptDefault]

Valid(v) == v.start <= v.accept

OrDefault(n, d) == IF n = 0 THEN d ELSE n

\* mapConfigRow: a missing row reads as the defaults, and so does a zero.
MapConfigRow(r) ==
  IF r = None THEN Defaults
  ELSE [start |-> OrDefault(r.start, Defaults.start),
        accept |-> OrDefault(r.accept, Defaults.accept)]

\* validateProspectConfigPatch: the fields given over the current ones.
Patched(v, patch) == [f \in DOMAIN v |-> IF patch[f] = None THEN v[f] ELSE patch[f]]

NoPatch == [start |-> None, accept |-> None]
Idle == [at |-> "idle", patch |-> NoPatch, value |-> Defaults,
         user |-> None, row |-> None, prospect |-> None, paused |-> None, days |-> 0]
Stages == {"idle", "read", "write", "select", "insert", "update", "find", "set", "remove",
           "exists", "pause", "pauseEvent", "extend", "extendEvent"}

Init ==
  /\ config \in {None, Defaults}
  /\ cooldown = [r \in Row |-> None]
  /\ paused = [p \in Prospect |-> FALSE]
  /\ extra = [p \in Prospect |-> 0] /\ logged = [p \in Prospect |-> 0]
  /\ lost = [p \in Prospect |-> 0]
  /\ call = [c \in Call |-> Idle]
  /\ calls = 0 /\ fails = 0

Begin(c, q) ==
  /\ call[c] = Idle /\ calls < MaxCalls
  /\ call' = [call EXCEPT ![c] = q] /\ calls' = calls + 1
  /\ UNCHANGED <<config, cooldown, period, fails>>

Goto(c, at) == call' = [call EXCEPT ![c].at = at]
End(c) == call' = [call EXCEPT ![c] = Idle]
Counted == UNCHANGED <<calls, fails>>

-----------------------------------------------------------------------------
(* PATCH /prospects/config.                                                *)

PatchConfig(c) ==
  \E patch \in Patch : Begin(c, [Idle EXCEPT !.at = "read", !.patch = patch])

\* The value to write is the current one with the fields given, as a whole; it is refused if
\* it is not valid.
Checked(c, current) ==
  LET value == Patched(current, call[c].patch) IN
  IF Valid(value) THEN call' = [call EXCEPT ![c].at = "write", ![c].value = value] ELSE End(c)

ReadConfig(c) ==
  /\ call[c].at = "read" /\ Checked(c, MapConfigRow(config))
  /\ Counted /\ UNCHANGED <<config, cooldown, period>>

\* The SELECT fails: the request goes on with the defaults.
ReadFails(c) ==
  /\ call[c].at = "read" /\ fails < MaxFails /\ Checked(c, Defaults)
  /\ fails' = fails + 1 /\ UNCHANGED <<config, cooldown, period, calls>>

WriteConfig_Fields(c) ==  \* fault: only the fields that were given are written
  /\ call[c].at = "write"
  /\ config' = IF config = None THEN call[c].value ELSE Patched(config, call[c].patch)
  /\ End(c)
  /\ Counted /\ UNCHANGED <<cooldown, period>>

\* INSERT ... ON DUPLICATE KEY UPDATE: all the fields.
WriteConfig(c) ==
  /\ call[c].at = "write"
  /\ config' = call[c].value /\ End(c)
  /\ Counted /\ UNCHANGED <<cooldown, period>>

-----------------------------------------------------------------------------
(* Cooldowns.                                                              *)

Active(u) == {r \in Row : cooldown[r] # None /\ cooldown[r].user = u /\ cooldown[r].active}

\* POST /prospects/cooldowns looks for an active row of the user, to give it a new expiry.
AddCooldown(c) == \E u \in User : Begin(c, [Idle EXCEPT !.at = "select", !.user = u])

SelectCooldown(c) ==
  /\ call[c].at = "select"
  /\ LET found == Active(call[c].user) IN
     IF found = {} THEN Goto(c, "insert")
     ELSE \E r \in found : call' = [call EXCEPT ![c].at = "update", ![c].row = r]
  /\ Counted /\ UNCHANGED <<config, cooldown, period>>

InsertCooldown(c) ==
  /\ call[c].at = "insert"
  /\ \E r \in Row : /\ cooldown[r] = None
                    /\ cooldown' = [cooldown EXCEPT ![r] = [user |-> call[c].user, active |-> TRUE]]
  /\ End(c) /\ Counted /\ UNCHANGED <<config, period>>

\* An UPDATE by id: of a row that was deleted meanwhile it changes nothing; one that has
\* expired is active again.
SetExpiry(c) ==
  /\ call[c].at \in {"update", "set"}
  /\ LET r == call[c].row IN
     cooldown' = IF cooldown[r] = None THEN cooldown ELSE [cooldown EXCEPT ![r].active = TRUE]
  /\ End(c) /\ Counted /\ UNCHANGED <<config, period>>

\* PATCH and DELETE /prospects/cooldowns/:id, of a row that some list once showed.
ChangeCooldown(c) ==
  \E r \in Row, at \in {"find", "remove"} : Begin(c, [Idle EXCEPT !.at = at, !.row = r])

FindCooldown(c) ==
  /\ call[c].at = "find"
  /\ IF cooldown[call[c].row] = None THEN End(c) ELSE Goto(c, "set")
  /\ Counted /\ UNCHANGED <<config, cooldown, period>>

DeleteCooldown(c) ==
  /\ call[c].at = "remove"
  /\ cooldown' = [cooldown EXCEPT ![call[c].row] = None]
  /\ End(c) /\ Counted /\ UNCHANGED <<config, period>>

\* The time of a row comes.
Expire(r) ==
  /\ cooldown[r] # None /\ cooldown[r].active
  /\ cooldown' = [cooldown EXCEPT ![r].active = FALSE]
  /\ UNCHANGED <<config, period, call, calls, fails>>

-----------------------------------------------------------------------------
(* PATCH /prospects/:id: one statement after the other, and an event after  *)
(* each.                                                                   *)

ChangePeriod(c) ==
  \E p \in Prospect, b \in {TRUE, FALSE, None}, d \in Days \cup {0} :
    /\ b # None \/ d > 0
    /\ Begin(c, [Idle EXCEPT !.at = "exists", !.prospect = p, !.paused = b, !.days = d])

ExtendOrEnd(c) == IF call[c].days > 0 THEN Goto(c, "extend") ELSE End(c)

Exists(c) ==
  /\ call[c].at = "exists"
  /\ IF call[c].paused # None THEN Goto(c, "pause") ELSE Goto(c, "extend")
  /\ Counted /\ UNCHANGED <<config, cooldown, period>>

Pause(c) ==
  /\ call[c].at = "pause"
  /\ paused' = [paused EXCEPT ![call[c].prospect] = call[c].paused]
  /\ Goto(c, "pauseEvent")
  /\ Counted /\ UNCHANGED <<config, cooldown, extra, logged, lost>>

PauseEvent(c) ==
  /\ call[c].at = "pauseEvent" /\ ExtendOrEnd(c)
  /\ Counted /\ UNCHANGED <<config, cooldown, period>>

Longer_Replaces(p, d) == d  \* fault: an extension replaces the one before
\* SET extra_days = COALESCE(extra_days, 0) + n
Longer(p, d) == extra[p] + d

Extend(c) ==
  /\ call[c].at = "extend"
  /\ extra' = [extra EXCEPT ![call[c].prospect] = Longer(call[c].prospect, call[c].days)]
  /\ Goto(c, "extendEvent")
  /\ Counted /\ UNCHANGED <<config, cooldown, paused, logged, lost>>

ExtendEvent(c) ==
  /\ call[c].at = "extendEvent"
  /\ logged' = [logged EXCEPT ![call[c].prospect] = @ + call[c].days]
  /\ End(c)
  /\ Counted /\ UNCHANGED <<config, cooldown, paused, extra, lost>>

\* A statement fails: 500, and what the earlier ones did stays done.
Fails(c) ==
  /\ call[c].at \notin {"idle", "read"} /\ fails < MaxFails
  /\ fails' = fails + 1
  /\ lost' = IF call[c].at = "extendEvent"
               THEN [lost EXCEPT ![call[c].prospect] = @ + call[c].days] ELSE lost
  /\ End(c)
  /\ UNCHANGED <<config, cooldown, paused, extra, logged, calls>>

-----------------------------------------------------------------------------
Next ==
  \/ \E c \in Call :
       \/ PatchConfig(c) \/ ReadConfig(c) \/ ReadFails(c) \/ WriteConfig(c)
       \/ AddCooldown(c) \/ SelectCooldown(c) \/ InsertCooldown(c) \/ SetExpiry(c)
       \/ ChangeCooldown(c) \/ FindCooldown(c) \/ DeleteCooldown(c)
       \/ ChangePeriod(c) \/ Exists(c) \/ Pause(c) \/ PauseEvent(c)
       \/ Extend(c) \/ ExtendEvent(c) \/ Fails(c)
  \/ \E r \in Row : Expire(r)

Spec == Init /\ [][Next]_vars

-----------------------------------------------------------------------------
(* What must hold.                                                         *)

\* Settings are patched field by field by several people at once, each request checked
\* against what it read: the row is valid all the same ("Hours to start vote cannot be above
\* hours to accept").
ConfigIsValid == config # None => Valid(config)

\* Each extension counts, however many are made at once, and the events of a prospect tell
\* how long its period is, but for those whose request failed between the two statements or
\* is between them now.
ExtensionsAddUp ==
  \A p \in Prospect :
    extra[p] = logged[p] + lost[p]
               + MapThenSumSet(LAMBDA c : call[c].days,
                   {c \in Call : call[c].at = "extendEvent" /\ call[c].prospect = p})

\* "integer >= 0" and "Settings saved. The bot uses them": the settings that are stored are
\* the settings that are read.
SavedIsRead == config # None => MapConfigRow(config) = config

\* "One active row per user ... (no stacked bans)".
OneActiveCooldown == \A u \in User : Cardinality(Active(u)) <= 1
=============================================================================
