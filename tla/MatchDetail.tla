---------------------------- MODULE MatchDetail ----------------------------
(***************************************************************************)
(* What the api makes of a finished round (lib/match-assembler.ts,           *)
(* lib/match-squad-utils.ts).  SquadJS leaves rows behind: deaths and        *)
(* revives with the team and squad number of the moment, the squads that     *)
(* were created, where players spawned and, since its scoreboard plugin,     *)
(* one row per player connected at the end.  The assembler is a function of  *)
(* those rows (Detail); the round is a state machine that writes them, so    *)
(* that the rows are those of a round that can be played: squad numbers are  *)
(* used again, players change squads and sides.                             *)
(*                                                                         *)
(* External: the game and SquadJS.  Left out: roles, leaders, duration,     *)
(* layer names, the order shown; a player stands for every identity         *)
(* (Steam, EOS) the rows know him by.                                       *)
(***************************************************************************)
EXTENDS Naturals, Sequences, FiniteSets, SequencesExt

CONSTANTS
  Player, Nobody,  \* Nobody: a death without an attacker
  SquadNo,         \* squad numbers of a team
  Name,            \* names given to squads
  MaxSteps         \* what happens in a round; a bound

Team == {1, 2}
Other(t) == 3 - t
\* "Squad 7", the name given to a squad nobody knows the name of; players also name squads so.
Synthetic == "Squad N"

VARIABLES
  over,       \* has the round ended?
  team,       \* team[p]
  squad,      \* squad[p]: 0 without one
  named,      \* named[t][n]: name of the squad, "" when there is none
  combat,     \* squadjs_combat_events
  creations,  \* squadjs_squad_creations
  spawned,    \* spawned[p]: the team of his spawn point, 0 when it tells none
  board,      \* squadjs_scoreboard: rows by player, none before the plugin
  plugin,     \* does the scoreboard plugin run?
  tally       \* history: what each player did

round == <<over, team, squad, named, combat, creations, spawned, board, plugin>>
vars == <<round, tally>>

Init ==
  /\ over = FALSE /\ plugin \in BOOLEAN
  /\ team \in [Player -> Team]
  /\ spawned \in {f \in [Player -> 0 .. 2] : \A p \in Player : f[p] \in {0} \cup (IF plugin THEN {} ELSE {team[p]})}
  /\ squad = [p \in Player |-> 0]
  /\ named = [t \in Team |-> [n \in SquadNo |-> ""]]
  /\ combat = <<>> /\ creations = <<>> /\ board = <<>>
  /\ tally = [p \in Player |-> [kills |-> 0, deaths |-> 0, revives |-> 0, teamkills |-> 0]]

-----------------------------------------------------------------------------
(* The round.                                                              *)

Playing == ~over /\ Len(combat) + Len(creations) < MaxSteps

\* The game gives the lowest number that is free.
Free(t, n) == named[t][n] = "" /\ \A m \in SquadNo : m < n => named[t][m] # ""

Create(p, n, name) ==
  /\ Playing /\ squad[p] = 0 /\ Free(team[p], n)
  /\ named' = [named EXCEPT ![team[p]][n] = name]
  /\ squad' = [squad EXCEPT ![p] = n]
  /\ creations' = Append(creations, [by |-> p, team |-> team[p], no |-> n, name |-> name])
  /\ UNCHANGED <<over, team, combat, spawned, board, plugin, tally>>

Join(p, n) ==
  /\ Playing /\ squad[p] = 0 /\ named[team[p]][n] # ""
  /\ squad' = [squad EXCEPT ![p] = n]
  /\ UNCHANGED <<over, team, named, combat, creations, spawned, board, plugin, tally>>

\* A squad the last one leaves is disbanded.
Left(p) ==
  LET mates == {q \in Player \ {p} : team[q] = team[p] /\ squad[q] = squad[p]}
  IN /\ squad[p] # 0
     /\ squad' = [squad EXCEPT ![p] = 0]
     /\ named' = IF mates = {} THEN [named EXCEPT ![team[p]][squad[p]] = ""] ELSE named

Leave(p) ==
  /\ Playing /\ Left(p)
  /\ UNCHANGED <<over, team, combat, creations, spawned, board, plugin, tally>>

ChangeSides(p) ==
  /\ Playing
  /\ IF squad[p] # 0 THEN Left(p) ELSE UNCHANGED <<squad, named>>
  /\ team' = [team EXCEPT ![p] = Other(@)]
  /\ UNCHANGED <<over, combat, creations, spawned, board, plugin, tally>>

\* A row carries the squads if SquadJS knew them at the time.
SquadSeen(seen, p) == IF seen /\ p # Nobody THEN squad[p] ELSE 0
TeamOf(p) == IF p = Nobody THEN 0 ELSE team[p]

Death(by, of, seen) ==
  LET teamkill == by # Nobody /\ by # of /\ team[by] = team[of]
      Count(p) == [tally[p] EXCEPT
                     !.kills = IF p = by THEN @ + 1 ELSE @,
                     !.teamkills = IF p = by /\ teamkill THEN @ + 1 ELSE @,
                     !.deaths = IF p = of THEN @ + 1 ELSE @]
  IN /\ Playing
     /\ combat' = Append(combat, [kind |-> "death", by |-> by, byTeam |-> TeamOf(by),
                                  bySquad |-> SquadSeen(seen, by), of |-> of,
                                  ofTeam |-> team[of], ofSquad |-> SquadSeen(seen, of),
                                  teamkill |-> teamkill])
     /\ tally' = [p \in Player |-> Count(p)]
     /\ UNCHANGED <<over, team, squad, named, creations, spawned, board, plugin>>

Revive(by, seen) ==
  /\ Playing
  /\ combat' = Append(combat, [kind |-> "revive", by |-> by, byTeam |-> team[by],
                               bySquad |-> SquadSeen(seen, by), of |-> Nobody,
                               ofTeam |-> 0, ofSquad |-> 0, teamkill |-> FALSE])
  /\ tally' = [tally EXCEPT ![by].revives = @ + 1]
  /\ UNCHANGED <<over, team, squad, named, creations, spawned, board, plugin>>

\* A row of the scoreboard: the number is known of those of `numbered`, the squad's name and
\* the faction of those of `listed` (their squad was found in the list of squads).
BoardRow(p, numbered, listed) ==
  [team |-> team[p], no |-> IF p \in numbered THEN squad[p] ELSE 0,
   name |-> IF p \in listed THEN named[team[p]][squad[p]] ELSE "",
   faction |-> p \in listed]

End ==
  /\ ~over /\ over' = TRUE
  /\ \E connected \in SUBSET Player :
       \E numbered \in SUBSET {p \in connected : squad[p] # 0} : \E listed \in SUBSET numbered :
         board' = IF plugin THEN [p \in connected |-> BoardRow(p, numbered, listed)] ELSE <<>>
  /\ UNCHANGED <<team, squad, named, combat, creations, spawned, plugin, tally>>

Next ==
  \/ \E p \in Player, n \in SquadNo : Join(p, n) \/ \E name \in Name : Create(p, n, name)
  \/ \E p \in Player : Leave(p) \/ ChangeSides(p)
  \/ \E by \in Player \cup {Nobody}, of \in Player : \E seen \in BOOLEAN : Death(by, of, seen)
  \/ \E by \in Player : \E seen \in BOOLEAN : Revive(by, seen)
  \/ End

Spec == Init /\ [][Next]_vars

-----------------------------------------------------------------------------
(* The assembler: factions.  A faction is named by the team it belongs to.   *)

Deaths == SelectSeq(combat, LAMBDA e : e.kind = "death")
Revives == SelectSeq(combat, LAMBDA e : e.kind = "revive")
Rows == DOMAIN board
HasScoreboard == Rows # {}

\* SELECT DISTINCT team_name, in the order of the rows.
CreationFactions == 
  LET all == [i \in DOMAIN creations |-> creations[i].team]
  IN IF all = <<>> THEN <<>>
     ELSE IF Other(all[1]) \in ToSet(all) THEN <<all[1], Other(all[1])>> ELSE <<all[1]>>

\* With a scoreboard: what its rows say, and the creations in their order for the rest.
Captured == {board[p].team : p \in {q \in Rows : board[q].faction}}

BoardFaction(t) ==
  IF t \in Captured THEN t
  ELSE IF t <= Len(CreationFactions) THEN CreationFactions[t] ELSE 0

\* Without: the side a creator was on in his first death as attacker, as victim, at his spawn
\* point; each team keeps what it is given first, the creations' order fills the rest.
AsAttacker(p) == SelectInSeq(Deaths, LAMBDA e : e.by = p)
AsVictim(p) == SelectInSeq(Deaths, LAMBDA e : e.of = p)

SidesOf(p) ==
  <<IF AsAttacker(p) = 0 THEN 0 ELSE Deaths[AsAttacker(p)].byTeam,
    IF AsVictim(p) = 0 THEN 0 ELSE Deaths[AsVictim(p)].ofTeam, spawned[p]>>

Evidence == FlattenSeq([i \in DOMAIN creations |->
              [j \in 1 .. 3 |-> [side |-> SidesOf(creations[i].by)[j], faction |-> creations[i].team]]])

LegacyFaction(t) ==
  LET i == SelectInSeq(Evidence, LAMBDA e : e.side = t)
  IN IF i # 0 THEN Evidence[i].faction
     ELSE IF t <= Len(CreationFactions) THEN CreationFactions[t] ELSE 0

FactionOf(t) == IF HasScoreboard THEN BoardFaction(t) ELSE LegacyFaction(t)

\* Without a scoreboard: the team that is given its faction first.
FirstGiven ==
  LET i == SelectInSeq(Evidence, LAMBDA e : e.side # 0) IN IF i = 0 THEN 1 ELSE Evidence[i].side

\* Of two teams with one faction, the one that was given it last (scoreboard), the first
\* (without).
Late == IF HasScoreboard THEN Team \ Captured ELSE {FirstGiven}

SideIn(sides) ==
  IF sides = {} THEN 0
  ELSE IF sides \cap Late # {} THEN CHOOSE t \in sides \cap Late : TRUE
  ELSE CHOOSE t \in sides : TRUE

\* The team each creation is filed under.
FiledBy(factions) ==
  [i \in DOMAIN creations |-> SideIn({t \in Team : factions[t] = creations[i].team})]
Filed == FiledBy([t \in Team |-> FactionOf(t)])

-----------------------------------------------------------------------------
(* Squads.                                                                 *)

\* The latest creation filed under (t, n).
LastCreated(t, n, filed) ==
  LET made == {i \in DOMAIN creations : filed[i] = t /\ creations[i].no = n}
  IN IF made = {} THEN "" ELSE creations[Max(made)].name

\* buildSquadLookupFromNamedRows, mergeCreationLookup; legacyLookup.
Lookup(t, n, filed) ==
  LET known == {p \in Rows : board[p].team = t /\ board[p].no = n /\ board[p].name # ""}
  IN IF known # {} THEN board[CHOOSE p \in known : TRUE].name ELSE LastCreated(t, n, filed)

\* noteLastCombatSquad over deaths and revives, lookupLastCombatSquad.
LastCombatSquad(p) ==
  LET Of(e) == IF e.by = p /\ e.bySquad # 0 THEN e.bySquad
               ELSE IF e.of = p THEN e.ofSquad ELSE 0
      i == SelectLastInSubSeq(combat, 1, Len(combat), LAMBDA e : Of(e) # 0)
  IN IF i = 0 THEN 0 ELSE Of(combat[i])

\* resolveScoreboardSquad.
ResolveSquad(t, no, name, fought, filed) ==
  LET n == IF no # 0 THEN no ELSE fought
      Named(found) == [team |-> t, no |-> n, name |-> IF found # "" THEN found ELSE Synthetic]
  IN IF name # "" \/ n = 0 THEN [team |-> t, no |-> n, name |-> name]
     ELSE Named(Lookup(t, n, filed))

\* fault: names are left as they were found
Coalesce_Not(found) == found

\* coalesceSquadNamesById: one name for a number, a real one if there is any.
Coalesce(found) ==
  LET Names(p) == {found[q].name : q \in {r \in DOMAIN found : found[r].team = found[p].team
                                                            /\ found[r].no = found[p].no}} \ {""}
      Real(p) == Names(p) \ {Synthetic}
  IN [p \in DOMAIN found |->
       IF found[p].no = 0 \/ Names(p) = {} THEN found[p]
       ELSE [found[p] EXCEPT !.name = CHOOSE name \in (IF Real(p) # {} THEN Real(p) ELSE Names(p)) : TRUE]]

-----------------------------------------------------------------------------
(* Players and what they did.                                              *)

\* The loops over deaths and revives: the whole round, whatever team he played for.
Score(p, t) ==
  LET deaths == {i \in DOMAIN combat : combat[i].kind = "death"}
      revives == {i \in DOMAIN combat : combat[i].kind = "revive"}
  IN [kills |-> Cardinality({i \in deaths : combat[i].by = p}),
      teamkills |-> Cardinality({i \in deaths : combat[i].by = p /\ combat[i].teamkill}),
      deaths |-> Cardinality({i \in deaths : combat[i].of = p}),
      revives |-> Cardinality({i \in revives : combat[i].by = p})]

\* The roster is the scoreboard's, the players who left are not on it.
BoardRoster == Rows

BoardPlayer(p, row, filed) ==
  ResolveSquad(row.team, row.no, row.name, LastCombatSquad(p), filed)

\* Without a scoreboard: whoever died, killed, revived, spawned or created a squad, on the team
\* he is first seen on, in the squad he created last.
Sightings(p, filed) ==
  LET Of(e) == IF e.by = p THEN <<e.byTeam>> \o (IF e.of = p THEN <<e.ofTeam>> ELSE <<>>)
               ELSE IF e.of = p THEN <<e.ofTeam>> ELSE <<>>
      Seen(events) == FlattenSeq([i \in DOMAIN events |-> Of(events[i])])
  IN Seen(Deaths) \o Seen(Revives) \o <<spawned[p]>>
       \o [i \in DOMAIN creations |-> IF creations[i].by = p THEN filed[i] ELSE 0]

FirstTeam(sightings) ==
  LET first == SelectInSeq(sightings, LAMBDA t : t # 0)
  IN IF first = 0 THEN 0 ELSE sightings[first]

LegacyPlayer(p, t, filed) ==
  LET own == SelectLastInSubSeq(creations, 1, Len(creations), LAMBDA c : c.by = p)
  IN IF own = 0 THEN ResolveSquad(t, 0, "", LastCombatSquad(p), filed)
     ELSE ResolveSquad(t, creations[own].no, creations[own].name, 0, filed)

Found(filed) ==
  IF HasScoreboard THEN [p \in BoardRoster |-> BoardPlayer(p, board[p], filed)]
  ELSE [p \in Player |-> LegacyPlayer(p, FirstTeam(Sightings(p, filed)), filed)]

\* A player without a team is dropped.
WithTeam(found) == [p \in {q \in DOMAIN found : found[q].team # 0} |-> found[p]]
Scored(shown) == [p \in DOMAIN shown |-> [squad |-> shown[p], score |-> Score(p, shown[p].team)]]

\* assembleMatchDetail: the players of the two teams (an empty function: no match is stored).
Detail == Scored(Coalesce(WithTeam(Found(Filed))))

-----------------------------------------------------------------------------
(* Properties.                                                             *)

\* Who was connected at the end is shown, nobody else is, each on his team (the spec's goal 1:
\* "Every player connected at match end ... appears on the match scoreboard"), and whose squad
\* the snapshot knows is shown in it, under its name if the snapshot has that of any of them.
BoardIsShown(detail) ==
  /\ DOMAIN detail = Rows
  /\ \A p \in Rows :
       /\ detail[p].squad.team = team[p]
       /\ board[p].no # 0 =>
            /\ detail[p].squad.no = squad[p]
            /\ (\E q \in Rows : board[q].team = team[p] /\ board[q].no = squad[p] /\ board[q].name # "")
                 => detail[p].squad.name = named[team[p]][squad[p]]

\* Every kill, death, revive and team kill of a player who is shown is counted, once: those on
\* the side he left, those before he had a squad, and from either source.
ScoresAddUp(detail) == \A p \in DOMAIN detail : detail[p].score = tally[p]

\* Who is shown under one number in a team is shown under one name, though numbers are used
\* again and names come from three places: the page groups players by the name.
OneNamePerSquad(detail) ==
  \A p \in DOMAIN detail : \A q \in DOMAIN detail :
    detail[p].squad.team = detail[q].squad.team /\ detail[p].squad.no = detail[q].squad.no
      => detail[p].squad.name = detail[q].squad.name

\* The three together: what the site shows of a round that has ended is what happened in it.
IsTrue(detail) ==
  /\ HasScoreboard => BoardIsShown(detail)
  /\ ScoresAddUp(detail) /\ OneNamePerSquad(detail)
DetailIsTrue == over => IsTrue(Detail)

\* What match-assembler.ts:397 promises of the fallback ("derive team_name from squad_creations
\* when scoreboard didn't capture it"): a team whose name was not captured gets its own or none.
FactionsKept ==
  over /\ HasScoreboard => \A t \in Team : FactionOf(t) \in {0, t}

=============================================================================
