----------------------------- MODULE MCRecords ------------------------------
(***************************************************************************)
(* What the databases keep of matches, voice channels, giveaways and        *)
(* prospects, checked side by side: a match's detail (MatchDetail),          *)
(* temporary voice channels (TempVoice), the giveaway (Giveaway) and the     *)
(* prospects page (ProspectDesk).  They share no state: `part` says which of *)
(* them a behaviour is about, and the others stay as they began, with what   *)
(* they might choose at the start pinned down.                             *)
(***************************************************************************)
EXTENDS Naturals, FiniteSets, TLC

CONSTANTS
  None, Gone,
  Player, Lead, Nobody, SquadNo, Name, MaxSteps,                 \* MatchDetail
  Text, Flag, Channel, Request, MaxRequests, MaxBot,             \* TempVoice
  Person, Gives, Takes, Req, Last, MaxEarned, MaxAdjustments,    \* Giveaway
  Prospect, Recruit, Row, Slot, Hours, StartDefault, AcceptDefault, Days, MaxCalls,
  MaxFails                                                       \* ProspectDesk

\* A channel has finitely many settings, a member finitely many channels, and no settings are
\* mistaken for a channel that is not there.
ASSUME VoiceAssumption ==
  /\ IsFiniteSet(Text) /\ IsFiniteSet(Flag) /\ IsFiniteSet(Channel)
  /\ None # Gone
  /\ None \notin [Text \cup Flag -> {0, 1}] /\ Gone \notin [Text \cup Flag -> {0, 1}]

VARIABLES
  part,
  over, team, squad, named, combat, creations, spawned, board, plugin, tally,  \* MatchDetail
  preset, live, pending, call, wanted, mixed, requests, bot,                   \* TempVoice
  giveaways, entries, earned, channel, queue, req, bonuses, overlapped, doubled,
  adjustments,                                                                 \* Giveaway
  config, cooldown, paused, extra, logged, lost, edit, calls, fails            \* ProspectDesk

Match == INSTANCE MatchDetail
Voice == INSTANCE TempVoice
Raffle == INSTANCE Giveaway WITH pending <- queue, given <- bonuses, requests <- adjustments,
                                 MaxRequests <- MaxAdjustments
Prospects == INSTANCE ProspectDesk WITH User <- Recruit, Call <- Slot, call <- edit

matchVars == <<over, team, squad, named, combat, creations, spawned, board, plugin, tally>>
voiceVars == <<preset, live, pending, call, wanted, mixed, requests, bot>>
raffleVars == <<giveaways, entries, earned, channel, queue, req, bonuses, overlapped, doubled,
                adjustments>>
prospectVars == <<config, cooldown, paused, extra, logged, lost, edit, calls, fails>>
recordVars == <<part, matchVars, voiceVars, raffleVars, prospectVars>>

\* Lead is a bound: one player whose side at the start of the round is fixed, and, where it
\* matters, known from his spawn point.
RecordsInit ==
  /\ part \in {"match", "voice", "raffle", "prospects"}
  /\ Match!Init /\ Voice!Init /\ Raffle!Init /\ Prospects!Init
  /\ team[Lead] = 1 /\ (~plugin => spawned[Lead] = 1)
  /\ part # "match" => plugin /\ team = [p \in Player |-> 1]
  /\ part # "voice" => preset = None
  /\ part # "raffle" => ~channel
  /\ part # "prospects" => config = None

RecordsNext ==
  \/ part = "match" /\ Match!Next /\ UNCHANGED <<part, voiceVars, raffleVars, prospectVars>>
  \/ part = "voice" /\ Voice!Next /\ UNCHANGED <<part, matchVars, raffleVars, prospectVars>>
  \/ part = "raffle" /\ Raffle!Next /\ UNCHANGED <<part, matchVars, voiceVars, prospectVars>>
  \/ part = "prospects" /\ Prospects!Next /\ UNCHANGED <<part, matchVars, voiceVars, raffleVars>>

RecordsSpec == RecordsInit /\ [][RecordsNext]_recordVars

\* The requests of the voice page are alike, and so are those of the prospects page: nothing
\* chooses among them, and no order of them is kept.
CallSymmetry == Permutations(Request) \cup Permutations(Slot)

-----------------------------------------------------------------------------
\* MatchDetail's: what the site shows of a round that has ended is what happened in it.
DetailIsTrue == Match!DetailIsTrue

\* TempVoice's: once no change is under way or queued, a live channel is as the settings say.
LiveFollows == Voice!LiveFollows

\* TempVoice's: a change of some settings keeps those it does not name.
SettingsKept == Voice!SettingsKept

\* Giveaway's: a bonus is the sum of its adjustments, and one giveaway is active at a time.
BonusAddsUp == Raffle!OneActive /\ Raffle!BonusAddsUp

\* ProspectDesk's: settings that several people patch at once stay valid.
ConfigIsValid == Prospects!ConfigIsValid

\* ProspectDesk's: every extension that was answered is in a prospect's deadline.
ExtensionsAddUp == Prospects!ExtensionsAddUp
=============================================================================
