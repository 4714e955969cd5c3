----------------------------- MODULE MatchSync -----------------------------
(***************************************************************************)
(* The match history of the web site (lib/match-sync.ts, routes/matches.ts,  *)
(* the winner part of lib/match-assembler.ts).  Every 15 minutes, and at     *)
(* start-up, a pass lists the finished matches of SquadJS, asks which of     *)
(* them are stored, and assembles and inserts the others one after the       *)
(* other; nothing keeps a pass from starting while the one before is still   *)
(* at work.  Staff edit, delete and hide stored matches, and may have all    *)
(* of them assembled again.                                                 *)
(*                                                                         *)
(* External: SquadJS, whose old writer puts the winner's name in the NEXT    *)
(* match's row.  Of what staff may change in a row the result stands for all. *)
(* Assembling reads several tables of a finished match: one step here.       *)
(* Training rounds and those under five minutes, which are skipped, are left  *)
(* out.                                                                     *)
(***************************************************************************)
EXTENDS Naturals, Sequences

CONSTANTS
  Faction,   \* numbers, given as factions come up
  Last,      \* matches are 1 .. Last; a bound
  Pass,      \* synchronisation passes at a time; a bound
  Kinds,     \* what matches there are: "played", and "broken" ones that cannot be assembled
  MaxStaff   \* what staff do; a bound

Match == 1 .. Last
\* The two factions of a match; which of them is team 1 makes no difference.
Pairs == {pair \in Faction \X Faction : pair[1] < pair[2]}
Columns == [kind : {"name"}, of : Faction] \cup [kind : {"json"}, of : 0 .. 2]
NoColumn == [kind |-> "none", of |-> 0]
NotStored == [result |-> 0, by |-> "nobody"]

VARIABLES
  played,   \* SquadJS: the matches there are, in their order
  writer,   \* its winner column: "old" or "new"
  carried,  \* the winner the old writer is about to put in the next match's row
  stored,   \* stored[m]: the row of the web site; by "nobody" when there is none
  pass,     \* synchronisation passes
  resync,   \* POST /matches/resync
  staff     \* how much staff did

squadjs == <<played, writer, carried>>
vars == <<squadjs, stored, pass, resync, staff>>

\* A loop over matches: those left, the one it is at, those it knows to be stored.
Idle == [at |-> "idle", todo |-> {}, now |-> 0, skip |-> {}, found |-> NotStored]

Init ==
  /\ played = <<>> /\ writer \in {"old", "new"}
  /\ carried = NoColumn
  /\ stored = [m \in Match |-> NotStored]
  /\ pass = [p \in Pass |-> Idle] /\ resync = Idle
  /\ staff = 0

Stored(m) == stored[m].by # "nobody"
Ended(m) == m \in DOMAIN played /\ played[m].ended

-----------------------------------------------------------------------------
(* SquadJS.                                                                *)

Begin(pair, kind) ==
  /\ Len(played) < Last /\ \A m \in DOMAIN played : played[m].ended
  /\ pair[2] <= 2 + Len(played)
  /\ played' = Append(played, [pair |-> pair, kind |-> kind, won |-> 0, column |-> carried, ended |-> FALSE])
  /\ carried' = NoColumn
  /\ UNCHANGED <<writer, stored, pass, resync, staff>>

End(m, won) ==
  /\ m \in DOMAIN played /\ ~played[m].ended
  /\ LET name == IF won = 0 THEN NoColumn ELSE [kind |-> "name", of |-> played[m].pair[won]]
         ended == [played[m] EXCEPT !.ended = TRUE, !.won = won]
     IN IF writer = "old"
        THEN carried' = name /\ played' = [played EXCEPT ![m] = ended]
        ELSE /\ played' = [played EXCEPT ![m] = [ended EXCEPT !.column = [kind |-> "json", of |-> won]]]
             /\ UNCHANGED carried
  /\ UNCHANGED <<writer, stored, pass, resync, staff>>

Upgrade ==
  /\ writer = "old" /\ writer' = "new"
  /\ UNCHANGED <<played, carried, stored, pass, resync, staff>>

-----------------------------------------------------------------------------
(* The winner (match-assembler.ts).                                        *)

ResolveWinner(column, pair) ==
  IF column.kind = "json" THEN column.of
  ELSE IF \E t \in {1, 2} : column.kind = "name" /\ column.of = pair[t]
       THEN CHOOSE t \in {1, 2} : column.of = pair[t]
       ELSE 0

\* fault: the next match's own result is taken for this one's
Winner_AnyNext(m) ==
  LET own == ResolveWinner(played[m].column, played[m].pair)
  IN IF own # 0 \/ played[m].column = NoColumn \/ ~Ended(m + 1) THEN own
     ELSE ResolveWinner(played[m + 1].column, played[m].pair)

\* The match's own column, else that of the next finished match, unless that is a new one.
Winner(m) ==
  LET own == ResolveWinner(played[m].column, played[m].pair)
  IN IF own # 0 \/ played[m].column = NoColumn \/ ~Ended(m + 1) THEN own
     ELSE IF played[m + 1].column.kind # "name" THEN 0
     ELSE ResolveWinner(played[m + 1].column, played[m].pair)

\* assembleMatchDetail: a row, or an error for a broken match.
Assembled(m) == [result |-> Winner(m), by |-> "api"]

-----------------------------------------------------------------------------
(* syncMatches.                                                            *)

\* end_time IS NOT NULL.
Listed(m) == Ended(m)

\* The finished matches, then the stored ones.
List(p) ==
  /\ pass[p].at = "idle" /\ \E m \in Match : Listed(m)
  /\ pass' = [pass EXCEPT ![p] = [Idle EXCEPT !.at = "loop",
                                    !.todo = {m \in Match : Listed(m)},
                                    !.skip = {m \in Match : Stored(m)}]]
  /\ UNCHANGED <<squadjs, stored, resync, staff>>

\* What is left when match m has been dealt with.
Rest(call, m) == IF call.todo = {m} THEN Idle
                 ELSE [call EXCEPT !.at = "loop", !.todo = @ \ {m}, !.now = 0, !.found = NotStored]

\* fault: the first match that cannot be assembled ends the pass
AfterError_Stop(call, m) == Idle

\* The error of one match is logged; the others go on.
AfterError(call, m) == Rest(call, m)

\* ORDER BY id.
Assemble(p) ==
  /\ pass[p].at = "loop"
  /\ \E m \in pass[p].todo :
       /\ \A n \in pass[p].todo : m <= n
       /\ pass' = [pass EXCEPT ![p] =
            IF m \in @.skip THEN Rest(@, m)
            ELSE IF played[m].kind = "broken" THEN AfterError(@, m)
            ELSE [@ EXCEPT !.at = "create", !.now = m, !.found = Assembled(m)]]
  /\ UNCHANGED <<squadjs, stored, resync, staff>>

\* fault: an insert that finds the match stored overwrites it
Inserted_Upsert(m, row) == row

\* squadjsId is unique: an insert that finds the match stored is an error.
Inserted(m, row) == IF Stored(m) THEN stored[m] ELSE row

Create(p) ==
  /\ pass[p].at = "create"
  /\ LET m == pass[p].now
     IN /\ stored' = [stored EXCEPT ![m] = Inserted(m, pass[p].found)]
        /\ pass' = [pass EXCEPT ![p] = IF Stored(m) THEN AfterError(@, m) ELSE Rest(@, m)]
  /\ UNCHANGED <<squadjs, resync, staff>>

-----------------------------------------------------------------------------
(* routes/matches.ts.                                                      *)

Staff == staff < MaxStaff /\ staff' = staff + 1

\* Whatever is entered, the row is what staff made it.
Edit(m) ==
  /\ Staff /\ Stored(m)
  /\ stored' = [stored EXCEPT ![m] = [result |-> 0, by |-> "staff"]]
  /\ UNCHANGED <<squadjs, pass, resync>>

Delete(m) ==
  /\ Staff /\ Stored(m)
  /\ stored' = [stored EXCEPT ![m] = NotStored]
  /\ UNCHANGED <<squadjs, pass, resync>>

\* resyncAllMatches: map, layer, result and detail of every row there was, one by one.
StartResync ==
  /\ Staff /\ resync.at = "idle" /\ \E m \in Match : Stored(m)
  /\ resync' = [Idle EXCEPT !.at = "loop", !.todo = {m \in Match : Stored(m)}]
  /\ UNCHANGED <<squadjs, stored, pass>>

\* findMany names no order: the next may be any of those left.
ResyncAssemble ==
  /\ resync.at = "loop"
  /\ \E m \in resync.todo :
       resync' = IF played[m].kind = "played"
                 THEN [resync EXCEPT !.at = "update", !.now = m, !.found = Assembled(m)]
                 ELSE AfterError(resync, m)
  /\ UNCHANGED <<squadjs, stored, pass, staff>>

\* An update that finds no row is an error, and logged.
ResyncUpdate ==
  /\ resync.at = "update"
  /\ LET m == resync.now
     IN /\ stored' = IF Stored(m) THEN [stored EXCEPT ![m] = resync.found] ELSE stored
        /\ resync' = IF Stored(m) THEN Rest(resync, m) ELSE AfterError(resync, m)
  /\ UNCHANGED <<squadjs, pass, staff>>

-----------------------------------------------------------------------------

SquadJS ==
  \/ \E pair \in Pairs, kind \in Kinds : Begin(pair, kind)
  \/ \E m \in Match, won \in 0 .. 2 : End(m, won)
  \/ Upgrade

Work(p) == Assemble(p) \/ Create(p)

StaffActs ==
  \/ \E m \in Match : Delete(m) \/ Edit(m)
  \/ StartResync

Next ==
  \/ SquadJS \/ StaffActs \/ ResyncAssemble \/ ResyncUpdate
  \/ \E p \in Pass : List(p) \/ Work(p)

\* The interval starts passes for ever, and every query is answered or fails.
Fairness == \A p \in Pass : WF_vars(List(p)) /\ WF_vars(Work(p))

Spec == Init /\ [][Next]_vars /\ Fairness

-----------------------------------------------------------------------------
(* Properties.                                                             *)

\* Every variable has the type its declaration states.
TypeOK ==
  /\ played \in Seq([pair : Pairs, kind : Kinds, won : 0 .. 2, column : Columns \cup {NoColumn}, ended : BOOLEAN])
  /\ Len(played) <= Last /\ writer \in {"old", "new"} /\ staff \in 0 .. MaxStaff
  /\ stored \in [Match -> [result : 0 .. 2, by : {"nobody", "api", "staff"}]]
  \* Only finished matches that were played are ever stored.
  /\ \A m \in Match : Stored(m) => Ended(m) /\ played[m].kind = "played"

\* A result nobody entered by hand is the match's own or a draw, whichever writer filled the
\* columns before and after it and whenever it was assembled; the one exception is a match of
\* the old writer one of whose factions had won the match before.
ResultIsOwn ==
  \A m \in Match : stored[m].by = "api" =>
    \/ stored[m].result \in {0, played[m].won}
    \/ played[m].column.kind = "name" /\ played[m].column.of \in {played[m].pair[1], played[m].pair[2]}

\* What staff entered stays until staff change it again, delete the match or ask for all
\* matches to be assembled again: no pass overwrites it, though it may have looked for the
\* match before it was stored.
EditsStay ==
  [][\A m \in Match : stored[m].by = "staff" /\ stored'[m] # stored[m] =>
       staff' # staff \/ resync.at = "update"]_vars

\* Every match played comes to be listed, however many before it cannot be assembled, and
\* comes back when it is deleted: a deletion does not last longer than the next pass.
MatchesAreListed ==
  \A m \in Match : <>[](Ended(m) /\ played[m].kind = "played" => Stored(m))
=============================================================================
