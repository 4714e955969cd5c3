------------------------------ MODULE Giveaway ------------------------------
(***************************************************************************)
(* The giveaways of the Discord bot as the api sees and steers them          *)
(* (routes/giveaway.ts): it reads the bot's tables, writes the bonus        *)
(* tickets, the rules and its own defaults there, and leaves everything      *)
(* else to the bot as a row of pending_actions.  No request runs in a        *)
(* transaction: each of its statements is a step, and between the check of   *)
(* "is there an active giveaway?" and what the bot makes of the queued       *)
(* action lies the time the bot takes.                                      *)
(*                                                                         *)
(* External: the bot, which serves the queue in order, and the members, who *)
(* enter, vote and play (their earned tickets go up, and down again as the   *)
(* window moves on).                                                        *)
(***************************************************************************)
EXTENDS Integers, Sequences

CONSTANTS
  Person,     \* Discord members
  Gives,      \* tickets that may be given at a time
  Takes,      \* and taken
  Req,        \* requests in flight; a bound on concurrency
  Last,       \* giveaways are 1 .. Last; a bound
  MaxEarned,  \* bounds: earned tickets of a person,
  MaxRequests \* requests in all

VARIABLES
  giveaways,  \* giveaways[g]: status of the g-th row, "none" before it is inserted
  entries,    \* entries[g][p]: the row of giveaway_entries
  earned,     \* earned[g][p]: tickets from hours, seeding and votes
  channel,    \* giveaway_config: is a default entry channel set?
  pending,    \* pending_actions
  req,        \* requests in flight
  given,      \* history: what was written to the bonus of g, p, summed up
  overlapped, \* history: <<g, p>> whose row two adjustments had read at a time
  doubled,    \* history: a start was let through before an earlier one was carried out
  requests    \* how many there were

tables == <<giveaways, entries, earned, channel>>
history == <<given, overlapped, doubled>>
vars == <<tables, pending, req, history, requests>>

Giveaways == 1 .. Last
Deltas == Gives \cup {-n : n \in Takes}
ActiveStatus == {"open", "voting"}
Status == ActiveStatus \cup {"none", "drawn", "cancelled"}
NoRow == [in |-> FALSE, bonus |-> 0]

Kinds == {"start", "open_vote", "draw", "cancel", "add", "tickets", "patch"}
NoReq == [at |-> "idle", kind |-> "start", who |-> "nobody", delta |-> 0, g |-> 0,
          row |-> NoRow, earned |-> 0, next |-> 0]

Init ==
  /\ giveaways = [g \in Giveaways |-> "none"]
  /\ entries = [g \in Giveaways |-> [p \in Person |-> NoRow]]
  /\ earned = [g \in Giveaways |-> [p \in Person |-> 0]]
  /\ channel \in BOOLEAN
  /\ pending = <<>>
  /\ req = [r \in Req |-> NoReq]
  /\ given = [g \in Giveaways |-> [p \in Person |-> 0]]
  /\ overlapped = {} /\ doubled = FALSE /\ requests = 0

-----------------------------------------------------------------------------
(* giveaway-math.ts.                                                       *)

Most(a, b) == IF a > b THEN a ELSE b

\* computeTickets, the earned part floored already: never below zero.
Tickets(earns, bonus) == Most(0, earns + bonus)

\* nextTicketBonus: at most what the person has is taken.
NextTicketBonus(earns, bonus, delta) ==
  bonus + IF delta < 0 /\ -delta > Tickets(earns, bonus) THEN -Tickets(earns, bonus) ELSE delta

-----------------------------------------------------------------------------
(* The requests.                                                           *)

\* loadActiveGiveaway: the newest that is open or voting.
Active(g) == giveaways[g] \in ActiveStatus
Newest(g) == Active(g) /\ \A h \in Giveaways : Active(h) => h <= g

Ask(r, kind, who, delta) ==
  /\ req[r] = NoReq /\ requests < MaxRequests
  /\ requests' = requests + 1
  /\ req' = [req EXCEPT ![r] = [NoReq EXCEPT !.at = "active", !.kind = kind, !.who = who,
                                             !.delta = delta]]
  /\ UNCHANGED <<tables, pending, history>>

Done(r) == req' = [req EXCEPT ![r] = NoReq]
Goto(r, at) == req' = [req EXCEPT ![r].at = at]

\* A start that has passed its check and has not been carried out.
Starting == \/ \E r \in Req : req[r].kind = "start" /\ req[r].at = "queue"
            \/ \E i \in 1 .. Len(pending) : pending[i].kind = "start"

StartChecks_Never(r) ==  \* fault: nobody looks for an active giveaway
  /\ req[r].at = "active" /\ req[r].kind = "start"
  /\ IF ~channel THEN Done(r) /\ UNCHANGED doubled
                 ELSE Goto(r, "queue") /\ doubled' = (doubled \/ Starting)
  /\ UNCHANGED <<tables, pending, given, overlapped, requests>>

\* POST /start: refused while a giveaway is active, and without an entry channel.
StartChecks(r) ==
  /\ req[r].at = "active" /\ req[r].kind = "start"
  /\ IF ~channel \/ \E g \in Giveaways : Active(g)
       THEN Done(r) /\ UNCHANGED doubled
       ELSE Goto(r, "queue") /\ doubled' = (doubled \/ Starting)
  /\ UNCHANGED <<tables, pending, given, overlapped, requests>>

\* The others: refused without an active giveaway, /open-vote unless it is open.
FindsActive(r) ==
  LET q == req[r] IN
  /\ q.at = "active" /\ q.kind # "start"
  /\ \/ /\ ~\E g \in Giveaways : Active(g)
        /\ Done(r)
     \/ \E g \in Giveaways :
          /\ Newest(g)
          /\ IF q.kind = "open_vote" /\ giveaways[g] # "open" THEN Done(r)
             ELSE req' = [req EXCEPT ![r].g = g,
                    ![r].at = IF q.kind = "tickets" THEN "entry" ELSE "queue"]
  /\ UNCHANGED <<tables, pending, history, requests>>

\* POST /tickets: the entry of the person; who has none can only be given tickets.
ReadEntry(r) ==
  LET q == req[r]
      row == entries[q.g][q.who] IN
  /\ q.at = "entry"
  /\ IF ~row.in /\ q.delta < 0
       THEN Done(r) /\ UNCHANGED overlapped
       ELSE /\ req' = [req EXCEPT ![r].at = "earned", ![r].row = row]
            /\ overlapped' = IF \E o \in Req \ {r} : req[o].at \in {"earned", "write"}
                                                      /\ req[o].g = q.g /\ req[o].who = q.who
                               THEN overlapped \cup {<<q.g, q.who>>} ELSE overlapped
  /\ UNCHANGED <<tables, pending, given, doubled, requests>>

\* ... the votes and the playtime, and the sum.
ReadEarned(r) ==
  LET q == req[r]
      earns == IF q.row.in THEN earned[q.g][q.who] ELSE 0 IN
  /\ q.at = "earned"
  /\ IF q.delta < 0 /\ Tickets(earns, q.row.bonus) = 0
       THEN Done(r)
       ELSE req' = [req EXCEPT ![r].at = "write", ![r].earned = earns,
                      ![r].next = NextTicketBonus(earns, q.row.bonus, q.delta)]
  /\ UNCHANGED <<tables, pending, history, requests>>

Written(r) ==
  LET q == req[r] IN
  /\ given' = [given EXCEPT ![q.g][q.who] = @ + (q.next - q.row.bonus)]
  /\ Goto(r, "queue")

\* The row is updated, whatever it holds by now, or inserted, unless it is there by now.
WriteBonus(r) ==
  LET q == req[r] IN
  /\ q.at = "write"
  /\ IF q.row.in \/ ~entries[q.g][q.who].in
       THEN /\ entries' = [entries EXCEPT ![q.g][q.who] = [in |-> TRUE, bonus |-> q.next]]
            /\ Written(r)
       ELSE Done(r) /\ UNCHANGED <<entries, given>>
  /\ UNCHANGED <<giveaways, earned, channel, pending, overlapped, doubled, requests>>

\* queueAction; the bot is asked to refresh its post after a change of rules or tickets.
Queue(r) ==
  LET q == req[r]
      kind == IF q.kind \in {"tickets", "patch"} THEN "refresh" ELSE q.kind IN
  /\ q.at = "queue"
  /\ pending' = Append(pending, [kind |-> kind, g |-> q.g, who |-> q.who])
  /\ Done(r)
  /\ UNCHANGED <<tables, history, requests>>

\* The secretary's database is not there: 500, and what was written stays.
Fails(r) == req[r].at # "idle" /\ Done(r) /\ UNCHANGED <<tables, pending, history, requests>>

\* PATCH /config, abstracted to the one default that a check reads.
SetChannel == channel' \in BOOLEAN \ {channel} /\ requests < MaxRequests
              /\ requests' = requests + 1
              /\ UNCHANGED <<giveaways, entries, earned, pending, req, history>>

-----------------------------------------------------------------------------
(* The bot and the members.                                                *)

Ended == UNCHANGED <<giveaways, entries, earned>>

Carries(a) ==
  \/ /\ a.kind = "start"
     /\ \/ \E g \in Giveaways :
             /\ giveaways[g] = "none" /\ \A h \in Giveaways : h < g => giveaways[h] # "none"
             /\ giveaways' = [giveaways EXCEPT ![g] = "open"]
             /\ UNCHANGED <<entries, earned>>
        \/ (\A g \in Giveaways : giveaways[g] # "none") /\ Ended
  \/ a.kind = "refresh" /\ Ended
  \/ a.kind \notin {"start", "refresh"} /\ ~Active(a.g) /\ Ended
  \/ /\ a.kind = "add" /\ Active(a.g)
     /\ entries' = [entries EXCEPT ![a.g][a.who].in = TRUE]
     /\ UNCHANGED <<giveaways, earned>>
  \/ /\ a.kind \in {"open_vote", "draw", "cancel"} /\ Active(a.g)
     /\ giveaways' = [giveaways EXCEPT ![a.g] =
          CASE a.kind = "open_vote" -> "voting" [] a.kind = "draw" -> "drawn"
            [] a.kind = "cancel" -> "cancelled"]
     /\ UNCHANGED <<entries, earned>>

Bot ==
  /\ pending # <<>>
  /\ Carries(Head(pending))
  /\ pending' = Tail(pending)
  /\ UNCHANGED <<channel, req, history, requests>>

Enters(g, p) ==
  /\ Active(g) /\ ~entries[g][p].in
  /\ entries' = [entries EXCEPT ![g][p].in = TRUE]
  /\ UNCHANGED <<giveaways, earned, channel, pending, req, history, requests>>

Plays(g, p) ==
  /\ Active(g) /\ entries[g][p].in
  /\ \E n \in 0 .. MaxEarned : n # earned[g][p] /\ earned' = [earned EXCEPT ![g][p] = n]
  /\ UNCHANGED <<giveaways, entries, channel, pending, req, history, requests>>

Next ==
  \/ \E r \in Req :
       \/ \E kind \in Kinds \ {"tickets", "add"} : Ask(r, kind, "nobody", 0)
       \/ \E p \in Person : \/ Ask(r, "add", p, 0)
                            \/ \E d \in Deltas : Ask(r, "tickets", p, d)
       \/ StartChecks(r) \/ FindsActive(r) \/ ReadEntry(r) \/ ReadEarned(r)
       \/ WriteBonus(r) \/ Queue(r) \/ Fails(r)
  \/ SetChannel \/ Bot
  \/ \E g \in Giveaways, p \in Person : Enters(g, p) \/ Plays(g, p)

Spec == Init /\ [][Next]_vars

-----------------------------------------------------------------------------
(* What must hold.                                                         *)

\* No two giveaways are active (the api and its page know of the newest only: the other
\* would never be drawn), unless a start was let through while an earlier one waited for
\* the bot.
OneActive ==
  ~doubled => \A g \in Giveaways, h \in Giveaways : Active(g) /\ Active(h) => g = h

\* The bonus of a person in a giveaway is the sum of what staff gave and took there, unless
\* two adjustments of that person there had read it at a time: then the last one counts.
BonusAddsUp ==
  \A g \in Giveaways : \A p \in Person :
    <<g, p>> \notin overlapped => entries[g][p].bonus = given[g][p]
=============================================================================
