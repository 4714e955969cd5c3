----------------------------- MODULE TempVoice -----------------------------
(***************************************************************************)
(* Temporary voice channels as staff steer them                              *)
(* (routes/discord-bot/tempvoice.ts): the saved default of one member, a row *)
(* of temp_voice_presets, and the channels he owns now.  The api writes the  *)
(* row and leaves what is to happen to a live channel to the bot, as one     *)
(* pending action per setting and channel.  Reading the row, writing the     *)
(* merged one, reading the live channels and inserting each action are       *)
(* steps of their own; a failing one ends the request with what was done.    *)
(*                                                                         *)
(* External: the bot, which carries the actions out in their order, creates  *)
(* channels from the saved default and takes commands of the owner himself.  *)
(* Rows of different members have nothing in common.  Values are small        *)
(* numbers, 0 the default: of a Text setting (name, bitrate, region, limit)   *)
(* it stands for null, which is not sent to the live channels; of a Flag it   *)
(* is false, which is ("unlock").                                            *)
(***************************************************************************)
EXTENDS Naturals, Sequences, FiniteSets, SequencesExt

CONSTANTS
  Text, Flag,   \* the settings of a channel
  Channel,      \* channels of the member, ids that Discord gives out once; a bound
  Request,      \* requests in flight; a bound
  None, Gone,
  MaxRequests,  \* requests in all,
  MaxBot        \* what the bot does unasked; bounds

Setting == Text \cup Flag
Value == {0, 1}
Defaults == [s \in Setting |-> 0]
Bodies == UNION {[S -> Value] : S \in (SUBSET Setting) \ {{}}}

VARIABLES
  preset,    \* the row, None without one
  live,      \* live[c]: settings of a channel, None when it does not exist yet, Gone when no more
  pending,   \* pending_actions
  call,      \* requests in flight
  wanted,    \* history: what was last asked of each setting of each live channel
  mixed,     \* history: something was asked while something else was under way, or failed
  requests, bot

tables == <<preset, live, pending>>
vars == <<tables, call, wanted, mixed, requests, bot>>

Idle == [at |-> "idle", body |-> <<>>, creating |-> FALSE, apply |-> FALSE,
         had |-> None, todo |-> <<>>, late |-> FALSE]

Init ==
  /\ preset \in {None} \cup [Setting -> Value]
  /\ live = [c \in Channel |-> None] /\ pending = <<>>
  /\ call = [r \in Request |-> Idle]
  /\ wanted = [c \in Channel |-> None]
  /\ mixed = FALSE /\ requests = 0 /\ bot = 0

Busy == pending # <<>> \/ \E r \in Request : call[r].at # "idle"
Live == {c \in Channel : live[c] \notin {None, Gone}}

-----------------------------------------------------------------------------
(* POST /tempvoice/presets (creating), PATCH /tempvoice/presets/:userId.     *)

Begin(r, at) ==
  /\ call[r].at = "idle" /\ requests < MaxRequests
  /\ requests' = requests + 1 /\ mixed' = (mixed \/ Busy)
  /\ UNCHANGED <<tables, bot>>

Save(r, body, creating, apply) ==
  /\ Begin(r, "read")
  /\ call' = [call EXCEPT ![r] = [Idle EXCEPT !.at = "read", !.body = body,
                                    !.creating = creating, !.apply = apply]]
  /\ UNCHANGED wanted

ReadPreset(r) ==
  /\ call[r].at = "read"
  /\ call' = [call EXCEPT ![r] = IF preset = None /\ ~@.creating THEN Idle
                                 ELSE [@ EXCEPT !.at = "write", !.had = preset]]
  /\ UNCHANGED <<tables, wanted, mixed, requests, bot>>

\* fault: what the request does not name goes back to its default
Merged_Anew(body, had) == [s \in Setting |-> IF s \in DOMAIN body THEN body[s] ELSE 0]

\* The body over what there was, over the defaults.
Merged(body, had) ==
  [s \in Setting |-> IF s \in DOMAIN body THEN body[s] ELSE IF had # None THEN had[s] ELSE 0]

\* fault: only what is switched on is sent
Sent_OnOnly(body, s) == body[s] # 0

\* What goes to the live channels.
Sent(body, s) == s \in Flag \/ body[s] # 0

Writes(r) == call[r].at = "write"

WritePreset(r) ==
  /\ Writes(r)
  /\ preset' = Merged(call[r].body, call[r].had)
  /\ call' = [q \in Request |->
       IF q # r THEN [call[q] EXCEPT !.late = @ \/ Writes(q)]
       ELSE IF call[r].apply THEN [call[r] EXCEPT !.at = "owned"] ELSE Idle]
  /\ wanted' = [c \in Channel |->
       IF call[r].apply /\ c \in Live
       THEN [s \in Setting |-> IF s \in DOMAIN call[r].body /\ (s \in Flag \/ call[r].body[s] # 0)
                               THEN call[r].body[s] ELSE wanted[c][s]]
       ELSE wanted[c]]
  /\ UNCHANGED <<live, pending, mixed, requests, bot>>

\* The actions that bring what a body says to the live channels (liveChannelsForOwner): no two
\* are about the same setting of the same channel.
Actions(body) ==
  {[c |-> c, s |-> s, v |-> body[s]] : c \in Live, s \in {x \in DOMAIN body : Sent(body, x)}}

ReadLive(r) ==
  /\ call[r].at = "owned"
  /\ LET todo == SetToSeq(Actions(call[r].body))
     IN call' = [call EXCEPT ![r] = IF todo = <<>> THEN Idle ELSE [@ EXCEPT !.at = "queue", !.todo = todo]]
  /\ UNCHANGED <<tables, wanted, mixed, requests, bot>>

Enqueue(r) ==
  /\ call[r].at = "queue"
  /\ pending' = Append(pending, Head(call[r].todo))
  /\ call' = [call EXCEPT ![r] = IF Len(@.todo) = 1 THEN Idle ELSE [@ EXCEPT !.todo = Tail(call[r].todo)]]
  /\ UNCHANGED <<preset, live, wanted, mixed, requests, bot>>

\* Any query fails: a 500, and what was done stays done.
Fail(r) ==
  /\ call[r].at # "idle"
  /\ call' = [call EXCEPT ![r] = Idle] /\ mixed' = TRUE
  /\ UNCHANGED <<tables, wanted, requests, bot>>

\* DELETE /tempvoice/presets/:userId.
Clear(r) ==
  /\ Begin(r, "clear")
  /\ call' = [call EXCEPT ![r] = [Idle EXCEPT !.at = "clear"]]
  /\ UNCHANGED wanted

ReadCleared(r) ==
  /\ call[r].at = "clear"
  /\ call' = [call EXCEPT ![r] = IF preset = None THEN Idle ELSE [@ EXCEPT !.at = "remove"]]
  /\ UNCHANGED <<tables, wanted, mixed, requests, bot>>

RemovePreset(r) ==
  /\ call[r].at = "remove"
  /\ preset' = None
  /\ call' = [q \in Request |-> IF q = r THEN Idle ELSE [call[q] EXCEPT !.late = @ \/ Writes(q)]]
  /\ UNCHANGED <<live, pending, wanted, mixed, requests, bot>>

\* POST /tempvoice/channels/:channelId: the channel is looked up, then one action is queued.
Manage(r, c, s, v) ==
  /\ Begin(r, "queue") /\ c \in Live
  /\ call' = [call EXCEPT ![r] = [Idle EXCEPT !.at = "queue", !.todo = <<[c |-> c, s |-> s, v |-> v]>>]]
  /\ wanted' = [wanted EXCEPT ![c][s] = v]

-----------------------------------------------------------------------------
(* The bot.                                                                *)

CarryOut ==
  /\ pending # <<>> /\ pending' = Tail(pending)
  /\ LET a == Head(pending)
     IN live' = IF a.c \notin Live THEN live ELSE [live EXCEPT ![a.c][a.s] = a.v]
  /\ UNCHANGED <<preset, call, wanted, mixed, requests, bot>>

Unasked == bot < MaxBot /\ bot' = bot + 1 /\ UNCHANGED <<preset, pending, call, requests>>

OpenChannel(c) ==
  /\ Unasked /\ live[c] = None
  /\ live' = [live EXCEPT ![c] = IF preset = None THEN Defaults ELSE preset]
  /\ wanted' = [wanted EXCEPT ![c] = live'[c]]
  /\ UNCHANGED mixed

CloseChannel(c) ==
  /\ Unasked /\ c \in Live
  /\ live' = [live EXCEPT ![c] = Gone] /\ wanted' = [wanted EXCEPT ![c] = None]
  /\ UNCHANGED mixed

OwnerSets(c, s, v) ==
  /\ Unasked /\ c \in Live
  /\ live' = [live EXCEPT ![c][s] = v] /\ wanted' = [wanted EXCEPT ![c][s] = v]
  /\ mixed' = (mixed \/ Busy)

-----------------------------------------------------------------------------

Next ==
  \/ \E r \in Request :
       \/ \E body \in Bodies, creating \in BOOLEAN, apply \in BOOLEAN : Save(r, body, creating, apply)
       \/ ReadPreset(r) \/ WritePreset(r) \/ ReadLive(r) \/ Enqueue(r) \/ Fail(r)
       \/ Clear(r) \/ ReadCleared(r) \/ RemovePreset(r)
       \/ \E c \in Channel, s \in Setting, v \in Value : Manage(r, c, s, v)
  \/ CarryOut
  \/ \E c \in Channel : OpenChannel(c) \/ CloseChannel(c)
       \/ \E s \in Setting, v \in Value : OwnerSets(c, s, v)

Spec == Init /\ [][Next]_vars

-----------------------------------------------------------------------------
(* Properties.                                                             *)

\* A saved default loses or changes a setting only by a request that names it; when another
\* request wrote the row between a request's reading and its writing, what that one wrote is
\* lost as well, and this is the only way.
SettingsKept ==
  [][preset # None /\ preset' # None =>
       \A s \in Setting : preset'[s] # preset[s] =>
         \E r \in Request : Writes(r) /\ ~Writes(r)' /\ (s \in DOMAIN call[r].body \/ call[r].late)]_vars

\* When all that was queued is carried out and nothing overlapped or failed, every live channel
\* has, setting by setting, what was last asked of it: by the default it was opened with, by its
\* owner, or by a later change of the default that was to apply to it.
LiveFollows ==
  ~Busy /\ ~mixed => \A c \in Live : live[c] = wanted[c]

=============================================================================
