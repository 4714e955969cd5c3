-------------------------- MODULE Background_proofs --------------------------
(***************************************************************************)
(* Proofs about the link to SquadJS (SquadLink), the match history          *)
(* (MatchSync) and the lobby service (LobbyService), as the background run   *)
(* has them.  Of the link: type correctness, that it implements LiveMirror,  *)
(* so that the api's player list never goes back, and that the api's        *)
(* balanceStatus is right whenever nothing is under way.  Of the history: a  *)
(* row nobody edited has its own round's result, and a row somebody edited   *)
(* stays as it is.  Of the lobby service: its flags say what is so.         *)
(*                                                                         *)
(* The refinement needs to know what is on the wire: a list that arrives   *)
(* must be no older than the api's copy and no newer than SquadJS's list.  *)
(* LInv says so of every list under way, which takes that they are in      *)
(* order, as a connection keeps them.                                      *)
(***************************************************************************)
EXTENDS MCBackground, TLAPS

IsList(m) == m.kind = "players"

\* The lists on wire w are between versions lo and hi, and in order.
InOrder(w, lo, hi) ==
  /\ \A i \in 1 .. Len(w) : IsList(w[i]) => lo <= w[i].v /\ w[i].v <= hi
  /\ \A i, j \in 1 .. Len(w) : i <= j /\ IsList(w[i]) /\ IsList(w[j]) => w[i].v <= w[j].v

\* What holds of one server's link.
Ordered(s) ==
  /\ mirror[s].players <= roster[s]
  /\ InOrder(wire[s], mirror[s].players, roster[s])
  /\ line[s] = "up" => mirror[s].connected

\* The inductive invariant.
LInv == LinkTypeOK /\ \A s \in Server : Ordered(s)

-----------------------------------------------------------------------------
(* The queue.  Three things may still come to correct the mirror: a word on   *)
(* the wire, the answer to a request that SquadJS has not seen yet, or       *)
(* nothing, because the mirror is right.  The last word counts.             *)

\* Wire w carries lists only; or the last of its other messages says b.
OnlyLists(w) == \A i \in 1 .. Len(w) : IsList(w[i])
LastWord(w, b) ==
  \E i \in 1 .. Len(w) :
    /\ ~IsList(w[i]) /\ w[i].on = b
    /\ \A j \in 1 .. Len(w) : i < j => IsList(w[j])

Shows(m, b) == m.queue = "pending" <=> b

\* The mirror of s knows whether a balance is queued, or is going to be told.
Told(s) ==
  \/ LastWord(wire[s], queued[s])
  \/ OnlyLists(wire[s]) /\ (asks[s].status \/ Shows(mirror[s], queued[s]))

\* The inductive invariant for the queue, beside LInv.
QInv == \A s \in Server : IF line[s] = "up" THEN Told(s) ELSE wire[s] = <<>>

-----------------------------------------------------------------------------
(* The match history.  A result is worked out from two rounds' columns and   *)
(* stored later: that it is right then takes that an ended round no longer   *)
(* changes, and that a column is the round's own or the round's before.      *)

\* What a row of round r may say (ResultIsOwn, of one row).
Fits(r, result) ==
  \/ result \in {0, r.won}
  \/ r.column.kind = "name" /\ r.column.of \in {r.pair[1], r.pair[2]}

\* Column c is the name of the winner of round r.
Names(c, r) == c.kind = "name" /\ r.won \in {1, 2} /\ c.of = r.pair[r.won]

\* Where rounds q stand: only the last goes on, and what the columns say.
Columned(q) ==
  \A m \in 1 .. Len(q) :
    /\ ~q[m].ended => m = Len(q)
    /\ q[m].column.kind = "json" => q[m].ended /\ q[m].column.of = q[m].won
    /\ q[m].column.kind = "name" => m > 1 /\ Names(q[m].column, q[m - 1])

\* What the old writer carries is of the last round, which has ended.
Carries(q, c) == c = History!NoColumn \/ (Len(q) > 0 /\ q[Len(q)].ended /\ Names(c, q[Len(q)]))

\* A row for round m of q may be this one.
GoodRow(q, m, row) ==
  /\ m \in 1 .. Len(q) /\ q[m].ended /\ q[m].kind = "played"
  /\ row.by = "api" => Fits(q[m], row.result)

\* A pass, or the resync, deals with ended rounds, and what it has assembled is right.
GoodCall(q, call) ==
  /\ \A m \in call.todo : m \in 1 .. Len(q) /\ q[m].ended
  /\ call.at \in {"create", "update"} => call.found.by = "api" /\ GoodRow(q, call.now, call.found)

Rows == [result : 0 .. 2, by : {"nobody", "api", "staff"}]
CallType == [at : {"idle", "loop", "create", "update"}, todo : SUBSET History!Match,
             now : 0 .. Last, skip : SUBSET History!Match, found : Rows]

\* The inductive invariant.
HInv ==
  /\ History!TypeOK /\ carried \in History!Columns \cup {History!NoColumn}
  /\ pass \in [Pass -> CallType] /\ resync \in CallType
  /\ Columned(played) /\ Carries(played, carried)
  /\ \A m \in History!Match : History!Stored(m) => GoodRow(played, m, stored[m])
  /\ \A p \in Pass : GoodCall(played, pass[p])
  /\ GoodCall(played, resync)

-----------------------------------------------------------------------------
(* Lemmas on the wire.                                                     *)

\* Nothing on the wire is in order.
LEMMA EmptyInOrder == \A lo, hi : InOrder(<<>>, lo, hi)
  BY DEF InOrder

\* Adding a list as new as any keeps the order; so does adding anything else.
LEMMA AppendInOrder ==
  ASSUME NEW w \in Seq(Message), NEW m \in Message, NEW lo \in Nat, NEW hi \in Nat, NEW hi2 \in Nat,
         InOrder(w, lo, hi), lo <= hi, hi <= hi2, IsList(m) => m.v = hi2
  PROVE  InOrder(Append(w, m), lo, hi2)
<1> DEFINE x == Append(w, m)
<1>1. Len(x) = Len(w) + 1 /\ x[Len(w) + 1] = m /\ \A i \in 1 .. Len(w) : x[i] = w[i]
  OBVIOUS
<1>2. \A i \in 1 .. Len(w) : w[i] \in Message
  OBVIOUS
<1>3. Len(w) \in Nat
  OBVIOUS
<1>4. \A i \in 1 .. Len(x) : i \in 1 .. Len(w) \/ i = Len(w) + 1
  BY <1>1, <1>3
<1>5. ASSUME NEW i \in 1 .. Len(x), IsList(x[i])  PROVE lo <= x[i].v /\ x[i].v <= hi2
  BY <1>1, <1>2, <1>4, <1>5 DEF InOrder, Message
<1>6. ASSUME NEW i \in 1 .. Len(x), NEW j \in 1 .. Len(x), i <= j, IsList(x[i]), IsList(x[j])
      PROVE  x[i].v <= x[j].v
  <2>1. CASE j = Len(w) + 1
    BY <1>1, <1>5, <1>6, <2>1 DEF Message
  <2>2. CASE j \in 1 .. Len(w)
    <3>1. i \in 1 .. Len(w)
      BY <1>3, <1>4, <1>6, <2>2
    <3> QED
      BY <1>1, <1>6, <2>2, <3>1 DEF InOrder
  <2> QED
    BY <1>4, <2>1, <2>2
<1> QED
  BY <1>5, <1>6 DEF InOrder

\* A newer list at SquadJS leaves what is on its way in order.
LEMMA RaiseInOrder ==
  ASSUME NEW w \in Seq(Message), NEW lo \in Nat, NEW hi \in Nat, InOrder(w, lo, hi)
  PROVE  InOrder(w, lo, hi + 1)
<1>1. \A i \in 1 .. Len(w) : w[i] \in Message
  OBVIOUS
<1>2. \A i \in 1 .. Len(w) : w[i].v \in Nat
  BY <1>1 DEF Message
<1> QED
  BY <1>2 DEF InOrder

\* Taking the first message, and its list if it has one, leaves the rest in order.
LEMMA TailInOrder ==
  ASSUME NEW w \in Seq(Message), w # <<>>, NEW lo \in Nat, NEW hi \in Nat, InOrder(w, lo, hi)
  PROVE  InOrder(Tail(w), IF IsList(Head(w)) THEN Head(w).v ELSE lo, hi)
<1> DEFINE x == Tail(w)
<1>1. Len(w) \in Nat \ {0} /\ Head(w) = w[1]
  OBVIOUS
<1>2. Len(x) = Len(w) - 1 /\ \A i \in 1 .. Len(x) : x[i] = w[i + 1]
  OBVIOUS
<1>3. \A i \in 1 .. Len(x) : i + 1 \in 1 .. Len(w) /\ 1 <= i + 1
  BY <1>1, <1>2
<1>4. 1 \in 1 .. Len(w)
  BY <1>1
<1> QED
  BY <1>1, <1>2, <1>3, <1>4 DEF InOrder

-----------------------------------------------------------------------------
(* Steps.                                                                  *)

\* The links of the other servers stay as they are.
LEMMA OneServer ==
  ASSUME LInv, LinkTypeOK', NEW s \in Server, Ordered(s)',
         \A t \in Server \ {s} : /\ roster'[t] = roster[t] /\ mirror'[t] = mirror[t]
                                 /\ wire'[t] = wire[t] /\ line'[t] = line[t]
  PROVE  LInv'
  BY DEF LInv, Ordered, InOrder

\* What SquadJS emits.
LEMMA Emitted ==
  ASSUME LinkTypeOK, NEW s \in Server, NEW m \in Message, Emit(s, m)
  PROVE  wire' \in [Server -> Seq(Message)] /\ wire'[s] = Append(wire[s], m)
  BY DEF LinkTypeOK, Emit

LEMMA RosterChangeStep ==
  ASSUME LInv, NEW s \in Server, RosterChange(s)
  PROVE  LInv' /\ Live!Advance(s)
<1>0. LinkTypeOK /\ roster[s] \in Nat /\ mirror[s].players \in Nat /\ wire[s] \in Seq(Message)
  BY DEF LInv, LinkTypeOK, Live!Mirror
<1> DEFINE m == Players(roster[s] + 1)
<1>1. m \in Message /\ m.v = roster[s] + 1
  BY <1>0 DEF Message, Players
<1>2. roster'[s] = roster[s] + 1 /\ mirror'[s] = mirror[s] /\ line'[s] = line[s]
  BY <1>0 DEF RosterChange, LinkTypeOK
<1>5. roster' \in [Server -> Nat] /\ UNCHANGED <<queued, line, asks, mirror, quiet, flips, drops>>
  BY <1>0 DEF RosterChange, LinkTypeOK
<1>3. CASE UNCHANGED wire
  <2>1. LinkTypeOK'
    BY <1>0, <1>3, <1>5 DEF LinkTypeOK
  <2>2. InOrder(wire[s], mirror[s].players, roster[s] + 1)
    BY <1>0, RaiseInOrder DEF LInv, Ordered
  <2>3. Ordered(s)'
    BY <1>0, <1>2, <1>3, <2>2 DEF Ordered, LInv
  <2> QED
    BY <1>0, <1>3, <2>1, <2>3, OneServer DEF RosterChange, LinkTypeOK, Live!Advance
<1>4. CASE Emit(s, m)
  <2>1. wire' \in [Server -> Seq(Message)] /\ wire'[s] = Append(wire[s], m)
    BY <1>0, <1>1, <1>4, Emitted
  <2>2. LinkTypeOK'
    BY <1>0, <1>5, <2>1 DEF LinkTypeOK
  <2>3. InOrder(Append(wire[s], m), mirror[s].players, roster[s] + 1)
    BY <1>0, <1>1, AppendInOrder DEF LInv, Ordered
  <2>4. Ordered(s)'
    BY <1>0, <1>2, <2>1, <2>3 DEF Ordered, LInv
  <2>5. \A t \in Server \ {s} : wire'[t] = wire[t] /\ roster'[t] = roster[t]
    BY <1>0, <1>4 DEF Emit, RosterChange, LinkTypeOK
  <2> QED
    BY <2>2, <2>4, <2>5, OneServer DEF RosterChange, Live!Advance
<1> QED
  BY <1>3, <1>4 DEF RosterChange

\* An answer, or a queue event: nothing that LiveMirror sees.
LEMMA EmitStep ==
  ASSUME LInv, NEW s \in Server, NEW m \in Message, Emit(s, m), LinkTypeOK',
         IsList(m) => m.v = roster[s], UNCHANGED <<roster, mirror, line>>
  PROVE  LInv'
<1>0. LinkTypeOK /\ roster[s] \in Nat /\ mirror[s].players \in Nat /\ wire[s] \in Seq(Message)
  BY DEF LInv, LinkTypeOK, Live!Mirror
<1>1. wire'[s] = Append(wire[s], m)
  BY <1>0, Emitted
<1>2. InOrder(Append(wire[s], m), mirror[s].players, roster[s])
  BY <1>0, AppendInOrder DEF LInv, Ordered
<1>3. Ordered(s)'
  BY <1>0, <1>1, <1>2 DEF Ordered, LInv
<1>4. \A t \in Server \ {s} : wire'[t] = wire[t]
  BY <1>0 DEF Emit, LinkTypeOK
<1> QED
  BY <1>3, <1>4, OneServer

LEMMA QueueChangeStep ==
  ASSUME LInv, NEW s \in Server, QueueChange(s)
  PROVE  LInv' /\ UNCHANGED Live!mvars
<1>0. LinkTypeOK /\ queued[s] \in BOOLEAN
  BY DEF LInv, LinkTypeOK
<1> DEFINE m == Queue(~queued[s])
<1>1. m \in Message /\ ~IsList(m)
  BY <1>0 DEF Message, Queue, IsList
<1>2. /\ queued' \in [Server -> BOOLEAN] /\ flips' \in [Server -> Nat]
      /\ UNCHANGED <<roster, line, asks, mirror, quiet, drops>>
  BY <1>0 DEF QueueChange, LinkTypeOK
<1>3. CASE line[s] = "up"
  <2>1. Emit(s, m)
    BY <1>3 DEF QueueChange
  <2>2. LinkTypeOK'
    BY <1>0, <1>1, <1>2, <2>1, Emitted DEF LinkTypeOK
  <2> QED
    BY <1>1, <1>2, <2>1, <2>2, EmitStep DEF Live!mvars
<1>4. CASE line[s] # "up"
  <2>1. UNCHANGED wire
    BY <1>4 DEF QueueChange
  <2> QED
    BY <1>0, <1>2, <2>1 DEF LInv, LinkTypeOK, Ordered, Live!mvars
<1> QED
  BY <1>3, <1>4

LEMMA AnswerPlayersStep ==
  ASSUME LInv, NEW s \in Server, AnswerPlayers(s)
  PROVE  LInv' /\ UNCHANGED Live!mvars
<1>0. LinkTypeOK /\ roster[s] \in Nat
  BY DEF LInv, LinkTypeOK
<1> DEFINE m == Players(roster[s])
<1>1. m \in Message /\ m.v = roster[s]
  BY <1>0 DEF Message, Players
<1>2. /\ asks' \in [Server -> [players : {0, 1}, status : BOOLEAN]]
      /\ UNCHANGED <<roster, queued, line, mirror, quiet, flips, drops>>
  BY <1>0 DEF AnswerPlayers, LinkTypeOK
<1>3. Emit(s, m)
  BY DEF AnswerPlayers
<1>4. LinkTypeOK'
  BY <1>0, <1>1, <1>2, <1>3, Emitted DEF LinkTypeOK
<1> QED
  BY <1>1, <1>2, <1>3, <1>4, EmitStep DEF Live!mvars

LEMMA AnswerStatusStep ==
  ASSUME LInv, NEW s \in Server, AnswerStatus(s)
  PROVE  LInv' /\ UNCHANGED Live!mvars
<1>0. LinkTypeOK /\ queued[s] \in BOOLEAN
  BY DEF LInv, LinkTypeOK
<1> DEFINE m == Answered(queued[s])
<1>1. m \in Message /\ ~IsList(m)
  BY <1>0 DEF Message, Answered, IsList
<1>2. /\ asks' \in [Server -> [players : {0, 1}, status : BOOLEAN]]
      /\ UNCHANGED <<roster, queued, line, mirror, quiet, flips, drops>>
  BY <1>0 DEF AnswerStatus, LinkTypeOK
<1>3. Emit(s, m)
  BY DEF AnswerStatus
<1>4. LinkTypeOK'
  BY <1>0, <1>1, <1>2, <1>3, Emitted DEF LinkTypeOK
<1> QED
  BY <1>1, <1>2, <1>3, <1>4, EmitStep DEF Live!mvars

\* The connection ends: the wire is emptied, the copies are kept.
LEMMA HangStep ==
  ASSUME LInv, NEW s \in Server, Hang(s), drops' \in [Server -> Nat]
  PROVE  LInv' /\ Live!SetConnected(s, FALSE)
<1>0. LinkTypeOK /\ mirror[s] \in Live!Mirror
  BY DEF LInv, LinkTypeOK
<1>1. /\ line' \in [Server -> {"down", "up", "dead"}] /\ line'[s] = "down"
      /\ asks' \in [Server -> [players : {0, 1}, status : BOOLEAN]]
  BY <1>0 DEF Hang, LinkTypeOK, NoAsks
<1>2. wire' \in [Server -> Seq(Message)] /\ wire'[s] = <<>>
  BY <1>0 DEF Hang, LinkTypeOK
<1>3. mirror' \in [Server -> Live!Mirror] /\ mirror'[s].players = mirror[s].players
  BY <1>0 DEF Hang, LinkTypeOK, Live!Mirror
<1>4. LinkTypeOK'
  BY <1>0, <1>1, <1>2, <1>3 DEF Hang, LinkTypeOK
<1>5. Ordered(s)'
  BY <1>0, <1>1, <1>2, <1>3, EmptyInOrder DEF Hang, Ordered, LInv
<1>6. \A t \in Server \ {s} : /\ roster'[t] = roster[t] /\ mirror'[t] = mirror[t]
                             /\ wire'[t] = wire[t] /\ line'[t] = line[t]
  BY <1>0 DEF Hang, LinkTypeOK
<1>7. Live!SetConnected(s, FALSE)
  BY DEF Hang, Live!SetConnected
<1> QED
  BY <1>4, <1>5, <1>6, <1>7, OneServer

LEMMA ConnectStep ==
  ASSUME LInv, NEW s \in Server, Connect(s)
  PROVE  LInv' /\ Live!SetConnected(s, TRUE)
<1>0. LinkTypeOK /\ mirror[s] \in Live!Mirror
  BY DEF LInv, LinkTypeOK
<1>1. /\ line' \in [Server -> {"down", "up", "dead"}]
      /\ asks' \in [Server -> [players : {0, 1}, status : BOOLEAN]]
  BY <1>0 DEF Connect, LinkTypeOK
<1>2. mirror' \in [Server -> Live!Mirror] /\ mirror'[s].players = mirror[s].players
      /\ mirror'[s].connected
  BY <1>0 DEF Connect, LinkTypeOK, Live!Mirror
<1>3. LinkTypeOK'
  BY <1>0, <1>1, <1>2 DEF Connect, LinkTypeOK
<1>4. Ordered(s)'
  BY <1>0, <1>2 DEF Connect, Ordered, LInv
<1>5. \A t \in Server \ {s} : /\ roster'[t] = roster[t] /\ mirror'[t] = mirror[t]
                             /\ wire'[t] = wire[t] /\ line'[t] = line[t]
  BY <1>0 DEF Connect, LinkTypeOK
<1> QED
  BY <1>3, <1>4, <1>5, OneServer DEF Connect, Live!SetConnected

LEMMA DieStep ==
  ASSUME LInv, NEW s \in Server, Die(s)
  PROVE  LInv' /\ UNCHANGED Live!mvars
<1>0. LinkTypeOK
  BY DEF LInv
<1>1. /\ line' \in [Server -> {"down", "up", "dead"}] /\ line'[s] = "dead"
      /\ asks' \in [Server -> [players : {0, 1}, status : BOOLEAN]]
      /\ drops' \in [Server -> Nat]
  BY <1>0 DEF Die, LinkTypeOK, NoAsks
<1>2. wire' \in [Server -> Seq(Message)] /\ wire'[s] = <<>>
  BY <1>0 DEF Die, LinkTypeOK
<1>3. LinkTypeOK'
  BY <1>0, <1>1, <1>2 DEF Die, LinkTypeOK
<1>4. Ordered(s)'
  BY <1>1, <1>2, EmptyInOrder DEF Die, Ordered, LInv
<1>5. \A t \in Server \ {s} : wire'[t] = wire[t] /\ line'[t] = line[t]
  BY <1>0 DEF Die, LinkTypeOK
<1> QED
  BY <1>3, <1>4, <1>5, OneServer DEF Die, Live!mvars

\* A message arrives: LiveMirror sees a list, the end or the start of a queue, or a status.
LEMMA DeliverStep ==
  ASSUME LInv, NEW s \in Server, Deliver(s)
  PROVE  LInv' /\ Live!MNext
<1> DEFINE m == Head(wire[s])
<1>0. /\ LinkTypeOK /\ Ordered(s) /\ mirror[s] \in Live!Mirror /\ roster[s] \in Nat
      /\ wire[s] \in Seq(Message) /\ mirror[s].players \in Nat
  BY DEF LInv, LinkTypeOK, Live!Mirror
<1>1. line[s] = "up" /\ wire[s] # <<>> /\ mirror[s].connected
  BY <1>0 DEF Deliver, Ordered
<1>2. m \in Message /\ Tail(wire[s]) \in Seq(Message) /\ m = wire[s][1] /\ 1 \in 1 .. Len(wire[s])
  BY <1>0, <1>1
<1>3. Heard(s, m) \in Live!Mirror
  BY <1>0, <1>2 DEF Heard, Message, Live!Mirror, Live!Status
<1>4. wire' = [wire EXCEPT ![s] = Tail(@)] /\ mirror' = [mirror EXCEPT ![s] = Heard(s, m)]
      /\ quiet' = [quiet EXCEPT ![s] = FALSE] /\ UNCHANGED <<roster, queued, line, asks, flips, drops>>
  BY DEF Deliver
<1>5. /\ wire' \in [Server -> Seq(Message)] /\ wire'[s] = Tail(wire[s])
      /\ mirror' \in [Server -> Live!Mirror] /\ mirror'[s] = Heard(s, m)
      /\ quiet' \in [Server -> BOOLEAN]
  BY <1>0, <1>2, <1>3, <1>4 DEF LinkTypeOK
<1>6. LinkTypeOK'
  BY <1>0, <1>4, <1>5 DEF LinkTypeOK
<1>7. /\ Heard(s, m).players = IF IsList(m) THEN m.v ELSE mirror[s].players
      /\ Heard(s, m).connected
  BY <1>0, <1>1, <1>2 DEF Heard, Message, IsList, Live!Mirror
<1>8. IsList(m) => mirror[s].players <= m.v /\ m.v <= roster[s]
  BY <1>0, <1>2 DEF Ordered, InOrder
<1>9. InOrder(Tail(wire[s]), Heard(s, m).players, roster[s])
  BY <1>0, <1>1, <1>7, TailInOrder DEF Ordered
<1>10. Ordered(s)'
  BY <1>0, <1>4, <1>5, <1>7, <1>8, <1>9 DEF Ordered
<1>11. \A t \in Server \ {s} : /\ roster'[t] = roster[t] /\ mirror'[t] = mirror[t]
                              /\ wire'[t] = wire[t] /\ line'[t] = line[t]
  BY <1>0, <1>4 DEF LinkTypeOK
<1>12. LInv'
  BY <1>6, <1>10, <1>11, OneServer
<1>13. Live!MNext
  <2>1. CASE m.kind = "players"
    <3>1. m.v \in mirror[s].players .. roster[s]
      BY <1>0, <1>2, <1>8, <2>1 DEF IsList, Message
    <3>2. mirror' = [mirror EXCEPT ![s].players = m.v]
      BY <1>4, <2>1 DEF Heard
    <3>3. Live!SetPlayers(s)
      BY <1>1, <1>4, <3>1, <3>2 DEF Live!SetPlayers
    <3> QED
      BY <3>3 DEF Live!MNext
  <2>2. CASE m.kind = "queue"
    <3>1. mirror' = [mirror EXCEPT ![s].queue = IF m.on THEN "pending" ELSE "null"]
      BY <1>4, <2>2 DEF Heard
    <3>2. Live!QueueEvent(s, m.on) /\ m.on \in BOOLEAN
      BY <1>1, <1>2, <1>4, <3>1 DEF Live!QueueEvent, Message
    <3> QED
      BY <3>2 DEF Live!MNext
  <2>3. CASE m.kind = "status"
    <3>1. mirror' = [mirror EXCEPT ![s].queue = IF m.on THEN "pending" ELSE "idle"]
      BY <1>4, <2>3 DEF Heard
    <3>2. Live!StatusAnswer(s, m.on) /\ m.on \in BOOLEAN
      BY <1>1, <1>2, <1>4, <3>1 DEF Live!StatusAnswer, Message
    <3> QED
      BY <3>2 DEF Live!MNext
  <2> QED
    BY <1>2, <2>1, <2>2, <2>3 DEF Message
<1> QED
  BY <1>12, <1>13

\* Time, and a request for the list: nothing that LiveMirror or the wire sees.
LEMMA QuietStep ==
  ASSUME LInv, NEW s \in Server, FallQuiet(s) \/ Poll(s)
  PROVE  LInv' /\ UNCHANGED Live!mvars
<1>1. UNCHANGED <<roster, mirror, wire, line>>
  BY DEF FallQuiet, Poll
<1>2. LinkTypeOK'
  BY DEF FallQuiet, Poll, LInv, LinkTypeOK
<1> QED
  BY <1>1, <1>2 DEF LInv, Ordered, Live!mvars

-----------------------------------------------------------------------------
(* The theorems.                                                           *)

LEMMA LInvInit == LInit => LInv
<1> SUFFICES ASSUME LInit PROVE LInv
  OBVIOUS
<1>1. LinkTypeOK
  BY DEF LInit, LinkTypeOK, NoAsks, Live!Unknown, Live!Mirror, Live!Status
<1>2. ASSUME NEW s \in Server  PROVE Ordered(s)
  <2>1. /\ wire[s] = <<>> /\ line[s] = "down"
        /\ mirror[s].players = 0 /\ roster[s] = 0
    BY DEF LInit, Live!Unknown
  <2>2. InOrder(<<>>, 0, 0)
    BY EmptyInOrder
  <2> QED
    BY <2>1, <2>2 DEF Ordered
<1> QED
  BY <1>1, <1>2 DEF LInv

\* Every step keeps the invariant and is a step of LiveMirror, or none.
LEMMA LInvStep == LInv /\ [LinkNext]_lvars => LInv' /\ [Live!MNext]_Live!mvars
<1> SUFFICES ASSUME LInv, [LinkNext]_lvars  PROVE LInv' /\ [Live!MNext]_Live!mvars
  OBVIOUS
<1>1. CASE UNCHANGED lvars
  BY <1>1 DEF lvars, LInv, LinkTypeOK, Ordered, Live!mvars
<1>2. ASSUME NEW s \in Server, RosterChange(s)  PROVE LInv' /\ [Live!MNext]_Live!mvars
  BY <1>2, RosterChangeStep DEF Live!MNext
<1>3. ASSUME NEW s \in Server, QueueChange(s)  PROVE LInv' /\ [Live!MNext]_Live!mvars
  BY <1>3, QueueChangeStep
<1>4. ASSUME NEW s \in Server, AnswerPlayers(s)  PROVE LInv' /\ [Live!MNext]_Live!mvars
  BY <1>4, AnswerPlayersStep
<1>5. ASSUME NEW s \in Server, AnswerStatus(s)  PROVE LInv' /\ [Live!MNext]_Live!mvars
  BY <1>5, AnswerStatusStep
<1>6. ASSUME NEW s \in Server, Connect(s)  PROVE LInv' /\ [Live!MNext]_Live!mvars
  BY <1>6, ConnectStep DEF Live!MNext
<1>7. ASSUME NEW s \in Server, Disconnect(s) \/ Watchdog(s)  PROVE LInv' /\ [Live!MNext]_Live!mvars
  <2>1. Hang(s)
    BY <1>7 DEF Disconnect, Watchdog
  <2>2. drops' = drops \/ drops' = [drops EXCEPT ![s] = @ + 1]
    BY <1>7 DEF Disconnect, Watchdog
  <2>3. drops \in [Server -> Nat]
    BY DEF LInv, LinkTypeOK
  <2>4. drops' \in [Server -> Nat]
    BY <2>2, <2>3
  <2> QED
    BY <2>1, <2>4, HangStep DEF Live!MNext
<1>8. ASSUME NEW s \in Server, Die(s)  PROVE LInv' /\ [Live!MNext]_Live!mvars
  BY <1>8, DieStep
<1>9. ASSUME NEW s \in Server, FallQuiet(s) \/ Poll(s)  PROVE LInv' /\ [Live!MNext]_Live!mvars
  BY <1>9, QuietStep
<1>10. ASSUME NEW s \in Server, Deliver(s)  PROVE LInv' /\ [Live!MNext]_Live!mvars
  BY <1>10, DeliverStep
<1> QED
  BY <1>1, <1>2, <1>3, <1>4, <1>5, <1>6, <1>7, <1>8, <1>9, <1>10 DEF LinkNext

-----------------------------------------------------------------------------
(* The queue.                                                              *)

\* A list changes nothing of what is being told.
LEMMA AppendList ==
  ASSUME NEW w \in Seq(Message), NEW m \in Message, IsList(m), NEW b \in BOOLEAN
  PROVE  /\ LastWord(w, b) => LastWord(Append(w, m), b)
         /\ OnlyLists(w) => OnlyLists(Append(w, m))
<1> DEFINE x == Append(w, m)
<1>1. /\ Len(w) \in Nat /\ Len(x) = Len(w) + 1 /\ x[Len(w) + 1] = m
      /\ \A i \in 1 .. Len(w) : x[i] = w[i]
  OBVIOUS
<1>2. \A i \in 1 .. Len(x) : i \in 1 .. Len(w) \/ i = Len(w) + 1
  BY <1>1
<1>3. ASSUME LastWord(w, b)  PROVE LastWord(x, b)
  <2>1. PICK i \in 1 .. Len(w) : /\ ~IsList(w[i]) /\ w[i].on = b
                                 /\ \A j \in 1 .. Len(w) : i < j => IsList(w[j])
    BY <1>3 DEF LastWord
  <2>2. i \in 1 .. Len(x) /\ ~IsList(x[i]) /\ x[i].on = b
    BY <1>1, <2>1
  <2>3. \A j \in 1 .. Len(x) : i < j => IsList(x[j])
    BY <1>1, <1>2, <2>1
  <2> QED
    BY <2>2, <2>3 DEF LastWord
<1>4. OnlyLists(w) => OnlyLists(x)
  BY <1>1, <1>2 DEF OnlyLists
<1> QED
  BY <1>3, <1>4

\* A word is the last one once it is on the wire.
LEMMA AppendWord ==
  ASSUME NEW w \in Seq(Message), NEW m \in Message, ~IsList(m)
  PROVE  LastWord(Append(w, m), m.on)
<1> DEFINE x == Append(w, m)
<1>1. Len(w) \in Nat /\ Len(x) = Len(w) + 1 /\ x[Len(w) + 1] = m
  OBVIOUS
<1>2. /\ Len(w) + 1 \in 1 .. Len(x)
      /\ \A j \in 1 .. Len(x) : ~(Len(w) + 1 < j)
  BY <1>1
<1> QED
  BY <1>1, <1>2 DEF LastWord

\* Taking the first message: the last word stays under way, or it was the first message.
LEMMA TailWord ==
  ASSUME NEW w \in Seq(Message), w # <<>>, NEW b \in BOOLEAN
  PROVE  /\ OnlyLists(w) => IsList(Head(w)) /\ OnlyLists(Tail(w))
         /\ LastWord(w, b) => \/ LastWord(Tail(w), b)
                              \/ OnlyLists(Tail(w)) /\ ~IsList(Head(w)) /\ Head(w).on = b
<1> DEFINE x == Tail(w)
<1>1. Len(w) \in Nat \ {0} /\ Head(w) = w[1] /\ 1 \in 1 .. Len(w)
  OBVIOUS
<1>2. Len(x) = Len(w) - 1 /\ \A i \in 1 .. Len(x) : x[i] = w[i + 1] /\ i + 1 \in 1 .. Len(w)
  OBVIOUS
<1>3. OnlyLists(w) => IsList(Head(w)) /\ OnlyLists(x)
  BY <1>1, <1>2 DEF OnlyLists
<1>4. ASSUME LastWord(w, b)
      PROVE  LastWord(x, b) \/ (OnlyLists(x) /\ ~IsList(Head(w)) /\ Head(w).on = b)
  <2>1. PICK i \in 1 .. Len(w) : /\ ~IsList(w[i]) /\ w[i].on = b
                                 /\ \A j \in 1 .. Len(w) : i < j => IsList(w[j])
    BY <1>4 DEF LastWord
  <2>2. CASE i = 1
    <3>1. \A j \in 1 .. Len(x) : 1 < j + 1
      BY <1>1, <1>2
    <3> QED
      BY <1>1, <1>2, <2>1, <2>2, <3>1 DEF OnlyLists
  <2>3. CASE i # 1
    <3>1. i - 1 \in 1 .. Len(x) /\ (i - 1) + 1 = i
      BY <1>1, <1>2, <2>3
    <3>2. ~IsList(x[i - 1]) /\ x[i - 1].on = b
      BY <1>2, <2>1, <3>1
    <3>3. \A j \in 1 .. Len(x) : i - 1 < j => IsList(x[j])
      BY <1>2, <2>1, <3>1
    <3> QED
      BY <3>1, <3>2, <3>3 DEF LastWord
  <2> QED
    BY <2>2, <2>3
<1> QED
  BY <1>3, <1>4

\* The other servers are told, or not, as before.
LEMMA OneServerTold ==
  ASSUME QInv, NEW s \in Server, IF line'[s] = "up" THEN Told(s)' ELSE wire'[s] = <<>>,
         \A t \in Server \ {s} : /\ queued'[t] = queued[t] /\ mirror'[t] = mirror[t]
                                 /\ wire'[t] = wire[t] /\ line'[t] = line[t] /\ asks'[t] = asks[t]
  PROVE  QInv'
  BY DEF QInv, Told

\* SquadJS emits a list, or the state of its queue.
LEMMA TellStep ==
  ASSUME LinkTypeOK, LinkTypeOK', QInv, NEW s \in Server, line[s] = "up", NEW m \in Message,
         Emit(s, m), UNCHANGED <<line, mirror>>,
         \/ IsList(m) /\ queued' = queued /\ asks'[s].status = asks[s].status
         \/ ~IsList(m) /\ m.on = queued'[s],
         \A t \in Server \ {s} : queued'[t] = queued[t] /\ asks'[t] = asks[t]
  PROVE  QInv'
<1>1. wire[s] \in Seq(Message) /\ wire'[s] = Append(wire[s], m)
      /\ \A t \in Server \ {s} : wire'[t] = wire[t]
  BY DEF LinkTypeOK, Emit
<1>2. queued[s] \in BOOLEAN /\ queued'[s] \in BOOLEAN /\ Told(s)
  BY DEF LinkTypeOK, QInv
<1>3. Told(s)'
  <2>1. CASE IsList(m) /\ queued' = queued /\ asks'[s].status = asks[s].status
    BY <1>1, <1>2, <2>1, AppendList DEF Told
  <2>2. CASE ~IsList(m) /\ m.on = queued'[s]
    BY <1>1, <2>2, AppendWord DEF Told
  <2> QED
    BY <2>1, <2>2
<1> QED
  BY <1>1, <1>3, OneServerTold

LEMMA RosterTold ==
  ASSUME LinkTypeOK, LinkTypeOK', QInv, NEW s \in Server, RosterChange(s)
  PROVE  QInv'
<1> DEFINE m == Players(roster[s] + 1)
<1>1. m \in Message /\ IsList(m)
  BY DEF LinkTypeOK, Message, Players, IsList
<1>2. UNCHANGED <<queued, line, asks, mirror>>
  BY DEF RosterChange
<1>3. CASE UNCHANGED wire
  BY <1>2, <1>3 DEF QInv, Told
<1>4. CASE line[s] = "up" /\ Emit(s, m)
  BY <1>1, <1>2, <1>4, TellStep
<1> QED
  BY <1>3, <1>4 DEF RosterChange

\* SquadJS's queue changes: it says so, unless nobody listens.
LEMMA QueueTold ==
  ASSUME LinkTypeOK, LinkTypeOK', QInv, NEW s \in Server, QueueChange(s)
  PROVE  QInv'
<1> DEFINE m == Queue(~queued[s])
<1>1. m \in Message /\ ~IsList(m) /\ queued'[s] = m.on
  BY DEF QueueChange, LinkTypeOK, Message, Queue, IsList
<1>2. UNCHANGED <<line, asks, mirror>> /\ \A t \in Server \ {s} : queued'[t] = queued[t]
  BY DEF QueueChange, LinkTypeOK
<1>3. CASE line[s] = "up"
  BY <1>1, <1>2, <1>3, TellStep DEF QueueChange
<1>4. CASE line[s] # "up"
  <2>1. UNCHANGED wire /\ wire[s] = <<>>
    BY <1>4 DEF QueueChange, QInv
  <2> QED
    BY <1>2, <1>4, <2>1, OneServerTold
<1> QED
  BY <1>3, <1>4

LEMMA AnswersTold ==
  ASSUME LinkTypeOK, LinkTypeOK', QInv, NEW s \in Server, AnswerPlayers(s) \/ AnswerStatus(s)
  PROVE  QInv'
<1>1. /\ line[s] = "up" /\ UNCHANGED <<line, mirror, queued>>
      /\ \A t \in Server \ {s} : queued'[t] = queued[t] /\ asks'[t] = asks[t]
  BY DEF AnswerPlayers, AnswerStatus, LinkTypeOK
<1>2. CASE AnswerPlayers(s)
  <2>1. Players(roster[s]) \in Message /\ IsList(Players(roster[s]))
    BY DEF LinkTypeOK, Message, Players, IsList
  <2>2. asks'[s].status = asks[s].status
    BY <1>2 DEF AnswerPlayers, LinkTypeOK
  <2>3. Emit(s, Players(roster[s]))
    BY <1>2 DEF AnswerPlayers
  <2> QED
    BY <1>1, <2>1, <2>2, <2>3, TellStep
<1>3. CASE AnswerStatus(s)
  <2> DEFINE m == Answered(queued[s])
  <2>1. m \in Message /\ ~IsList(m) /\ m.on = queued'[s]
    BY <1>1 DEF LinkTypeOK, Message, Answered, IsList
  <2>2. Emit(s, m)
    BY <1>3 DEF AnswerStatus
  <2> HIDE DEF m
  <2> QED
    BY <1>1, <2>1, <2>2, TellStep
<1> QED
  BY <1>2, <1>3

\* A new connection asks for the status before it hears anything.
LEMMA ConnectTold ==
  ASSUME LinkTypeOK, LinkTypeOK', QInv, NEW s \in Server, Connect(s)
  PROVE  QInv'
<1>1. wire'[s] = <<>> /\ asks'[s].status
  BY DEF Connect, QInv, LinkTypeOK
<1>2. Told(s)' /\ line'[s] = "up"
  BY <1>1 DEF Told, OnlyLists, Connect, LinkTypeOK
<1>3. \A t \in Server \ {s} : /\ queued'[t] = queued[t] /\ mirror'[t] = mirror[t]
                             /\ wire'[t] = wire[t] /\ line'[t] = line[t] /\ asks'[t] = asks[t]
  BY DEF Connect, LinkTypeOK
<1> QED
  BY <1>2, <1>3, OneServerTold

\* The connection ends, noticed or not, and what was on its way is lost.
LEMMA LossTold ==
  ASSUME LinkTypeOK, LinkTypeOK', QInv, NEW s \in Server, Hang(s) \/ Die(s)
  PROVE  QInv'
<1>1. wire'[s] = <<>> /\ line'[s] # "up"
  BY DEF Hang, Die, LinkTypeOK
<1>2. \A t \in Server \ {s} : /\ queued'[t] = queued[t] /\ mirror'[t] = mirror[t]
                             /\ wire'[t] = wire[t] /\ line'[t] = line[t] /\ asks'[t] = asks[t]
  BY DEF Hang, Die, LinkTypeOK
<1> QED
  BY <1>1, <1>2, OneServerTold

LEMMA DeliverTold ==
  ASSUME LinkTypeOK, LinkTypeOK', QInv, NEW s \in Server, Deliver(s)
  PROVE  QInv'
<1> DEFINE w == wire[s]
           m == Head(w)
<1>1. /\ line[s] = "up" /\ w # <<>> /\ w \in Seq(Message) /\ queued[s] \in BOOLEAN
      /\ mirror[s] \in Live!Mirror /\ Told(s)
  BY DEF Deliver, LinkTypeOK, QInv
<1>2. m \in Message
  BY <1>1
<1>3. /\ wire'[s] = Tail(w) /\ mirror'[s] = Heard(s, m)
      /\ UNCHANGED <<queued, line, asks>>
  BY DEF Deliver, LinkTypeOK
<1>4. IsList(m) => mirror'[s].queue = mirror[s].queue
  BY <1>1, <1>3 DEF Heard, IsList, Live!Mirror
<1>5. ~IsList(m) => Shows(mirror'[s], m.on)
  BY <1>1, <1>2, <1>3 DEF Heard, IsList, Message, Shows, Live!Mirror
<1>6. Told(s)'
  <2>1. CASE LastWord(w, queued[s])
    BY <1>1, <1>3, <1>5, <2>1, TailWord DEF Told
  <2>2. CASE OnlyLists(w) /\ (asks[s].status \/ Shows(mirror[s], queued[s]))
    BY <1>1, <1>3, <1>4, <2>2, TailWord DEF Told, Shows
  <2> QED
    BY <1>1, <2>1, <2>2 DEF Told
<1>7. \A t \in Server \ {s} : mirror'[t] = mirror[t] /\ wire'[t] = wire[t]
  BY DEF Deliver, LinkTypeOK
<1> QED
  BY <1>1, <1>3, <1>6, <1>7, OneServerTold

LEMMA QuietTold ==
  ASSUME LinkTypeOK, LinkTypeOK', QInv, NEW s \in Server, FallQuiet(s) \/ Poll(s)
  PROVE  QInv'
<1>1. UNCHANGED <<queued, line, mirror, wire>>
  BY DEF FallQuiet, Poll
<1>2. \A t \in Server : asks'[t].status = asks[t].status
  <2>1. CASE FallQuiet(s)
    BY <2>1 DEF FallQuiet
  <2>2. CASE Poll(s)
    <3>1. asks \in [Server -> [players : {0, 1}, status : BOOLEAN]]
      BY DEF LinkTypeOK
    <3>2. asks' = [asks EXCEPT ![s].players = 1]
      BY <2>2 DEF Poll
    <3> QED
      BY <3>1, <3>2
  <2> QED
    BY <2>1, <2>2
<1> QED
  BY <1>1, <1>2 DEF QInv, Told

LEMMA QInvStep == LinkTypeOK /\ LinkTypeOK' /\ QInv /\ [LinkNext]_lvars => QInv'
<1> SUFFICES ASSUME LinkTypeOK, LinkTypeOK', QInv, [LinkNext]_lvars  PROVE QInv'
  OBVIOUS
<1>1. CASE UNCHANGED lvars
  BY <1>1 DEF lvars, QInv, Told
<1>2. ASSUME NEW s \in Server, RosterChange(s)  PROVE QInv'
  BY <1>2, RosterTold
<1>3. ASSUME NEW s \in Server, QueueChange(s)  PROVE QInv'
  BY <1>3, QueueTold
<1>4. ASSUME NEW s \in Server, AnswerPlayers(s) \/ AnswerStatus(s)  PROVE QInv'
  BY <1>4, AnswersTold
<1>5. ASSUME NEW s \in Server, Connect(s)  PROVE QInv'
  BY <1>5, ConnectTold
<1>6. ASSUME NEW s \in Server, Disconnect(s) \/ Watchdog(s) \/ Die(s)  PROVE QInv'
  BY <1>6, LossTold DEF Disconnect, Watchdog
<1>7. ASSUME NEW s \in Server, FallQuiet(s) \/ Poll(s)  PROVE QInv'
  BY <1>7, QuietTold
<1>8. ASSUME NEW s \in Server, Deliver(s)  PROVE QInv'
  BY <1>8, DeliverTold
<1> QED
  BY <1>1, <1>2, <1>3, <1>4, <1>5, <1>6, <1>7, <1>8 DEF LinkNext

-----------------------------------------------------------------------------
(* The match history: columns and winners.                                 *)

Round == [pair : History!Pairs, kind : Kinds, won : 0 .. 2,
          column : History!Columns \cup {History!NoColumn}, ended : BOOLEAN]

\* Round m of q has ended, and so it has in r, with nothing changed.
Kept(q, r) == \A m \in 1 .. Len(q) : q[m].ended => m \in 1 .. Len(r) /\ r[m] = q[m]

\* What the type invariant says of the rounds.
LEMMA RoundsTyped ==
  History!TypeOK => /\ played \in Seq(Round) /\ Len(played) \in 0 .. Last
                    /\ DOMAIN played = 1 .. Len(played) /\ DOMAIN played \subseteq History!Match
<1> SUFFICES ASSUME History!TypeOK
    PROVE /\ played \in Seq(Round) /\ Len(played) \in 0 .. Last
          /\ DOMAIN played = 1 .. Len(played) /\ DOMAIN played \subseteq History!Match
  OBVIOUS
<1>1. played \in Seq(Round)
  BY DEF History!TypeOK, Round
<1>2. Len(played) \in Nat /\ DOMAIN played = 1 .. Len(played)
  BY <1>1
<1>3. Len(played) <= Last
  BY DEF History!TypeOK
<1> QED
  BY <1>1, <1>2, <1>3, HistoryAssumption DEF History!Match

\* The factions of a round are two.
LEMMA TwoFactions ==
  ASSUME NEW r \in Round
  PROVE /\ r.pair[1] \in Nat /\ r.pair[2] \in Nat /\ r.pair[1] # r.pair[2]
        /\ r.won \in 0 .. 2 /\ r.column \in History!Columns \cup {History!NoColumn}
<1>1. /\ r.pair \in Faction \X Faction /\ r.pair[1] < r.pair[2] /\ r.won \in 0 .. 2
      /\ r.column \in History!Columns \cup {History!NoColumn}
  BY DEF Round, History!Pairs
<1>2. r.pair[1] \in Nat /\ r.pair[2] \in Nat
  BY <1>1, HistoryAssumption
<1> QED
  BY <1>1, <1>2

\* A column says which it is: a team, a name or nothing.
LEMMA ColumnKinds ==
  ASSUME NEW c \in History!Columns \cup {History!NoColumn}
  PROVE \/ c.kind = "json" /\ c.of \in 0 .. 2
        \/ c.kind = "name" /\ c.of \in Faction
        \/ c.kind = "none" /\ c = History!NoColumn
  BY DEF History!Columns, History!NoColumn

\* What resolveWinner makes of a column.
LEMMA Resolved ==
  ASSUME NEW c, NEW pair
  PROVE /\ c.kind = "json" => History!ResolveWinner(c, pair) = c.of
        /\ c.kind = "none" => History!ResolveWinner(c, pair) = 0
        /\ c.kind = "name" =>
             \/ /\ c.of \notin {pair[1], pair[2]} /\ History!ResolveWinner(c, pair) = 0
             \/ \E t \in {1, 2} : c.of = pair[t] /\ History!ResolveWinner(c, pair) = t
<1>1. CASE c.kind # "name"
  BY <1>1 DEF History!ResolveWinner
<1>2. CASE c.kind = "name" /\ c.of \notin {pair[1], pair[2]}
  <2>1. ~\E t \in {1, 2} : c.of = pair[t]
    BY <1>2
  <2> QED
    BY <1>2, <2>1 DEF History!ResolveWinner
<1>3. CASE c.kind = "name" /\ c.of \in {pair[1], pair[2]}
  <2> DEFINE w == CHOOSE t \in {1, 2} : c.of = pair[t]
  <2>1. \E t \in {1, 2} : c.of = pair[t]
    BY <1>3
  <2>2. w \in {1, 2} /\ c.of = pair[w]
    BY <2>1
  <2>3. History!ResolveWinner(c, pair) = w
    BY <1>3, <2>1 DEF History!ResolveWinner
  <2> HIDE DEF w
  <2> QED
    BY <1>3, <2>2, <2>3
<1> QED
  BY <1>1, <1>2, <1>3

\* What the assembler makes of an ended round is its result, nothing, or the old writer's error.
LEMMA WinnerFits ==
  ASSUME History!TypeOK, Columned(played), NEW m \in History!Match, History!Ended(m)
  PROVE /\ Fits(played[m], History!Winner(m)) /\ History!Winner(m) \in 0 .. 2
<1> DEFINE r == played[m]
           own == History!ResolveWinner(r.column, r.pair)
           next == History!ResolveWinner(played[m + 1].column, r.pair)
<1>1. m \in 1 .. Len(played) /\ r \in Round /\ r.ended /\ m \in Nat
  BY RoundsTyped DEF History!Ended
<1>2. /\ r.pair[1] # r.pair[2] /\ r.won \in 0 .. 2
      /\ r.column \in History!Columns \cup {History!NoColumn}
  BY <1>1, TwoFactions
<1>3. /\ r.column.kind = "json" => r.column.of = r.won
  BY <1>1 DEF Columned
<1>4. \/ History!Winner(m) = own
      \/ History!Winner(m) = 0
      \/ /\ r.column # History!NoColumn /\ own = 0 /\ History!Winner(m) = next
         /\ History!Ended(m + 1) /\ played[m + 1].column.kind = "name"
  BY DEF History!Winner
<1>5. /\ Fits(r, own) /\ own \in 0 .. 2
  <2>1. CASE r.column.kind = "json"
    BY <2>1, <1>2, <1>3, Resolved DEF Fits
  <2>2. CASE r.column.kind = "name"
    <3>1. \/ own = 0 
          \/ \E t \in {1, 2} : r.column.of = r.pair[t] /\ own = t
      BY <2>2, Resolved
    <3> QED
      BY <2>2, <3>1 DEF Fits
  <2>3. CASE r.column.kind = "none"
    BY <2>3, Resolved DEF Fits
  <2> QED
    BY <2>1, <2>2, <2>3, <1>2, ColumnKinds
<1>6. Fits(r, 0)
  BY DEF Fits
<1>7. ASSUME History!Ended(m + 1), played[m + 1].column.kind = "name"
      PROVE Fits(r, next) /\ next \in 0 .. 2
  <2>1. m + 1 \in 1 .. Len(played)
    BY <1>7, RoundsTyped DEF History!Ended
  <2>2. Names(played[m + 1].column, played[(m + 1) - 1])
    BY <1>7, <2>1 DEF Columned
  <2>3. (m + 1) - 1 = m
    BY <1>1
  <2>4. r.won \in {1, 2} /\ played[m + 1].column.of = r.pair[r.won]
    BY <2>2, <2>3 DEF Names
  <2>5. \E t \in {1, 2} : played[m + 1].column.of = r.pair[t] /\ next = t
    <3>1. played[m + 1].column.of \in {r.pair[1], r.pair[2]}
      BY <2>4
    <3> QED
      BY <3>1, <1>7, Resolved
  <2>6. next = r.won
    BY <2>4, <2>5, <1>2
  <2> QED
    BY <2>6, <1>2 DEF Fits
<1> QED
  BY <1>4, <1>5, <1>6, <1>7

-----------------------------------------------------------------------------
(* The match history: its steps.                                           *)

\* What holds of ended rounds goes on holding while they are kept.
LEMMA KeptRows ==
  ASSUME NEW q, NEW r, Kept(q, r), NEW m, NEW row, GoodRow(q, m, row)
  PROVE  GoodRow(r, m, row)
<1>1. m \in 1 .. Len(r) /\ r[m] = q[m]
  BY DEF Kept, GoodRow
<1> QED
  BY <1>1 DEF GoodRow

LEMMA KeptCalls ==
  ASSUME NEW q, NEW r, Kept(q, r), NEW call, GoodCall(q, call)
  PROVE  GoodCall(r, call)
<1>1. \A m \in call.todo : m \in 1 .. Len(r) /\ r[m].ended
  BY DEF Kept, GoodCall
<1> QED
  BY <1>1, KeptRows DEF GoodCall

\* A step of SquadJS: the site's state stays, ended rounds are kept.
LEMMA SquadJSStep ==
  ASSUME HInv, UNCHANGED <<stored, pass, resync, staff>>, Kept(played, played'),
         played' \in Seq(Round), Len(played') <= Last, writer' \in {"old", "new"},
         carried' \in History!Columns \cup {History!NoColumn},
         Columned(played'), Carries(played', carried')
  PROVE  HInv'
<1>1. \A m \in History!Match : History!Stored(m)' => GoodRow(played', m, stored'[m])
  BY KeptRows DEF HInv, History!Stored
<1>2. \A p \in Pass : GoodCall(played', pass'[p])
  BY KeptCalls DEF HInv
<1>3. GoodCall(played', resync')
  BY KeptCalls DEF HInv
<1>4. \A m \in History!Match : History!Stored(m)' => History!Ended(m)' /\ played'[m].kind = "played"
  <2>1. DOMAIN played' = 1 .. Len(played')
    OBVIOUS
  <2> QED
    BY <1>1, <2>1 DEF GoodRow, History!Ended
<1>5. History!TypeOK'
  BY <1>4 DEF HInv, History!TypeOK, Round
<1> QED
  BY <1>1, <1>2, <1>3, <1>5 DEF HInv

LEMMA BeginStep ==
  ASSUME HInv, NEW pair \in History!Pairs, NEW kind \in Kinds, History!Begin(pair, kind)
  PROVE  HInv'
<1> DEFINE n == Len(played)
           new == [pair |-> pair, kind |-> kind, won |-> 0, column |-> carried, ended |-> FALSE]
<1>1. /\ played \in Seq(Round) /\ n \in Nat /\ DOMAIN played = 1 .. n
  BY RoundsTyped DEF HInv
<1>2. new \in Round
  BY DEF HInv, Round
<1>3. /\ n < Last /\ \A m \in 1 .. n : played[m].ended
      /\ played' = Append(played, new) /\ carried' = History!NoColumn
      /\ UNCHANGED <<writer, stored, pass, resync, staff>>
  BY <1>1 DEF History!Begin
<1>4. /\ played' \in Seq(Round) /\ Len(played') = n + 1 /\ played'[n + 1] = new
      /\ \A m \in 1 .. n : played'[m] = played[m]
  BY <1>1, <1>2, <1>3
<1> HIDE DEF new
<1>5. Kept(played, played')
  BY <1>1, <1>4 DEF Kept
<1>6. Columned(played')
  <2>1. ASSUME NEW m \in 1 .. n
        PROVE /\ played'[m].ended
              /\ played'[m].column.kind = "json" => played'[m].column.of = played'[m].won
              /\ played'[m].column.kind = "name" => m > 1 /\ Names(played'[m].column, played'[m - 1])
    <3>1. m > 1 => played'[m - 1] = played[m - 1]
      BY <1>1, <1>4
    <3> QED
      BY <1>3, <1>4, <3>1 DEF HInv, Columned
  <2>2. new.column = carried /\ new.ended = FALSE
    BY DEF new
  <2>3. carried.kind = "name" => n > 0 /\ Names(carried, played[n])
    BY DEF HInv, Carries, History!NoColumn
  <2>4. carried.kind # "json"
    BY DEF HInv, Carries, Names, History!NoColumn
  <2>5. n > 0 => played'[(n + 1) - 1] = played[n]
    BY <1>1, <1>4
  <2>6. ASSUME NEW m \in 1 .. Len(played'), m \notin 1 .. n  PROVE m = n + 1
    BY <2>6, <1>1, <1>4
  <2>7. /\ ~played'[n + 1].ended => n + 1 = Len(played')
        /\ played'[n + 1].column.kind # "json"
        /\ played'[n + 1].column.kind = "name" => n + 1 > 1 /\ Names(played'[n + 1].column, played'[(n + 1) - 1])
    BY <1>1, <1>4, <2>2, <2>3, <2>4, <2>5
  <2> QED
    BY <2>1, <2>6, <2>7 DEF Columned
<1>7. Carries(played', carried')
  BY <1>3 DEF Carries
<1>8. Len(played') <= Last
  BY <1>1, <1>3, <1>4, HistoryAssumption
<1> QED
  BY <1>3, <1>4, <1>5, <1>6, <1>7, <1>8, SquadJSStep DEF HInv, History!TypeOK

LEMMA EndStep ==
  ASSUME HInv, NEW m \in History!Match, NEW won \in 0 .. 2, History!End(m, won)
  PROVE  HInv'
<1> DEFINE n == Len(played)
           name == IF won = 0 THEN History!NoColumn ELSE [kind |-> "name", of |-> played[m].pair[won]]
           ended == [played[m] EXCEPT !.ended = TRUE, !.won = won]
           told == [ended EXCEPT !.column = [kind |-> "json", of |-> won]]
           r == played'[m]
<1>1. /\ played \in Seq(Round) /\ n \in Nat /\ DOMAIN played = 1 .. n
  BY RoundsTyped DEF HInv
<1>2. /\ m \in 1 .. n /\ ~played[m].ended /\ UNCHANGED <<writer, stored, pass, resync, staff>>
  BY <1>1 DEF History!End
<1>3. m = n /\ played[m].column.kind # "json"
  BY <1>2 DEF HInv, Columned
<1>4. played[m] \in Round
  BY <1>1, <1>2
<1>5. /\ ended \in Round /\ ended.ended /\ ended.won = won
      /\ ended.pair = played[m].pair /\ ended.column = played[m].column
  BY <1>4 DEF Round
<1>6. [kind |-> "json", of |-> won] \in History!Columns
  BY DEF History!Columns
<1>7. /\ told \in Round /\ told.ended /\ told.won = won
      /\ told.pair = played[m].pair /\ told.column = [kind |-> "json", of |-> won]
  BY <1>4, <1>5, <1>6 DEF Round
<1>8. carried = History!NoColumn
  BY <1>2, <1>3 DEF HInv, Carries
<1>9. \/ writer = "old" /\ carried' = name /\ played' = [played EXCEPT ![m] = ended]
      \/ writer # "old" /\ carried' = carried /\ played' = [played EXCEPT ![m] = told]
  BY DEF History!End
<1> HIDE DEF ended, told
<1>10. /\ played' \in Seq(Round) /\ Len(played') = n
       /\ \A k \in 1 .. n : k # m => played'[k] = played[k]
       /\ r \in Round /\ r.ended /\ r.won = won /\ r.pair = played[m].pair
       /\ r.column = played[m].column \/ r.column = [kind |-> "json", of |-> won]
  BY <1>1, <1>2, <1>5, <1>7, <1>9
<1>11. Kept(played, played')
  BY <1>2, <1>10 DEF Kept
<1>12. Columned(played')
  <2>1. ASSUME NEW k \in 1 .. n, k # m
        PROVE /\ played'[k].ended
              /\ played'[k].column.kind = "json" => played'[k].column.of = played'[k].won
              /\ played'[k].column.kind = "name" => k > 1 /\ Names(played'[k].column, played'[k - 1])
    <3>1. k > 1 => k - 1 \in 1 .. n /\ k - 1 # m
      BY <1>1, <1>3, <2>1
    <3> QED
      BY <1>3, <1>10, <2>1, <3>1 DEF HInv, Columned
  <2>2. r.column.kind = "json" => r.column.of = r.won
    BY <1>3, <1>10
  <2>3. r.column.kind = "name" => m > 1 /\ Names(r.column, played'[m - 1])
    <3>1. ASSUME r.column.kind = "name"  PROVE m > 1 /\ Names(played[m].column, played[m - 1])
      BY <1>2, <1>10, <3>1 DEF HInv, Columned
    <3>2. m > 1 => m - 1 \in 1 .. n /\ m - 1 # m
      <4>1. m \in Nat /\ n \in Nat /\ m <= n
        BY <1>1, <1>2
      <4> HIDE DEF n
      <4> QED
        BY <4>1
    <3>3. r.column.kind = "name" => r.column = played[m].column
      BY <1>10
    <3> QED
      BY <1>10, <3>1, <3>2, <3>3
  <2> QED
    BY <1>10, <2>1, <2>2, <2>3 DEF Columned
<1>13. carried' \in History!Columns \cup {History!NoColumn} /\ Carries(played', carried')
  <2>1. CASE carried' = carried
    BY <1>8, <2>1 DEF Carries
  <2>2. CASE carried' = name /\ won = 0
    BY <2>2 DEF Carries
  <2>3. CASE carried' = name /\ won # 0
    <3>1. won \in {1, 2} /\ carried'.kind = "name" /\ carried'.of = played[m].pair[won]
      BY <2>3
    <3>2. played[m].pair[won] \in Faction
      BY <1>4, <3>1 DEF Round, History!Pairs
    <3>3. carried' \in History!Columns
      BY <2>3, <3>2 DEF History!Columns
    <3>4. Names(carried', r)
      BY <1>10, <3>1 DEF Names
    <3> QED
      BY <1>2, <1>3, <1>10, <3>3, <3>4 DEF Carries
  <2> QED
    BY <1>9, <2>1, <2>2, <2>3
<1>14. Len(played') <= Last
  BY <1>10 DEF HInv, History!TypeOK
<1> QED
  BY <1>2, <1>10, <1>11, <1>12, <1>13, <1>14, SquadJSStep DEF HInv, History!TypeOK

LEMMA UpgradeStep == HInv /\ History!Upgrade => HInv'
<1> SUFFICES ASSUME HInv, History!Upgrade  PROVE HInv'
  OBVIOUS
<1>1. /\ writer' = "new" /\ UNCHANGED <<played, carried, stored, pass, resync, staff>>
  BY DEF History!Upgrade
<1>2. Kept(played, played')
  BY <1>1 DEF Kept
<1>3. played \in Seq(Round) /\ Len(played) <= Last
  BY RoundsTyped DEF HInv, History!TypeOK
<1> QED
  BY <1>1, <1>2, <1>3, SquadJSStep DEF HInv

\* A call is idle, or has dealt with a match, and is no worse for it.
LEMMA RestStep ==
  ASSUME NEW call \in CallType, NEW m, GoodCall(played, call)
  PROVE  /\ History!Rest(call, m) \in CallType /\ GoodCall(played, History!Rest(call, m))
         /\ History!Idle \in CallType /\ GoodCall(played, History!Idle)
<1> DEFINE rest == [call EXCEPT !.at = "loop", !.todo = @ \ {m}, !.now = 0, !.found = History!NotStored]
<1>1. History!NotStored \in Rows
  BY DEF History!NotStored, Rows
<1>2. History!Idle \in CallType /\ GoodCall(played, History!Idle)
  BY <1>1, HistoryAssumption DEF History!Idle, CallType, GoodCall
<1>3. rest \in CallType /\ rest.at = "loop" /\ rest.todo \subseteq call.todo
  <2>1. call.todo \ {m} \subseteq History!Match /\ 0 \in 0 .. Last
    BY HistoryAssumption DEF CallType
  <2> QED
    BY <1>1, <2>1 DEF CallType
<1>4. History!Rest(call, m) \in {History!Idle, rest}
  BY DEF History!Rest
<1> HIDE DEF rest
<1>5. GoodCall(played, rest)
  BY <1>3 DEF GoodCall
<1> QED
  BY <1>2, <1>3, <1>4, <1>5

\* A step of the site: the rounds stay.
LEMMA SiteStep ==
  ASSUME HInv, UNCHANGED <<played, writer, carried>>, staff' \in 0 .. MaxStaff,
         stored' \in [History!Match -> Rows],
         \A m \in History!Match : History!Stored(m)' => GoodRow(played, m, stored'[m]),
         pass' \in [Pass -> CallType], resync' \in CallType,
         \A p \in Pass : GoodCall(played, pass'[p]), GoodCall(played, resync')
  PROVE  HInv'
<1>1. \A m \in History!Match : History!Stored(m)' => History!Ended(m)' /\ played'[m].kind = "played"
  <2>1. DOMAIN played = 1 .. Len(played)
    BY RoundsTyped DEF HInv
  <2> QED
    BY <2>1 DEF GoodRow, History!Ended
<1>2. History!TypeOK'
  BY <1>1 DEF HInv, History!TypeOK, Rows
<1> QED
  BY <1>2 DEF HInv

\* One pass moves on: the rows stay.
LEMMA PassStep ==
  ASSUME HInv, NEW p \in Pass, NEW call \in CallType, GoodCall(played, call),
         pass' = [pass EXCEPT ![p] = call], UNCHANGED <<played, writer, carried, stored, resync, staff>>
  PROVE  HInv'
<1>1. pass' \in [Pass -> CallType] /\ \A k \in Pass : GoodCall(played, pass'[k])
  BY DEF HInv
<1>2. staff \in 0 .. MaxStaff /\ stored \in [History!Match -> Rows]
  BY DEF HInv, History!TypeOK, Rows
<1>3. \A m \in History!Match : History!Stored(m)' => GoodRow(played, m, stored'[m])
  BY DEF HInv, History!Stored
<1> QED
  BY <1>1, <1>2, <1>3, SiteStep DEF HInv

\* So does the resync.
LEMMA ResyncStep ==
  ASSUME HInv, resync' \in CallType, GoodCall(played, resync'), staff' \in 0 .. MaxStaff,
         UNCHANGED <<played, writer, carried, stored, pass>>
  PROVE  HInv'
<1>1. stored \in [History!Match -> Rows]
  BY DEF HInv, History!TypeOK, Rows
<1>2. \A m \in History!Match : History!Stored(m)' => GoodRow(played, m, stored'[m])
  BY DEF HInv, History!Stored
<1> QED
  BY <1>1, <1>2, SiteStep DEF HInv

\* What is assembled of an ended round that was played may be stored.
LEMMA AssembledStep ==
  ASSUME HInv, NEW call \in CallType, GoodCall(played, call), NEW m \in call.todo,
         played[m].kind = "played", NEW at \in {"create", "update"}
  PROVE  LET new == [call EXCEPT !.at = at, !.now = m, !.found = History!Assembled(m)]
         IN new \in CallType /\ GoodCall(played, new)
<1> DEFINE row == History!Assembled(m)
           new == [call EXCEPT !.at = at, !.now = m, !.found = row]
<1>1. /\ m \in 1 .. Len(played) /\ played[m].ended /\ m \in History!Match
  BY DEF GoodCall, CallType
<1>2. History!Ended(m)
  BY <1>1, RoundsTyped DEF HInv, History!Ended
<1>3. Fits(played[m], History!Winner(m)) /\ History!Winner(m) \in 0 .. 2
  BY <1>1, <1>2, WinnerFits DEF HInv
<1>4. row \in Rows /\ row.by = "api" /\ row.result = History!Winner(m)
  BY <1>3 DEF History!Assembled, Rows
<1>5. GoodRow(played, m, row)
  BY <1>1, <1>3, <1>4 DEF GoodRow
<1> HIDE DEF row
<1>6. m \in 0 .. Last
  BY <1>1, HistoryAssumption DEF History!Match
<1>7. new \in CallType /\ new.at = at /\ new.todo = call.todo /\ new.now = m /\ new.found = row
  BY <1>4, <1>6 DEF CallType
<1> HIDE DEF new
<1>8. GoodCall(played, new)
  BY <1>4, <1>5, <1>7 DEF GoodCall
<1> QED
  BY <1>7, <1>8 DEF new, row

LEMMA ListStep ==
  ASSUME HInv, NEW p \in Pass, History!List(p)
  PROVE  HInv'
<1> DEFINE call == [History!Idle EXCEPT !.at = "loop", !.todo = {m \in History!Match : History!Listed(m)},
                                        !.skip = {m \in History!Match : History!Stored(m)}]
<1>1. /\ pass' = [pass EXCEPT ![p] = call]
      /\ UNCHANGED <<played, writer, carried, stored, resync, staff>>
  BY DEF History!List, History!squadjs
<1>2. History!NotStored \in Rows /\ 0 \in 0 .. Last
  BY HistoryAssumption DEF History!NotStored, Rows
<1>3. call \in CallType /\ call.at = "loop" /\ call.todo = {m \in History!Match : History!Listed(m)}
  BY <1>2 DEF History!Idle, CallType
<1> HIDE DEF call
<1>4. GoodCall(played, call)
  BY <1>3, RoundsTyped DEF HInv, GoodCall, History!Listed, History!Ended
<1> QED
  BY <1>1, <1>3, <1>4, PassStep

LEMMA AssembleStep ==
  ASSUME HInv, NEW p \in Pass, History!Assemble(p)
  PROVE  HInv'
<1>1. PICK m \in pass[p].todo :
        pass' = [pass EXCEPT ![p] =
          IF m \in pass[p].skip THEN History!Rest(pass[p], m)
          ELSE IF played[m].kind = "broken" THEN History!AfterError(pass[p], m)
          ELSE [pass[p] EXCEPT !.at = "create", !.now = m, !.found = History!Assembled(m)]]
  BY DEF History!Assemble
<1>2. UNCHANGED <<played, writer, carried, stored, resync, staff>>
  BY DEF History!Assemble, History!squadjs
<1>3. pass[p] \in CallType /\ GoodCall(played, pass[p])
  BY DEF HInv
<1>4. CASE pass' = [pass EXCEPT ![p] = History!Rest(pass[p], m)]
  BY <1>2, <1>3, <1>4, RestStep, PassStep
<1>5. CASE /\ played[m].kind # "broken"
           /\ pass' = [pass EXCEPT ![p] = [pass[p] EXCEPT !.at = "create", !.now = m, !.found = History!Assembled(m)]]
  <2>1. m \in 1 .. Len(played)
    BY <1>3 DEF GoodCall
  <2>2. played[m] \in Round
    BY <2>1, RoundsTyped DEF HInv
  <2>3. played[m].kind = "played"
    BY <1>5, <2>2, HistoryAssumption DEF Round
  <2> QED
    BY <1>2, <1>3, <1>5, <2>3, AssembledStep, PassStep
<1> QED
  BY <1>1, <1>4, <1>5 DEF History!AfterError

LEMMA CreateStep ==
  ASSUME HInv, NEW p \in Pass, History!Create(p)
  PROVE  HInv'
<1> DEFINE m == pass[p].now
<1>1. /\ pass[p].at = "create"
      /\ stored' = [stored EXCEPT ![m] = History!Inserted(m, pass[p].found)]
      /\ pass' = [pass EXCEPT ![p] = History!Rest(pass[p], m)]
      /\ UNCHANGED <<played, writer, carried, resync, staff>>
  BY DEF History!Create, History!AfterError, History!squadjs
<1>2. pass[p] \in CallType /\ GoodCall(played, pass[p])
  BY DEF HInv
<1>3. GoodRow(played, m, pass[p].found) /\ pass[p].found \in Rows
  BY <1>1, <1>2 DEF GoodCall, CallType
<1>4. stored \in [History!Match -> Rows] /\ staff \in 0 .. MaxStaff
  BY DEF HInv, History!TypeOK, Rows
<1>5. pass' \in [Pass -> CallType] /\ \A k \in Pass : GoodCall(played, pass'[k])
  BY <1>1, <1>2, RestStep DEF HInv
<1>6. m \in History!Match
  BY <1>3, RoundsTyped DEF GoodRow, HInv
<1>7. stored' \in [History!Match -> Rows]
  BY <1>1, <1>3, <1>4, <1>6 DEF History!Inserted
<1>8. \A k \in History!Match : History!Stored(k)' => GoodRow(played, k, stored'[k])
  <2> SUFFICES ASSUME NEW k \in History!Match, History!Stored(k)'  PROVE GoodRow(played, k, stored'[k])
    OBVIOUS
  <2>1. CASE stored'[k] = stored[k]
    BY <2>1 DEF HInv, History!Stored
  <2>2. CASE k = m /\ stored'[k] = pass[p].found
    BY <1>3, <2>2
  <2> QED
    BY <1>1, <1>4, <1>6, <2>1, <2>2 DEF History!Inserted
<1> QED
  BY <1>1, <1>4, <1>5, <1>7, <1>8, SiteStep DEF HInv

\* Staff write or take away a row.
LEMMA StaffStep ==
  ASSUME HInv, NEW m \in History!Match, History!Edit(m) \/ History!Delete(m)
  PROVE  HInv'
<1>1. PICK row \in Rows :
        /\ stored' = [stored EXCEPT ![m] = row] /\ row.by # "api" /\ History!Stored(m)
        /\ staff < MaxStaff /\ staff' = staff + 1
        /\ UNCHANGED <<played, writer, carried, pass, resync>>
  <2>1. CASE History!Edit(m)
    <3>1. [result |-> 0, by |-> "staff"] \in Rows
      BY DEF Rows
    <3> QED
      BY <2>1, <3>1 DEF History!Edit, History!Staff, History!squadjs
  <2>2. CASE History!Delete(m)
    <3>1. History!NotStored \in Rows /\ History!NotStored.by # "api"
      BY DEF History!NotStored, Rows
    <3> QED
      BY <2>2, <3>1 DEF History!Delete, History!Staff, History!squadjs
  <2> QED
    BY <2>1, <2>2
<1>2. stored \in [History!Match -> Rows] /\ staff \in 0 .. MaxStaff
  BY DEF HInv, History!TypeOK, Rows
<1>3. staff' \in 0 .. MaxStaff
  BY <1>1, <1>2, HistoryAssumption
<1>4. stored' \in [History!Match -> Rows]
  BY <1>1, <1>2
<1>5. \A k \in History!Match : History!Stored(k)' => GoodRow(played, k, stored'[k])
  BY <1>1, <1>2 DEF HInv, History!Stored, GoodRow
<1> QED
  BY <1>1, <1>3, <1>4, <1>5, SiteStep DEF HInv

LEMMA StartResyncStep == HInv /\ History!StartResync => HInv'
<1> SUFFICES ASSUME HInv, History!StartResync  PROVE HInv'
  OBVIOUS
<1>1. /\ resync' = [History!Idle EXCEPT !.at = "loop", !.todo = {m \in History!Match : History!Stored(m)}]
      /\ staff < MaxStaff /\ staff' = staff + 1 /\ UNCHANGED <<played, writer, carried, stored, pass>>
  BY DEF History!StartResync, History!Staff, History!squadjs
<1>2. History!NotStored \in Rows /\ 0 \in 0 .. Last
  BY HistoryAssumption DEF History!NotStored, Rows
<1>3. resync' \in CallType /\ resync'.at = "loop" /\ resync'.todo = {m \in History!Match : History!Stored(m)}
  BY <1>1, <1>2 DEF History!Idle, CallType
<1>4. GoodCall(played, resync')
  BY <1>3 DEF HInv, GoodCall, GoodRow
<1>5. staff' \in 0 .. MaxStaff
  BY <1>1, HistoryAssumption DEF HInv, History!TypeOK
<1> QED
  BY <1>1, <1>3, <1>4, <1>5, ResyncStep

LEMMA ResyncAssembleStep == HInv /\ History!ResyncAssemble => HInv'
<1> SUFFICES ASSUME HInv, History!ResyncAssemble  PROVE HInv'
  OBVIOUS
<1>1. PICK m \in resync.todo :
        resync' = IF played[m].kind = "played"
                  THEN [resync EXCEPT !.at = "update", !.now = m, !.found = History!Assembled(m)]
                  ELSE History!Rest(resync, m)
  BY DEF History!ResyncAssemble, History!AfterError
<1>2. UNCHANGED <<played, writer, carried, stored, pass, staff>> /\ staff \in 0 .. MaxStaff
  BY DEF History!ResyncAssemble, History!squadjs, HInv, History!TypeOK
<1>3. resync \in CallType /\ GoodCall(played, resync)
  BY DEF HInv
<1>4. resync' \in CallType /\ GoodCall(played, resync')
  <2>1. CASE played[m].kind = "played"
    BY <1>1, <1>3, <2>1, AssembledStep
  <2>2. CASE played[m].kind # "played"
    BY <1>1, <1>3, <2>2, RestStep
  <2> QED
    BY <2>1, <2>2
<1> QED
  BY <1>2, <1>4, ResyncStep

LEMMA ResyncUpdateStep == HInv /\ History!ResyncUpdate => HInv'
<1> SUFFICES ASSUME HInv, History!ResyncUpdate  PROVE HInv'
  OBVIOUS
<1> DEFINE m == resync.now
<1>1. /\ resync.at = "update" /\ resync' = History!Rest(resync, m)
      /\ stored' = stored \/ stored' = [stored EXCEPT ![m] = resync.found]
      /\ UNCHANGED <<played, writer, carried, pass, staff>>
  BY DEF History!ResyncUpdate, History!AfterError, History!squadjs
<1>2. resync \in CallType /\ GoodCall(played, resync)
  BY DEF HInv
<1>3. GoodRow(played, m, resync.found) /\ resync.found \in Rows
  BY <1>1, <1>2 DEF GoodCall, CallType
<1>4. stored \in [History!Match -> Rows] /\ staff \in 0 .. MaxStaff
  BY DEF HInv, History!TypeOK, Rows
<1>5. resync' \in CallType /\ GoodCall(played, resync')
  BY <1>1, <1>2, RestStep
<1>6. stored' \in [History!Match -> Rows]
  BY <1>1, <1>3, <1>4
<1>7. \A k \in History!Match : History!Stored(k)' => GoodRow(played, k, stored'[k])
  BY <1>1, <1>3, <1>4 DEF HInv, History!Stored
<1> QED
  BY <1>1, <1>4, <1>5, <1>6, <1>7, SiteStep DEF HInv

LEMMA HInvInit == History!Init => HInv
<1> SUFFICES ASSUME History!Init  PROVE HInv
  OBVIOUS
<1>1. History!NotStored \in Rows /\ 0 \in 0 .. Last /\ 0 \in 0 .. MaxStaff
  BY HistoryAssumption DEF History!NotStored, Rows
<1>2. History!Idle \in CallType /\ GoodCall(played, History!Idle)
  BY <1>1 DEF History!Idle, CallType, GoodCall
<1>3. /\ stored \in [History!Match -> Rows] /\ \A m \in History!Match : ~History!Stored(m)
      /\ pass \in [Pass -> CallType] /\ resync \in CallType
      /\ \A p \in Pass : GoodCall(played, pass[p])
  BY <1>1, <1>2 DEF History!Init, History!Stored, History!NotStored
<1>4. played = <<>> /\ Len(played) = 0
  BY DEF History!Init
<1>5. played \in Seq(Round) /\ Len(played) <= Last
  BY <1>4, HistoryAssumption
<1>6. History!TypeOK
  BY <1>1, <1>3, <1>5 DEF History!Init, History!TypeOK, Rows, Round
<1>7. Columned(played) /\ Carries(played, carried)
  BY <1>4 DEF Columned, Carries, History!Init
<1> QED
  BY <1>2, <1>3, <1>6, <1>7 DEF HInv, History!Init

LEMMA HInvStep == HInv /\ [History!Next]_(History!vars) => HInv'
<1> SUFFICES ASSUME HInv, [History!Next]_(History!vars)  PROVE HInv'
  OBVIOUS
<1>1. CASE UNCHANGED History!vars
  BY <1>1 DEF History!vars, History!squadjs, HInv, History!TypeOK, History!Stored, History!Ended
<1>2. ASSUME NEW pair \in History!Pairs, NEW kind \in Kinds, History!Begin(pair, kind)  PROVE HInv'
  BY <1>2, BeginStep
<1>3. ASSUME NEW m \in History!Match, NEW won \in 0 .. 2, History!End(m, won)  PROVE HInv'
  BY <1>3, EndStep
<1>4. CASE History!Upgrade
  BY <1>4, UpgradeStep
<1>5. ASSUME NEW m \in History!Match, History!Delete(m) \/ History!Edit(m)  PROVE HInv'
  BY <1>5, StaffStep
<1>6. CASE History!StartResync
  BY <1>6, StartResyncStep
<1>7. CASE History!ResyncAssemble
  BY <1>7, ResyncAssembleStep
<1>8. CASE History!ResyncUpdate
  BY <1>8, ResyncUpdateStep
<1>9. ASSUME NEW p \in Pass, History!List(p)  PROVE HInv'
  BY <1>9, ListStep
<1>10. ASSUME NEW p \in Pass, History!Work(p)  PROVE HInv'
  BY <1>10, AssembleStep, CreateStep DEF History!Work
<1> QED
  BY <1>1, <1>2, <1>3, <1>4, <1>5, <1>6, <1>7, <1>8, <1>9, <1>10
  DEF History!Next, History!SquadJS, History!StaffActs

-----------------------------------------------------------------------------
\* The invariant holds: whatever fails and whenever, the lists on the wire are in order,
\* none older than the api's copy and none newer than SquadJS's list.
THEOREM ListsInOrder == LinkSafety => []LInv
<1>1. LInv /\ [LinkNext]_lvars => LInv'
  BY LInvStep
<1> QED
  BY LInvInit, <1>1, PTL DEF LinkSafety

\* The state of the links and of the mirrors stays well formed: what handleEvent and the
\* answers store is always a ServerState, through reconnects and watchdog cuts.
THEOREM LinkTypeCorrect == LinkSafety => []LinkTypeOK
<1>1. LInv => LinkTypeOK
  BY DEF LInv
<1> QED
  BY ListsInOrder, <1>1, PTL

\* SquadJSSocketManager implements LiveMirror, for any number of servers and of failures:
\* its player list is always one SquadJS had and never goes back, neither by the poll's
\* answer, nor by an event, nor by the answers of a new connection.
THEOREM LinkImplementsMirror == LinkSafety => ImplementsMirror
<1>1. LInit => Live!MInit
  BY DEF LInit, Live!MInit
<1>2. LInv /\ [LinkNext]_lvars => LInv' /\ [Live!MNext]_Live!mvars
  BY LInvStep
<1> QED
  BY ListsInOrder, <1>1, <1>2, PTL DEF LinkSafety, ImplementsMirror, Live!MSpec

\* For any number of servers, and whatever SquadJS queues, cancels or executes while a link is
\* down, dead or being cut by the watchdog: once nothing is under way, the api's balanceStatus
\* is "pending" exactly when a balance is queued.
THEOREM QueueStaysInSync == LinkSafety => []QueueInSync
<1>1. LInit => QInv
  BY DEF LInit, QInv
<1>2. QInv => QueueInSync
  <2> SUFFICES ASSUME QInv, NEW s \in Server, Drained(s)
               PROVE  mirror[s].queue = "pending" <=> queued[s]
    BY DEF QueueInSync
  <2>1. Told(s) /\ wire[s] = <<>> /\ ~asks[s].status
    BY DEF QInv, Drained, NoAsks
  <2>2. ~LastWord(<<>>, queued[s])
    BY DEF LastWord
  <2> QED
    BY <2>1, <2>2 DEF Told, Shows
<1>3. LinkTypeOK /\ LinkTypeOK' /\ QInv /\ [LinkNext]_lvars => QInv'
  BY QInvStep
<1> QED
  BY LinkTypeCorrect, <1>1, <1>2, <1>3, PTL DEF LinkSafety

\* The match history: a row nobody edited has its own round's result or a draw, whichever writer
\* filled the winner columns and whatever passes, the resync and staff did in between; but for
\* the rounds whose own column names one of their factions, as the old writer's may.
THEOREM ResultsAreTheirOwn == History!Spec => []ResultIsOwn
<1>1. HInv => ResultIsOwn
  BY DEF HInv, ResultIsOwn, History!ResultIsOwn, History!Stored, GoodRow, Fits
<1>2. HInv /\ [History!Next]_(History!vars) => HInv'
  BY HInvStep
<1> QED
  BY <1>1, <1>2, HInvInit, PTL DEF History!Spec

\* The match history: what staff entered stays, through passes that looked for the match before
\* it was stored, until staff act on it again or the resync comes to it.
THEOREM EditsAreKept == History!Spec => EditsStay
<1> DEFINE Untouched(m) == stored[m].by = "staff" /\ stored'[m] # stored[m] => staff' # staff \/ resync.at = "update"
<1>1. HInv /\ [History!Next]_(History!vars) => [\A m \in History!Match : Untouched(m)]_(History!vars)
  <2> SUFFICES ASSUME HInv, History!Next, NEW m \in History!Match, stored[m].by = "staff",
                      stored'[m] # stored[m], staff' = staff
      PROVE resync.at = "update"
    OBVIOUS
  <2>1. stored \in [History!Match -> Rows] /\ staff \in Nat
    BY HistoryAssumption DEF HInv, History!TypeOK, Rows
  <2>2. stored' # stored
    OBVIOUS
  <2>3. \A p \in Pass : ~History!Create(p)
    BY <2>1 DEF History!Create, History!Inserted, History!Stored
  <2>4. ~History!Staff
    BY <2>1 DEF History!Staff
  <2>5. History!ResyncUpdate
    BY <2>2, <2>3, <2>4
    DEF History!Next, History!SquadJS, History!StaffActs, History!Work, History!Begin, History!End,
        History!Upgrade, History!Edit, History!Delete, History!StartResync, History!List,
        History!Assemble, History!ResyncAssemble
  <2> QED
    BY <2>5 DEF History!ResyncUpdate
<1>2. HInv /\ [History!Next]_(History!vars) => HInv'
  BY HInvStep
<1> QED
  BY <1>1, <1>2, HInvInit, PTL DEF History!Spec, EditsStay, History!EditsStay

-----------------------------------------------------------------------------
(* The lobby service: no flag speaks of a session that is not.             *)

\* Clients are numbered from 1, and a token lives some ticks.
ServiceBounds == Client \subseteq Nat \ {0} /\ 1 \in Client /\ Life \in Nat

\* One client at a time has a session, will have one or takes it up again: the service's.
OneSession == \A k \in Client : lib[k] \in {"logging", "on", "off"} => k = steamClient

LobbyBudget == {"errors", "drops", "fails", "changes", "posts"}
LibStates == {"none", "logging", "on", "off", "closing", "dead"}

SteamTyped ==
  /\ steamClient \in Client \cup {0} /\ steamConnected \in BOOLEAN /\ steamConnecting \in BOOLEAN
  /\ serving \in BOOLEAN /\ lib \in [Client -> LibStates]
ServiceTyped ==
  /\ SteamTyped /\ eos \in 0..Life /\ chain \in [Login -> Eos!Chains]
  /\ discovery \in [Loop -> Eos!Refreshes] /\ serverCache \in SUBSET Region /\ listed \in SUBSET Region
  /\ polled \in BOOLEAN /\ lobby \in [Lobby -> Eos!Lobbies] /\ spent \in [LobbyBudget -> Nat]

\* Who has the session is connected, and nobody else.
SessionOK == OneSession /\ (steamConnected => steamClient # 0 /\ lib[steamClient] = "on")

\* The inductive invariant.
ServiceOK == ServiceTyped /\ SessionOK

LEMMA Spends ==
  ASSUME spent \in [LobbyBudget -> Nat], NEW what \in LobbyBudget, NEW max, Eos!Spend(what, max)
  PROVE  spent' \in [LobbyBudget -> Nat]
BY DEF Eos!Spend

LEMMA FailureTyped ==
  ASSUME ServiceBounds, NEW q \in Eos!Chains
  PROVE  Eos!AfterFailure(q) \in Eos!Chains
<1>1. q.n \in Nat /\ Life \in Nat
  BY DEF ServiceBounds, Eos!Chains
<1> DEFINE next == IF q.via = "login" THEN 1 ELSE q.n + 1
<1>2. CASE q.via = "refresh" \/ next > 3
  <2>1. Eos!AfterFailure(q) = [q EXCEPT !.at = "ended", !.client = 0, !.n = 0]
    BY <1>2 DEF Eos!AfterFailure, Eos!EOS_RETRY_DELAYS
  <2>2. 0 \in 0..(Life + 3)
    BY <1>1
  <2> QED
    BY <2>1, <2>2 DEF Eos!Chains, Eos!EOS_RETRY_DELAYS
<1>3. CASE ~(q.via = "refresh" \/ next > 3)
  <2>1. Eos!AfterFailure(q) = [at |-> "retry", via |-> "retry", client |-> 0, n |-> next]
    BY <1>3 DEF Eos!AfterFailure, Eos!EOS_RETRY_DELAYS
  <2>2. next \in 0..(Life + 3)
    BY <1>1, <1>3
  <2> HIDE DEF next
  <2> QED
    BY <2>1, <2>2 DEF Eos!Chains, Eos!EOS_RETRY_DELAYS
<1> QED
  BY <1>2, <1>3

LEMMA BeginTyped ==
  ASSUME ServiceBounds, steamClient \in Client \cup {0}, NEW via \in {"retry", "refresh"},
         NEW n \in 0..(Life + 3)
  PROVE  Eos!Begin(Eos!Exchange(via, n)) \in Eos!Chains
<1>1. n \in Nat /\ Life \in Nat
  BY DEF ServiceBounds
<1>2. CASE steamClient # 0 /\ steamConnected
  <2> DEFINE q == [at |-> "ticket", via |-> via, client |-> steamClient, n |-> n]
  <2>1. Eos!Exchange(via, n) = q /\ q.at = "ticket"
    BY <1>2 DEF Eos!Exchange
  <2>2. q \in Eos!Chains
    BY DEF Eos!Chains, Eos!EOS_RETRY_DELAYS
  <2> HIDE DEF q
  <2> QED
    BY <2>1, <2>2 DEF Eos!Begin
<1>3. CASE ~(steamClient # 0 /\ steamConnected)
  <2> DEFINE q == [at |-> "failing", via |-> via, client |-> 0, n |-> n]
             next == n + 1
  <2>1. Eos!Begin(Eos!Exchange(via, n)) = Eos!AfterFailure(q)
    BY <1>3 DEF Eos!Exchange, Eos!Begin
  <2>2. CASE via = "refresh" \/ next > 3
    <3>1. Eos!AfterFailure(q) = [at |-> "ended", via |-> via, client |-> 0, n |-> 0]
      BY <2>2 DEF Eos!AfterFailure, Eos!EOS_RETRY_DELAYS
    <3>2. 0 \in 0..(Life + 3)
      BY <1>1
    <3> QED
      BY <2>1, <3>1, <3>2 DEF Eos!Chains, Eos!EOS_RETRY_DELAYS
  <2>3. CASE ~(via = "refresh" \/ next > 3)
    <3>1. Eos!AfterFailure(q) = [at |-> "retry", via |-> "retry", client |-> 0, n |-> next]
      BY <2>3 DEF Eos!AfterFailure, Eos!EOS_RETRY_DELAYS
    <3>2. next \in 0..(Life + 3)
      BY <1>1, <2>3
    <3> HIDE DEF next
    <3> QED
      BY <2>1, <3>1, <3>2 DEF Eos!Chains, Eos!EOS_RETRY_DELAYS
  <2> QED
    BY <2>2, <2>3
<1> QED
  BY <1>2, <1>3

LEMMA ServiceInit == ServiceBounds /\ Eos!Init => ServiceOK
<1> SUFFICES ASSUME ServiceBounds, Eos!Init  PROVE ServiceOK
  OBVIOUS
<1>1. Life \in Nat /\ 0 \in 0..Life /\ 0 \in 0..(Life + 3)
  BY DEF ServiceBounds
<1>2. Eos!NoChain \in Eos!Chains
  BY <1>1 DEF Eos!NoChain, Eos!Chains, Eos!EOS_RETRY_DELAYS
<1>3. Eos!NoRefresh \in Eos!Refreshes
  BY DEF Eos!NoRefresh, Eos!Refreshes
<1>4. Eos!NoLobby \in Eos!Lobbies
  BY DEF Eos!NoLobby, Eos!Lobbies
<1>5. spent \in [LobbyBudget -> Nat]
  BY DEF Eos!Init, LobbyBudget
<1>6. /\ steamClient = 1 /\ steamConnected = FALSE /\ steamConnecting = TRUE /\ serving = FALSE
      /\ lib = [k \in Client |-> IF k = 1 THEN "logging" ELSE "none"]
      /\ eos = 0 /\ chain = [i \in Login |-> Eos!NoChain]
      /\ discovery = [d \in Loop |-> Eos!NoRefresh] /\ serverCache = {} /\ polled = FALSE
      /\ listed \in SUBSET Region /\ lobby = [l \in Lobby |-> Eos!NoLobby]
  BY DEF Eos!Init
<1>7. SteamTyped
  BY <1>6 DEF ServiceBounds, SteamTyped, LibStates
<1>8. ServiceTyped
  BY <1>1, <1>2, <1>3, <1>4, <1>5, <1>6, <1>7 DEF ServiceTyped
<1>9. SessionOK
  BY <1>6 DEF SessionOK, OneSession
<1> QED
  BY <1>8, <1>9 DEF ServiceOK

\* The library.
LEMMA LoggedOnStep ==
  ASSUME ServiceBounds, ServiceOK, NEW k \in Client, Eos!LoggedOn(k)
  PROVE  ServiceOK'
<1>1. /\ lib[k] = "logging" /\ lib' = [lib EXCEPT ![k] = "on"]
      /\ steamConnected' = TRUE /\ steamConnecting' = FALSE
      /\ UNCHANGED <<steamClient, serving, eos, discovery, serverCache, listed, polled, lobby, spent>>
      /\ \E i \in Login : chain' = [chain EXCEPT ![i] =
           [at |-> "ticket", via |-> "login", client |-> steamClient, n |-> 0]]
  BY DEF Eos!LoggedOn, Eos!servers, Eos!Free
<1>2. SteamTyped'
  BY <1>1 DEF ServiceOK, ServiceTyped, SteamTyped, LibStates
<1>3. SessionOK'
  BY <1>1 DEF ServiceBounds, ServiceOK, ServiceTyped, SteamTyped, SessionOK, OneSession
<1>4. chain' \in [Login -> Eos!Chains]
  <2>1. 0 \in 0..(Life + 3)
    BY DEF ServiceBounds
  <2>2. [at |-> "ticket", via |-> "login", client |-> steamClient, n |-> 0] \in Eos!Chains
    BY <2>1 DEF ServiceOK, ServiceTyped, SteamTyped, Eos!Chains, Eos!EOS_RETRY_DELAYS
  <2> QED
    BY <1>1, <2>2 DEF ServiceOK, ServiceTyped
<1> QED
  BY <1>1, <1>2, <1>3, <1>4 DEF ServiceOK, ServiceTyped

LEMMA EndedTyped ==
  ASSUME ServiceBounds, ServiceTyped, NEW k, Eos!SessionEnds(k)
  PROVE  /\ chain' \in [Login -> Eos!Chains] /\ lobby' \in [Lobby -> Eos!Lobbies]
         /\ UNCHANGED <<eos, discovery, serverCache, listed, polled>>
<1>1. 0 \in 0..(Life + 3)
  BY DEF ServiceBounds
<1>2. \A q \in Eos!Chains : [q EXCEPT !.at = "ended", !.client = 0, !.n = 0] \in Eos!Chains
  BY <1>1 DEF Eos!Chains, Eos!EOS_RETRY_DELAYS
<1>3. Eos!NoLobby \in Eos!Lobbies
  BY DEF Eos!NoLobby, Eos!Lobbies
<1> QED
  BY <1>2, <1>3 DEF Eos!SessionEnds, Eos!servers, ServiceTyped

\* A client loses its session, for a time or for good.
LEMMA LossStep ==
  ASSUME ServiceBounds, ServiceOK, NEW k \in Client,
         Eos!Error(k) \/ Eos!Disconnected(k) \/ Eos!LoggedOff(k)
  PROVE  ServiceOK'
<1>1. Eos!SessionEnds(k) /\ steamConnected' = FALSE /\ UNCHANGED steamClient
  BY DEF Eos!Error, Eos!Disconnected, Eos!LoggedOff
<1>2. /\ steamConnecting' \in BOOLEAN /\ serving' \in BOOLEAN
      /\ \E v \in {"dead", "off"} : lib' = [lib EXCEPT ![k] = v] /\ (v = "off" => lib[k] = "on")
  BY DEF Eos!Error, Eos!Disconnected, Eos!LoggedOff, ServiceOK, ServiceTyped, SteamTyped
<1>3. spent' \in [LobbyBudget -> Nat]
  <2>1. spent \in [LobbyBudget -> Nat] /\ "errors" \in LobbyBudget /\ "drops" \in LobbyBudget
    BY DEF ServiceOK, ServiceTyped, LobbyBudget
  <2>2. Eos!Spend("errors", MaxErrors) \/ Eos!Spend("drops", MaxConnDrops) \/ UNCHANGED spent
    BY DEF Eos!Error, Eos!Disconnected, Eos!LoggedOff, Eos!Free
  <2> QED
    BY <2>1, <2>2, Spends
<1>4. SteamTyped'
  BY <1>1, <1>2 DEF ServiceOK, ServiceTyped, SteamTyped, LibStates
<1>5. SessionOK'
  BY <1>1, <1>2 DEF ServiceOK, ServiceTyped, SteamTyped, SessionOK, OneSession
<1> QED
  BY <1>1, <1>3, <1>4, <1>5, EndedTyped DEF ServiceOK, ServiceTyped

LEMMA ReloginStep ==
  ASSUME ServiceOK, NEW k \in Client, Eos!Relogin(k)
  PROVE  ServiceOK'
<1>1. /\ lib[k] = "off" /\ lib' = [lib EXCEPT ![k] = "logging"]
      /\ UNCHANGED <<steamClient, steamConnected, steamConnecting, serving, eos, chain, discovery,
                     serverCache, listed, polled, lobby, spent>>
  BY DEF Eos!Relogin, Eos!servers, Eos!Free
<1>2. SteamTyped'
  BY <1>1 DEF ServiceOK, ServiceTyped, SteamTyped, LibStates
<1>3. SessionOK'
  BY <1>1 DEF ServiceOK, ServiceTyped, SteamTyped, SessionOK, OneSession
<1> QED
  BY <1>1, <1>2, <1>3 DEF ServiceOK, ServiceTyped

LEMMA ReconnectStep ==
  ASSUME ServiceBounds, ServiceOK, Eos!Reconnect
  PROVE  ServiceOK'
<1> DEFINE off == Eos!LogOff(steamClient)
<1>1. /\ steamConnected' = IF steamClient = 0 THEN steamConnected ELSE FALSE
      /\ eos' = 0 /\ UNCHANGED <<serving, chain, discovery, serverCache, listed, polled, lobby>>
      /\ Eos!Spend("posts", MaxPosts)
      /\ \/ steamClient' = 0 /\ lib' = off /\ UNCHANGED steamConnecting
         \/ \E k \in Client : /\ steamClient' = k /\ steamConnecting' = TRUE
                              /\ lib' = [off EXCEPT ![k] = "logging"]
  BY DEF Eos!Reconnect, Eos!servers
<1>2. /\ off \in [Client -> LibStates]
      /\ \A k \in Client : off[k] \notin {"logging", "on", "off"}
  <2>1. steamClient \in Client \cup {0} /\ lib \in [Client -> LibStates] /\ OneSession
    BY DEF ServiceOK, ServiceTyped, SteamTyped, SessionOK
  <2>2. CASE steamClient = 0
    BY <2>1, <2>2 DEF Eos!LogOff, OneSession, ServiceBounds
  <2>3. CASE steamClient # 0
    <3>1. off = [lib EXCEPT ![steamClient] = IF @ = "on" THEN "closing" ELSE "dead"]
      BY <2>3 DEF Eos!LogOff
    <3> HIDE DEF off
    <3> QED
      BY <2>1, <2>3, <3>1 DEF OneSession, LibStates
  <2> QED
    BY <2>2, <2>3
<1> HIDE DEF off
<1>3. steamConnected' = FALSE
  BY <1>1 DEF ServiceOK, ServiceTyped, SteamTyped, SessionOK
<1>4. SteamTyped'
  BY <1>1, <1>2, <1>3 DEF ServiceOK, ServiceTyped, SteamTyped, LibStates
<1>5. SessionOK'
  BY <1>1, <1>2, <1>3 DEF SessionOK, OneSession
<1>6. spent' \in [LobbyBudget -> Nat] /\ 0 \in 0..Life
  <2>1. spent \in [LobbyBudget -> Nat] /\ "posts" \in LobbyBudget
    BY DEF ServiceOK, ServiceTyped, LobbyBudget
  <2> QED
    BY <1>1, <2>1, Spends DEF ServiceBounds
<1> QED
  BY <1>1, <1>4, <1>5, <1>6 DEF ServiceOK, ServiceTyped

\* What the chains, the discovery, the lobbies and time do leaves the session alone.
LEMMA SessionKept ==
  ASSUME ServiceOK, UNCHANGED <<steamClient, steamConnected, steamConnecting, lib>>, serving' \in BOOLEAN
  PROVE  SteamTyped' /\ SessionOK'
BY DEF ServiceOK, ServiceTyped, SteamTyped, SessionOK, OneSession

LEMMA ChainStep ==
  ASSUME ServiceBounds, ServiceOK, NEW i \in Login, Eos!Chain(i) \/ Eos!ExchangeFails(i)
  PROVE  ServiceOK'
<1>1. /\ UNCHANGED <<steamClient, steamConnected, steamConnecting, lib, discovery, serverCache, listed,
                     polled, lobby>>
      /\ serving' \in BOOLEAN
  BY DEF Eos!Chain, Eos!Ticket, Eos!Exchanged, Eos!RetryFires, Eos!RefreshFires, Eos!ExchangeFails,
         Eos!steam, Eos!servers, Eos!Settles, ServiceOK, ServiceTyped, SteamTyped
<1>2. eos' \in 0..Life
  <2>1. eos' = eos \/ eos' = Life
    BY DEF Eos!Chain, Eos!Ticket, Eos!Exchanged, Eos!RetryFires, Eos!RefreshFires, Eos!ExchangeFails
  <2> QED
    BY <2>1 DEF ServiceBounds, ServiceOK, ServiceTyped
<1>3. spent' \in [LobbyBudget -> Nat]
  <2>1. spent \in [LobbyBudget -> Nat] /\ "fails" \in LobbyBudget
    BY DEF ServiceOK, ServiceTyped, LobbyBudget
  <2>2. Eos!Spend("fails", MaxFails) \/ UNCHANGED spent
    BY DEF Eos!Chain, Eos!Ticket, Eos!Exchanged, Eos!RetryFires, Eos!RefreshFires, Eos!ExchangeFails, Eos!Free
  <2> QED
    BY <2>1, <2>2, Spends
<1>4. chain' \in [Login -> Eos!Chains]
  <2>1. chain \in [Login -> Eos!Chains] /\ chain[i] \in Eos!Chains /\ steamClient \in Client \cup {0}
    BY DEF ServiceOK, ServiceTyped, SteamTyped
  <2>2. chain[i].n \in 0..(Life + 3) /\ 0 \in 0..(Life + 3) /\ Life \in 0..(Life + 3)
    BY <2>1 DEF Eos!Chains, Eos!EOS_RETRY_DELAYS, ServiceBounds
  <2>3. SUFFICES \E q \in Eos!Chains : chain' = [chain EXCEPT ![i] = q]
    BY <2>1
  <2>4. CASE Eos!Ticket(i)
    <3>1. chain' = [chain EXCEPT ![i] = [chain[i] EXCEPT !.at = "post"]]
      BY <2>4 DEF Eos!Ticket
    <3>2. [chain[i] EXCEPT !.at = "post"] \in Eos!Chains
      BY <2>1 DEF Eos!Chains
    <3> QED
      BY <3>1, <3>2
  <2>5. CASE Eos!Exchanged(i)
    <3>1. [at |-> "refresh", via |-> "refresh", client |-> 0, n |-> Life] \in Eos!Chains
      BY <2>2 DEF Eos!Chains, Eos!EOS_RETRY_DELAYS
    <3> QED
      BY <2>5, <3>1 DEF Eos!Exchanged
  <2>6. CASE Eos!RetryFires(i)
    BY <2>1, <2>2, <2>6, BeginTyped DEF Eos!RetryFires
  <2>7. CASE Eos!RefreshFires(i)
    BY <2>1, <2>2, <2>7, BeginTyped DEF Eos!RefreshFires
  <2>8. CASE Eos!ExchangeFails(i)
    BY <2>1, <2>8, FailureTyped DEF Eos!ExchangeFails
  <2> QED
    BY <2>4, <2>5, <2>6, <2>7, <2>8 DEF Eos!Chain
<1> QED
  BY <1>1, <1>2, <1>3, <1>4, SessionKept DEF ServiceOK, ServiceTyped

LEMMA DiscoveryStep ==
  ASSUME ServiceOK, NEW d \in Loop, Eos!Discovery(d) \/ Eos!RefreshFails(d)
  PROVE  ServiceOK'
<1>1. UNCHANGED <<steamClient, steamConnected, steamConnecting, serving, lib, eos, chain, listed, lobby>>
  BY DEF Eos!Discovery, Eos!Refresh, Eos!Ask, Eos!EosLists, Eos!Arrives, Eos!RefreshFails, Eos!steam
<1>2. spent' \in [LobbyBudget -> Nat]
  <2>1. spent \in [LobbyBudget -> Nat] /\ "fails" \in LobbyBudget
    BY DEF ServiceOK, ServiceTyped, LobbyBudget
  <2>2. Eos!Spend("fails", MaxFails) \/ UNCHANGED spent
    BY DEF Eos!Discovery, Eos!Refresh, Eos!Ask, Eos!EosLists, Eos!Arrives, Eos!RefreshFails, Eos!Free
  <2> QED
    BY <2>1, <2>2, Spends
<1>3. polled' \in BOOLEAN
  BY DEF Eos!Discovery, Eos!Refresh, Eos!Ask, Eos!EosLists, Eos!Arrives, Eos!RefreshFails, ServiceOK,
         ServiceTyped
<1>4. discovery' \in [Loop -> Eos!Refreshes] /\ serverCache' \in SUBSET Region
  <2>1. /\ discovery \in [Loop -> Eos!Refreshes] /\ discovery[d] \in Eos!Refreshes
        /\ serverCache \in SUBSET Region /\ listed \in SUBSET Region
    BY DEF ServiceOK, ServiceTyped
  <2>2. /\ \A v \in {"build", "asking", "idle"} : [discovery[d] EXCEPT !.at = v] \in Eos!Refreshes
        /\ [at |-> "answered", list |-> listed] \in Eos!Refreshes /\ Eos!NoRefresh \in Eos!Refreshes
        /\ discovery[d].list \in SUBSET Region
    BY <2>1 DEF Eos!Refreshes, Eos!NoRefresh
  <2> HIDE DEF Eos!Refreshes
  <2>3. \E q \in Eos!Refreshes : discovery' = [discovery EXCEPT ![d] = q]
    BY <2>2 DEF Eos!Discovery, Eos!Refresh, Eos!Ask, Eos!EosLists, Eos!Arrives, Eos!RefreshFails
  <2>4. serverCache' \in {serverCache, discovery[d].list}
    BY DEF Eos!Discovery, Eos!Refresh, Eos!Ask, Eos!EosLists, Eos!Arrives, Eos!RefreshFails
  <2> QED
    BY <2>1, <2>2, <2>3, <2>4
<1> QED
  BY <1>1, <1>2, <1>3, <1>4, SessionKept DEF ServiceOK, ServiceTyped, SteamTyped

LEMMA LobbyStep ==
  ASSUME ServiceOK, NEW l \in Lobby, Eos!Lobbying(l) \/ Eos!CreateLobby(l) \/ Eos!TimesOut(l)
  PROVE  ServiceOK'
<1>1. UNCHANGED <<steamClient, steamConnected, steamConnecting, serving, lib, eos, chain, discovery,
                  serverCache, listed, polled, spent>>
  BY DEF Eos!Lobbying, Eos!SteamCreates, Eos!Answered, Eos!Leave, Eos!CreateLobby, Eos!TimesOut, Eos!steam,
         Eos!servers, Eos!Free
<1>2. lobby' \in [Lobby -> Eos!Lobbies]
  <2>1. lobby \in [Lobby -> Eos!Lobbies] /\ lobby[l] \in Eos!Lobbies /\ steamClient \in Client \cup {0}
    BY DEF ServiceOK, ServiceTyped, SteamTyped
  <2>2. SUFFICES \E q \in Eos!Lobbies : lobby' = [lobby EXCEPT ![l] = q]
    BY <2>1
  <2>3. CASE Eos!SteamCreates(l)
    <3>1. [lobby[l] EXCEPT !.at = "made"] \in Eos!Lobbies
      BY <2>1 DEF Eos!Lobbies
    <3> QED
      BY <2>3, <3>1 DEF Eos!SteamCreates
  <2>4. CASE Eos!Answered(l)
    <3> DEFINE q == [lobby[l] EXCEPT !.at = IF lobby[l].waiting THEN "open" ELSE "forgotten", !.waiting = FALSE]
    <3>1. q \in Eos!Lobbies
      BY <2>1 DEF Eos!Lobbies
    <3>2. lobby' = [lobby EXCEPT ![l] = q]
      BY <2>1, <2>4 DEF Eos!Answered
    <3> QED
      BY <3>1, <3>2
  <2>5. CASE Eos!Leave(l)
    <3>1. Eos!NoLobby \in Eos!Lobbies /\ [lobby[l] EXCEPT !.at = "forgotten"] \in Eos!Lobbies
      BY <2>1 DEF Eos!Lobbies, Eos!NoLobby
    <3> QED
      BY <2>5, <3>1 DEF Eos!Leave
  <2>6. CASE Eos!CreateLobby(l)
    <3>1. [at |-> "asked", owner |-> steamClient, waiting |-> TRUE] \in Eos!Lobbies
      BY <2>1 DEF Eos!Lobbies
    <3> QED
      BY <2>6, <3>1 DEF Eos!CreateLobby
  <2>7. CASE Eos!TimesOut(l)
    <3>1. [lobby[l] EXCEPT !.waiting = FALSE] \in Eos!Lobbies
      BY <2>1 DEF Eos!Lobbies
    <3> QED
      BY <2>7, <3>1 DEF Eos!TimesOut
  <2> QED
    BY <2>3, <2>4, <2>5, <2>6, <2>7 DEF Eos!Lobbying
<1> QED
  BY <1>1, <1>2, SessionKept DEF ServiceOK, ServiceTyped, SteamTyped

LEMMA TickStep ==
  ASSUME ServiceBounds, ServiceOK, Eos!Tick
  PROVE  ServiceOK'
<1>1. /\ UNCHANGED <<steamClient, steamConnected, steamConnecting, serving, lib, discovery, serverCache,
                     listed, lobby, spent>>
      /\ polled' = FALSE /\ eos' = IF eos > 0 THEN eos - 1 ELSE 0
      /\ \A i \in Login : chain[i].at = "refresh" => chain[i].n > 0
      /\ chain' = [i \in Login |-> IF chain[i].at = "refresh" THEN [chain[i] EXCEPT !.n = @ - 1] ELSE chain[i]]
  BY DEF Eos!Tick, Eos!steam, Eos!Free
<1>2. eos' \in 0..Life
  BY <1>1 DEF ServiceBounds, ServiceOK, ServiceTyped
<1>3. chain' \in [Login -> Eos!Chains]
  <2>1. chain \in [Login -> Eos!Chains]
    BY DEF ServiceOK, ServiceTyped
  <2>2. ASSUME NEW q \in Eos!Chains, q.n > 0  PROVE [q EXCEPT !.n = @ - 1] \in Eos!Chains
    <3>1. q.n - 1 \in 0..(Life + 3)
      BY <2>2 DEF Eos!Chains, Eos!EOS_RETRY_DELAYS, ServiceBounds
    <3> QED
      BY <3>1 DEF Eos!Chains, Eos!EOS_RETRY_DELAYS
  <2> QED
    BY <1>1, <2>1, <2>2
<1> QED
  BY <1>1, <1>2, <1>3, SessionKept DEF ServiceOK, ServiceTyped, SteamTyped

LEMMA ListChangesStep ==
  ASSUME ServiceOK, Eos!ListChanges
  PROVE  ServiceOK'
<1>1. /\ UNCHANGED <<steamClient, steamConnected, steamConnecting, serving, lib, eos, chain, discovery,
                     serverCache, polled, lobby>>
      /\ listed' \in SUBSET Region /\ Eos!Spend("changes", MaxChanges)
  BY DEF Eos!ListChanges, Eos!steam
<1>2. spent' \in [LobbyBudget -> Nat]
  <2>1. spent \in [LobbyBudget -> Nat] /\ "changes" \in LobbyBudget
    BY DEF ServiceOK, ServiceTyped, LobbyBudget
  <2> QED
    BY <1>1, <2>1, Spends
<1> QED
  BY <1>1, <1>2, SessionKept DEF ServiceOK, ServiceTyped, SteamTyped

LEMMA ServiceStep ==
  ASSUME ServiceBounds, ServiceOK, [Eos!Next]_(Eos!vars)
  PROVE  ServiceOK'
<1>1. CASE UNCHANGED Eos!vars
  <2>1. UNCHANGED <<steamClient, steamConnected, steamConnecting, serving, lib, eos, chain, discovery,
                    serverCache, listed, polled, lobby, spent>>
    BY <1>1 DEF Eos!vars, Eos!steam, Eos!servers
  <2> QED
    BY <2>1, SessionKept DEF ServiceOK, ServiceTyped, SteamTyped
<1>2. CASE \E k \in Client : Eos!Library(k) \/ Eos!Error(k) \/ Eos!Disconnected(k)
  BY <1>2, LoggedOnStep, LossStep, ReloginStep DEF Eos!Library
<1>3. CASE \E i \in Login : Eos!Chain(i) \/ Eos!ExchangeFails(i)
  BY <1>3, ChainStep
<1>4. CASE \E d \in Loop : Eos!Discovery(d) \/ Eos!RefreshFails(d)
  BY <1>4, DiscoveryStep
<1>5. CASE \E l \in Lobby : Eos!Lobbying(l) \/ Eos!CreateLobby(l) \/ Eos!TimesOut(l)
  BY <1>5, LobbyStep
<1>6. CASE Eos!Reconnect
  BY <1>6, ReconnectStep
<1>7. CASE Eos!ListChanges
  BY <1>7, ListChangesStep
<1>8. CASE Eos!Tick
  BY <1>8, TickStep
<1> QED
  BY <1>1, <1>2, <1>3, <1>4, <1>5, <1>6, <1>7, <1>8 DEF Eos!Next

\* Whoever believes steamConnected finds a client that is logged on, and there is one session
\* at most, whatever clients have been dropped, given up or logged off late.
THEOREM ConnectedIsLoggedOn ==
  ASSUME ServiceBounds
  PROVE  Eos!Safety => [](Eos!TypeOK /\ Eos!ConnectedIsOn)
<1>1. ServiceOK => Eos!TypeOK /\ Eos!ConnectedIsOn
  BY DEF ServiceOK, ServiceTyped, SteamTyped, SessionOK, OneSession, LobbyBudget, LibStates, Eos!TypeOK,
         Eos!ConnectedIsOn
<1>2. Eos!Init => ServiceOK
  BY ServiceInit
<1>3. ServiceOK /\ [Eos!Next]_(Eos!vars) => ServiceOK'
  BY ServiceStep
<1> QED
  BY <1>1, <1>2, <1>3, PTL DEF Eos!Safety
=============================================================================
