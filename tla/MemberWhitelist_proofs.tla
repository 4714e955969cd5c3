----------------------- MODULE MemberWhitelist_proofs -----------------------
(***************************************************************************)
(* Proofs about MemberWhitelist: type correctness, the invariants on who    *)
(* owns a whitelist row, and that every change of a list has its deploy.   *)
(*                                                                         *)
(* None of them is inductive.  A row gets its owner from a lookup made by  *)
(* an earlier statement of a handler, so the inductive invariant WInv also *)
(* says what a handler in flight may have in its hands.                    *)
(***************************************************************************)
EXTENDS MemberWhitelist, TLAPS

\* The types of everything but `owed`, which the rest does not depend on.
TableTypeOK ==
  /\ user \in [User -> Account]
  /\ entry \in [Entry -> Row]
  /\ call \in [Call -> Flight]
  /\ fired \subseteq Server \cup {All}
  /\ by \in [Entry -> User \cup {None}]
  /\ late \subseteq Entry
  /\ held \subseteq User \X Steam
  /\ reverted \subseteq Entry

\* A row that exists has a Steam ID and a server.
RowShape == \A e \in Entry : entry[e].there => entry[e].steam \in Steam /\ entry[e].server \in Server

\* What a handler in flight has in its hands.
FlightShape(q) ==
  /\ q.op \in {"add", "bulkAdd"} => q.server \in Server
  /\ q.op = "edit" => q.row \in Entry /\ q.server \in Server
  /\ q.op \in {"relink", "backfill"} => q.user \in User
  /\ q.at \in {"unlink", "link"} => q.op = "relink"

\* Every owner it has looked up, and the owner it is about to link, has held the Steam ID.
FlightHeld(q, h) ==
  /\ \A s \in Steam : q.found[s] # None => <<q.found[s], s>> \in h
  /\ q.at \in {"unlink", "link"} /\ q.new # None => <<q.user, q.new>> \in h

CallShape == \A c \in Call : FlightShape(call[c]) /\ FlightHeld(call[c], held)

\* A member's Steam ID is one they have held.
MemberHeld == \A u \in User : user[u].status = "there" /\ user[u].steam # None
                                => <<u, user[u].steam>> \in held

\* The inductive invariant.
WInv == /\ TableTypeOK /\ RowShape /\ CallShape /\ MemberHeld
        /\ OwnerHeldSteamId /\ DisabledOwnsOnlyLateRows

-----------------------------------------------------------------------------
(* Lemmas on the helpers.                                                  *)

\* The idle call is a call, with nothing in its hands.
LEMMA IdleType == Idle \in Flight /\ FlightShape(Idle) /\ \A h : FlightHeld(Idle, h)
  BY DEF Idle, Flight, Ops, Steps, FlightShape, FlightHeld

\* The row that does not exist is a row.
LEMMA NoRowType == NoRow \in Row
  BY DEF NoRow, Row, Until

\* findUserIdForSteam answers null or a member who has the Steam ID now.
LEMMA FindUserType ==
  ASSUME NEW s
  PROVE  /\ FindUserIdForSteam(s) \in User \cup {None}
         /\ FindUserIdForSteam(s) # None => HeldBy(FindUserIdForSteam(s), s)
  BY ConstantsAssumption DEF FindUserIdForSteam

\* A statement that only moves one handler on, to a call that is well formed.
LEMMA CallStep ==
  ASSUME WInv, NEW c \in Call, NEW q \in Flight, FlightShape(q), FlightHeld(q, held),
         call' = [call EXCEPT ![c] = q], fired' = {}, UNCHANGED <<user, entry, history>>
  PROVE  WInv'
<1>1. TableTypeOK'
  BY DEF WInv, TableTypeOK, history
<1>2. CallShape'
  BY DEF WInv, TableTypeOK, CallShape, history
<1>3. RowShape' /\ MemberHeld' /\ OwnerHeldSteamId' /\ DisabledOwnsOnlyLateRows'
  BY DEF WInv, RowShape, MemberHeld, OwnerHeldSteamId, HeldByOwner, DisabledOwnsOnlyLateRows, Rows, history
<1> QED
  BY <1>1, <1>2, <1>3 DEF WInv

\* Calls stay well formed while the history of Steam IDs only grows.
LEMMA CallsKept ==
  ASSUME WInv, held \subseteq held', UNCHANGED call
  PROVE  CallShape'
  BY DEF WInv, CallShape, FlightShape, FlightHeld

\* The same with one of them ending or going on to a well-formed call.
LEMMA CallMoved ==
  ASSUME WInv, held \subseteq held', NEW c \in Call, NEW q \in Flight,
         FlightShape(q), FlightHeld(q, held'), call' = [call EXCEPT ![c] = q]
  PROVE  CallShape' /\ call' \in [Call -> Flight]
<1>1. call' \in [Call -> Flight]
  BY DEF WInv, TableTypeOK
<1>2. ASSUME NEW d \in Call PROVE FlightShape(call'[d]) /\ FlightHeld(call'[d], held')
  <2>1. CASE d = c
    BY <2>1 DEF WInv, TableTypeOK
  <2>2. CASE d # c
    <3>1. call'[d] = call[d]
      BY <2>2 DEF WInv, TableTypeOK
    <3>2. FlightShape(call[d]) /\ FlightHeld(call[d], held)
      BY DEF WInv, CallShape
    <3> QED
      BY <3>1, <3>2 DEF FlightHeld
  <2> QED
    BY <2>1, <2>2
<1> QED
  BY <1>1, <1>2 DEF CallShape

-----------------------------------------------------------------------------
(* Handlers in flight: reads.                                              *)

\* A start whose call is well formed preserves the invariant.
LEMMA StartStep ==
  ASSUME WInv, NEW c \in Call, NEW q \in Flight, FlightShape(q), FlightHeld(q, held),
         Start(c, q), fired' = {}, UNCHANGED <<user, entry, history>>
  PROVE  WInv'
  BY CallStep DEF Start

\* The owners a lookup finds have held the Steam IDs they are found by.
LEMMA LookupStep ==
  ASSUME WInv, NEW c \in Call, LookupOwner(c)
  PROVE  WInv'
<1>. DEFINE found == [s \in Steam |->
                        IF s \in call[c].steams THEN FindUserIdForSteam(s) ELSE None]
            q == [call[c] EXCEPT !.at = "write", !.found = found]
<1>1. call[c] \in Flight
  BY DEF WInv, TableTypeOK
<1>2. found \in [Steam -> User \cup {None}]
  BY FindUserType
<1>3. q \in Flight
  BY <1>1, <1>2 DEF Flight, Steps
<1>4. q.found = found /\ q.at = "write"
  BY <1>1 DEF Flight
<1>5. FlightShape(q)
  BY <1>1 DEF WInv, CallShape, FlightShape, Flight
<1>6. ASSUME NEW s \in Steam, found[s] # None PROVE <<found[s], s>> \in held
  <2>1. found[s] = FindUserIdForSteam(s)
    BY <1>6
  <2>2. HeldBy(found[s], s) /\ found[s] \in User
    BY <1>6, <2>1, FindUserType
  <2>3. s # None
    BY ConstantsAssumption
  <2> QED
    BY <2>2, <2>3 DEF HeldBy, Members, WInv, MemberHeld
<1>7. FlightHeld(q, held)
  BY <1>4, <1>6 DEF FlightHeld
<1>8. call' = [call EXCEPT ![c] = q]
  BY <1>1 DEF LookupOwner, WInv, TableTypeOK, Flight
<1> QED
  BY <1>3, <1>5, <1>7, <1>8, CallStep DEF LookupOwner

-----------------------------------------------------------------------------
(* Adding rows.                                                            *)

\* The rows a create inserts are well formed and belong to members who have held
\* their Steam IDs; one that belongs to a disabled member is recorded as late.
LEMMA InsertStep ==
  ASSUME WInv, NEW c \in Call, call[c].server \in Server,
         NEW S \in SUBSET Creatable(c), NEW id \in [S -> Entry], NEW t \in Until,
         Insert(c, S, id, t), UNCHANGED <<user, held>>
  PROVE  /\ entry' \in [Entry -> Row]
         /\ by' \in [Entry -> User \cup {None}]
         /\ late' \subseteq Entry /\ reverted' \subseteq Entry
         /\ RowShape' /\ OwnerHeldSteamId' /\ DisabledOwnsOnlyLateRows'
<1>. DEFINE new(e) == \E s \in S : id[s] = e
            src(e) == CHOOSE s \in S : id[s] = e
<1>1. call[c] \in Flight /\ S \subseteq Steam
  BY DEF WInv, TableTypeOK, Flight, Creatable
<1>2. ASSUME NEW e \in Entry, new(e)
      PROVE  src(e) \in S /\ id[src(e)] = e
  BY <1>2
<1>3. \A e \in Entry : entry'[e] = IF new(e) THEN NewRow(c, src(e), t) ELSE entry[e]
  BY DEF Insert
<1>4. ASSUME NEW s \in S
      PROVE  /\ NewRow(c, s, t) \in Row
             /\ NewRow(c, s, t).steam = s /\ s \in Steam
             /\ NewRow(c, s, t).server \in Server
             /\ NewRow(c, s, t).owner = call[c].found[s]
             /\ call[c].found[s] \in User \cup {None}
  BY <1>1, <1>4 DEF NewRow, Row, Flight
<1>5. entry' \in [Entry -> Row]
  <2>1. ASSUME NEW e \in Entry
        PROVE  (IF new(e) THEN NewRow(c, src(e), t) ELSE entry[e]) \in Row
    BY <2>1, <1>2, <1>4 DEF WInv, TableTypeOK
  <2> QED
    BY <2>1 DEF Insert
<1>6. by' \in [Entry -> User \cup {None}]
  BY DEF WInv, TableTypeOK, Insert
<1>7. late' \subseteq Entry /\ reverted' \subseteq Entry
  BY DEF WInv, TableTypeOK, Insert
<1>8. RowShape'
  BY <1>2, <1>3, <1>4 DEF WInv, RowShape
<1>9. OwnerHeldSteamId'
  <2>1. \A s \in S : call[c].found[s] # None => <<call[c].found[s], s>> \in held
    BY <1>1 DEF WInv, CallShape, FlightHeld
  <2>2. \A e \in Entry : ~new(e) /\ e \notin reverted' => e \notin reverted
    BY DEF Insert
  <2> QED
    BY <1>2, <1>3, <1>4, <2>1, <2>2 DEF WInv, OwnerHeldSteamId, HeldByOwner, Rows
<1>10. DisabledOwnsOnlyLateRows'
  <2>1. ASSUME NEW e \in Entry, new(e), entry'[e].owner # None, user'[entry'[e].owner].disabled
        PROVE  e \in late'
    <3>1. entry'[e].owner = call[c].found[src(e)]
      BY <1>2, <1>3, <1>4, <2>1
    <3> QED
      BY <1>2, <2>1, <3>1 DEF Insert
  <2>2. ASSUME NEW e \in Entry, ~new(e), e \in late PROVE e \in late'
    BY <2>2 DEF Insert
  <2> QED
    BY <1>3, <2>1, <2>2 DEF WInv, DisabledOwnsOnlyLateRows, Rows
<1> QED
  BY <1>5, <1>6, <1>7, <1>8, <1>9, <1>10

\* A handler that ends leaves the other calls as they are.
LEMMA FinishStep ==
  ASSUME WInv, NEW c \in Call, Finish(c), held \subseteq held'
  PROVE  CallShape' /\ call' \in [Call -> Flight]
  BY CallMoved, IdleType DEF Finish

\* POST /whitelist inserts its row, or answers an error and changes nothing.
LEMMA AddStep ==
  ASSUME WInv, NEW c \in Call, NEW t \in Expiries, AddWrite(c, t)
  PROVE  WInv'
<1>1. call[c].server \in Server /\ t \in Until
  BY ConstantsAssumption DEF AddWrite, WInv, CallShape, FlightShape, Until
<1>2. CallShape' /\ call' \in [Call -> Flight]
  BY FinishStep DEF AddWrite
<1>3. MemberHeld'
  BY DEF AddWrite, WInv, MemberHeld
<1>4. CASE Creatable(c) = call[c].steams
  <2>1. PICK id \in [call[c].steams -> Entry] : Insert(c, call[c].steams, id, t)
    BY <1>4 DEF AddWrite
  <2>2. UNCHANGED <<user, held>> /\ fired' = {call[c].server}
    BY <1>4 DEF AddWrite
  <2>3. /\ entry' \in [Entry -> Row] /\ by' \in [Entry -> User \cup {None}]
      /\ late' \subseteq Entry /\ reverted' \subseteq Entry
        /\ RowShape' /\ OwnerHeldSteamId' /\ DisabledOwnsOnlyLateRows'
    BY <1>1, <1>4, <2>1, <2>2, InsertStep
  <2> QED
    BY <1>1, <1>2, <1>3, <2>2, <2>3 DEF WInv, TableTypeOK
<1>5. CASE Creatable(c) # call[c].steams
  BY <1>2, <1>3, <1>5
     DEF AddWrite, WInv, TableTypeOK, RowShape, OwnerHeldSteamId, HeldByOwner, DisabledOwnsOnlyLateRows, Rows
<1> QED
  BY <1>4, <1>5

\* POST /whitelist/bulk inserts what it still can.
LEMMA BulkAddStep ==
  ASSUME WInv, NEW c \in Call, BulkAddWrite(c)
  PROVE  WInv'
<1>1. call[c].server \in Server /\ "never" \in Until
  BY DEF BulkAddWrite, WInv, CallShape, FlightShape, Until
<1>2. CallShape' /\ call' \in [Call -> Flight]
  BY FinishStep DEF BulkAddWrite
<1>3. MemberHeld'
  BY DEF BulkAddWrite, WInv, MemberHeld
<1>4. PICK id \in [Creatable(c) -> Entry] : Insert(c, Creatable(c), id, "never")
  BY DEF BulkAddWrite
<1>5. UNCHANGED <<user, held>> /\ fired' = {call[c].server}
  BY DEF BulkAddWrite
<1>6. /\ entry' \in [Entry -> Row] /\ by' \in [Entry -> User \cup {None}]
      /\ late' \subseteq Entry /\ reverted' \subseteq Entry
      /\ RowShape' /\ OwnerHeldSteamId' /\ DisabledOwnsOnlyLateRows'
  BY <1>1, <1>4, <1>5, InsertStep
<1> QED
  BY <1>1, <1>2, <1>3, <1>5, <1>6 DEF WInv, TableTypeOK

-----------------------------------------------------------------------------
(* Changing and removing rows.                                             *)

\* Only the expiry of rows changes, and which handlers are in flight.
LEMMA UntilStep ==
  ASSUME WInv, UNCHANGED <<user, history>>, CallShape', call' \in [Call -> Flight],
         fired' \subseteq Server \cup {All}, entry' \in [Entry -> Row],
         \A e \in Entry : /\ entry'[e].there = entry[e].there
                          /\ entry'[e].steam = entry[e].steam
                          /\ entry'[e].server = entry[e].server
                          /\ entry'[e].owner = entry[e].owner
                          /\ entry'[e].dormant = entry[e].dormant
  PROVE  WInv'
<1>1. TableTypeOK'
  BY DEF WInv, TableTypeOK, history
<1>2. RowShape' /\ MemberHeld' /\ OwnerHeldSteamId' /\ DisabledOwnsOnlyLateRows'
  BY DEF WInv, RowShape, MemberHeld, OwnerHeldSteamId, HeldByOwner, DisabledOwnsOnlyLateRows, Rows,
         history
<1> QED
  BY <1>1, <1>2 DEF WInv

\* What a request does to the expiry of a row.
LEMMA SetUntilType ==
  ASSUME WInv, NEW e \in Entry, NEW t \in Expiries \cup {"keep"}
  PROVE  /\ SetUntil(e, t) \in Row
         /\ SetUntil(e, t).there = entry[e].there /\ SetUntil(e, t).steam = entry[e].steam
         /\ SetUntil(e, t).server = entry[e].server /\ SetUntil(e, t).owner = entry[e].owner
         /\ SetUntil(e, t).dormant = entry[e].dormant
<1>1. entry[e] \in Row
  BY DEF WInv, TableTypeOK
<1>2. t # "keep" => t \in Until
  BY ConstantsAssumption DEF Until
<1> QED
  BY <1>1, <1>2 DEF SetUntil, Row

\* What the update of an edit leaves in its row, and that it touches no other.
LEMMA EditedRow ==
  ASSUME WInv, NEW c \in Call, NEW t \in Expiries \cup {"keep"}, EditWrite(c, t), Editable(call[c])
  PROVE  LET q == call[c]
             repoints == q.new \notin {None, q.old} IN
         /\ q.row \in Entry /\ entry[q.row].there /\ entry' \in [Entry -> Row]
         /\ \A e \in Entry \ {q.row} : entry'[e] = entry[e]
         /\ entry'[q.row].there
         /\ entry'[q.row].steam = IF q.new = None THEN entry[q.row].steam ELSE q.new
         /\ entry'[q.row].owner = IF repoints THEN q.found[q.new] ELSE entry[q.row].owner
         /\ entry'[q.row].server = entry[q.row].server
         /\ entry'[q.row].dormant = entry[q.row].dormant
         /\ fired' = {q.server} /\ UNCHANGED <<user, held>> /\ Finish(c)
<1> DEFINE q == call[c]
           repoints == q.new \notin {None, q.old}
           steam == IF q.new = None THEN entry[q.row].steam ELSE q.new
           owner == IF repoints THEN q.found[q.new] ELSE entry[q.row].owner
<1>1. /\ q \in Flight /\ q.row \in Entry /\ q.new \in Steam \cup {None}
      /\ (q.new \in Steam => q.found[q.new] \in User \cup {None})
  BY DEF EditWrite, WInv, TableTypeOK, CallShape, FlightShape, Flight
<1>2. entry \in [Entry -> Row] /\ entry[q.row] \in Row /\ entry[q.row].there
  BY <1>1 DEF WInv, TableTypeOK, Editable
<1>3. PICK x : x = SetUntil(q.row, t)
  OBVIOUS
<1>4. /\ x \in Row /\ x.there = entry[q.row].there /\ x.steam = entry[q.row].steam
      /\ x.server = entry[q.row].server /\ x.owner = entry[q.row].owner
      /\ x.dormant = entry[q.row].dormant
  BY <1>1, <1>3, SetUntilType
<1>5. PICK n : n = [x EXCEPT !.steam = steam, !.owner = owner]
  OBVIOUS
<1>6. /\ n \in Row /\ n.there = x.there /\ n.steam = steam /\ n.owner = owner
      /\ n.server = x.server /\ n.dormant = x.dormant
  BY <1>1, <1>2, <1>4, <1>5 DEF Row
<1>7. entry' = [entry EXCEPT ![q.row] = n]
  <2>1. CASE repoints
    BY <1>3, <1>5, <2>1 DEF EditWrite
  <2>2. CASE ~repoints
    <3>1. entry' = [entry EXCEPT ![q.row] = [x EXCEPT !.steam = steam]]
      BY <1>3, <1>4, <2>2 DEF EditWrite
    <3>2. [x EXCEPT !.steam = steam] = n
      BY <1>4, <1>5, <2>2 DEF Row
    <3> QED
      BY <3>1, <3>2
  <2> QED
    BY <2>1, <2>2
<1>8. fired' = {q.server} /\ UNCHANGED <<user, held>> /\ Finish(c)
  BY DEF EditWrite
<1>9. /\ entry' \in [Entry -> Row] /\ entry'[q.row] = n
      /\ \A e \in Entry \ {q.row} : entry'[e] = entry[e]
  BY <1>1, <1>2, <1>6, <1>7
<1> HIDE DEF q, repoints, steam, owner
<1>10. /\ entry'[q.row].there /\ entry'[q.row].steam = steam /\ entry'[q.row].owner = owner
       /\ entry'[q.row].server = entry[q.row].server /\ entry'[q.row].dormant = entry[q.row].dormant
  BY <1>2, <1>4, <1>6, <1>9
<1> QED
  BY <1>1, <1>2, <1>8, <1>9, <1>10 DEF q, repoints, steam, owner

\* A repointed row goes to the member its new Steam ID was looked up for; one that is given
\* back the Steam ID that was read keeps its owner, and is recorded as reverted.
LEMMA EditStep ==
  ASSUME WInv, NEW c \in Call, NEW t \in Expiries \cup {"keep"}, EditWrite(c, t)
  PROVE  WInv'
<1>. DEFINE q == call[c]
            owner == q.found[q.new]
            repoints == q.new \notin {None, q.old}
<1>1. CallShape' /\ call' \in [Call -> Flight]
  BY FinishStep DEF EditWrite
<1>2. MemberHeld'
  BY DEF EditWrite, WInv, MemberHeld
<1>3. CASE ~Editable(q)
  BY <1>1, <1>2, <1>3
     DEF EditWrite, WInv, TableTypeOK, RowShape, OwnerHeldSteamId, HeldByOwner,
         DisabledOwnsOnlyLateRows, Rows
<1>4. CASE Editable(q)
  <2>1. /\ q.row \in Entry /\ entry[q.row].there /\ entry' \in [Entry -> Row]
        /\ \A e \in Entry \ {q.row} : entry'[e] = entry[e]
        /\ entry'[q.row].there
        /\ entry'[q.row].steam = IF q.new = None THEN entry[q.row].steam ELSE q.new
        /\ entry'[q.row].owner = IF repoints THEN owner ELSE entry[q.row].owner
        /\ entry'[q.row].server = entry[q.row].server
        /\ entry'[q.row].dormant = entry[q.row].dormant
        /\ fired' = {q.server} /\ UNCHANGED <<user, held>>
    BY <1>4, EditedRow
  <2>2. /\ q.server \in Server /\ q.new \in Steam \cup {None} /\ entry[q.row].steam \in Steam
        /\ (q.new \in Steam => owner \in User \cup {None} /\ (owner # None => <<owner, q.new>> \in held))
    <3>1. q \in Flight /\ q.op = "edit" /\ entry[q.row].steam \in Steam
      BY <2>1 DEF EditWrite, WInv, TableTypeOK, RowShape
    <3>2. FlightShape(q) /\ FlightHeld(q, held)
      BY DEF WInv, CallShape
    <3>3. q.server \in Server /\ q.new \in Steam \cup {None} /\ q.found \in [Steam -> User \cup {None}]
      BY <3>1, <3>2 DEF FlightShape, Flight
    <3>4. \A s \in Steam : q.found[s] # None => <<q.found[s], s>> \in held
      BY <3>2 DEF FlightHeld
    <3> QED
      BY <3>1, <3>3, <3>4
  <2>3. RowShape'
    BY <2>1, <2>2 DEF WInv, RowShape
  <2>4. CASE repoints
    <3>1. /\ by' = [by EXCEPT ![q.row] = IF by[q.row] = owner THEN by[q.row] ELSE None]
          /\ late' = IF owner # None /\ user[owner].disabled THEN late \cup {q.row} ELSE late \ {q.row}
          /\ reverted' = reverted \ {q.row} /\ q.new \in Steam
      BY <1>4, <2>2, <2>4 DEF EditWrite
    <3>2. TableTypeOK'
      BY <1>1, <2>1, <2>2, <3>1 DEF WInv, TableTypeOK
    <3>3. OwnerHeldSteamId'
      BY <2>1, <2>2, <2>4, <3>1, ConstantsAssumption DEF WInv, OwnerHeldSteamId, HeldByOwner, Rows
    <3>4. DisabledOwnsOnlyLateRows'
      BY <2>1, <2>4, <3>1 DEF WInv, DisabledOwnsOnlyLateRows, Rows
    <3> QED
      BY <1>1, <1>2, <2>3, <3>2, <3>3, <3>4 DEF WInv
  <2>5. CASE ~repoints
    <3>1. /\ UNCHANGED <<by, late>>
          /\ reverted' = IF q.new \notin {None, entry[q.row].steam} /\ entry[q.row].owner # None
                         THEN reverted \cup {q.row} ELSE reverted
      BY <1>4, <2>5 DEF EditWrite
    <3>2. TableTypeOK'
      BY <1>1, <2>1, <2>2, <3>1 DEF WInv, TableTypeOK
    <3>3. OwnerHeldSteamId'
      BY <2>1, <2>5, <3>1 DEF WInv, OwnerHeldSteamId, HeldByOwner, Rows
    <3>4. DisabledOwnsOnlyLateRows'
      BY <2>1, <2>5, <3>1 DEF WInv, DisabledOwnsOnlyLateRows, Rows
    <3> QED
      BY <1>1, <1>2, <2>3, <3>2, <3>3, <3>4 DEF WInv
  <2> QED
    BY <2>4, <2>5
<1> QED
  BY <1>3, <1>4

\* The updateMany of POST /whitelist/bulk-update, which edits several rows.
LEMMA BulkUpdateStep ==
  ASSUME WInv, NEW c \in Call, NEW E \in SUBSET Entry, NEW t \in Expiries \cup {"keep"},
         StartBulkUpdate(c, E, t)
  PROVE  WInv'
<1>. DEFINE q == [Idle EXCEPT !.op = "bulkUpdate", !.at = "sample", !.rows = E]
<1>1. q \in Flight /\ FlightShape(q) /\ FlightHeld(q, held')
  BY DEF Idle, Flight, Ops, Steps, FlightShape, FlightHeld
<1>2. call' = [call EXCEPT ![c] = q] /\ fired' = {} /\ UNCHANGED <<user, history>>
  BY DEF StartBulkUpdate, Start
<1>. HIDE DEF q
<1>3. CallShape' /\ call' \in [Call -> Flight]
  BY <1>1, <1>2, CallMoved DEF history
<1>4. \A e \in Entry : entry'[e] = IF e \in E THEN SetUntil(e, t) ELSE entry[e]
  BY DEF StartBulkUpdate
<1>5. \A e \in Entry : (IF e \in E THEN SetUntil(e, t) ELSE entry[e]) \in Row
  BY SetUntilType DEF WInv, TableTypeOK
<1>6. entry' \in [Entry -> Row]
  BY <1>5 DEF StartBulkUpdate
<1> QED
  BY <1>2, <1>3, <1>4, <1>6, SetUntilType, UntilStep

\* The deploy that ends it.
LEMMA SampleStep ==
  ASSUME WInv, NEW c \in Call, SampleDeploy(c)
  PROVE  WInv'
<1>1. SampleFrom(c) \subseteq Server
  BY DEF SampleFrom, Rows, WInv, RowShape
<1>2. fired' \subseteq Server \cup {All} /\ UNCHANGED <<user, entry, history>> /\ Finish(c)
  BY <1>1 DEF SampleDeploy
<1>3. CallShape' /\ call' \in [Call -> Flight]
  BY <1>2, FinishStep DEF history
<1> QED
  BY <1>2, <1>3, UntilStep DEF WInv, TableTypeOK

\* An expiry passing.
LEMMA ExpireStep ==
  ASSUME WInv, NEW e \in Entry, Expire(e)
  PROVE  WInv'
<1>1. entry[e] \in Row
  BY DEF WInv, TableTypeOK
<1>2. /\ entry' = [entry EXCEPT ![e] = [entry[e] EXCEPT !.until = "past"]]
      /\ [entry[e] EXCEPT !.until = "past"] \in Row
  BY <1>1 DEF Expire, Row, Until
<1>3. entry' \in [Entry -> Row]
  BY <1>2 DEF WInv, TableTypeOK
<1>4. \A r \in Entry : entry'[r] = IF r = e THEN [entry[e] EXCEPT !.until = "past"] ELSE entry[r]
  BY <1>2 DEF WInv, TableTypeOK
<1> QED
  BY <1>1, <1>3, <1>4, CallsKept, UntilStep DEF Expire, Row, history, WInv, TableTypeOK

\* Removing rows attributes nothing to anybody.
LEMMA RemoveStep ==
  ASSUME WInv, NEW E \in SUBSET Rows, Remove(E)
  PROVE  WInv'
<1>1. E \subseteq Entry /\ \A e \in E : entry[e].server \in Server
  BY DEF Rows, WInv, RowShape
<1>2. \A e \in Entry : entry'[e] = IF e \in E THEN NoRow ELSE entry[e]
  BY DEF Remove
<1>3. TableTypeOK'
  BY <1>1, NoRowType DEF Remove, WInv, TableTypeOK
<1>4. CallShape'
  BY CallsKept DEF Remove
<1>5. ~NoRow.there
  BY DEF NoRow
<1>6. RowShape' /\ MemberHeld' /\ OwnerHeldSteamId' /\ DisabledOwnsOnlyLateRows'
  BY <1>2, <1>5 DEF Remove, WInv, RowShape, MemberHeld, OwnerHeldSteamId, HeldByOwner, DisabledOwnsOnlyLateRows, Rows
<1> QED
  BY <1>3, <1>4, <1>6 DEF WInv

\* Renaming a clan changes no state modelled here.
LEMMA RenameStep ==
  ASSUME WInv, RenameClan
  PROVE  WInv'
<1>1. UNCHANGED <<user, entry, call, history>> /\ fired' \subseteq Server \cup {All}
  BY DEF RenameClan
<1> QED
  BY <1>1, CallsKept, UntilStep DEF WInv, TableTypeOK, RowShape, history

-----------------------------------------------------------------------------
(* The first statements of the handlers that take several.                 *)

\* Every handler starts with a well-formed call, and has looked up no owner yet.
LEMMA RequestStep ==
  ASSUME WInv, NEW c \in Call, Request(c)
  PROVE  WInv'
<1>. USE DEF Idle, Flight, Ops, Steps, FlightShape, FlightHeld
<1>1. ASSUME NEW s \in Steam, NEW v \in Server, StartAdd(c, s, v) PROVE WInv'
  BY <1>1, StartStep DEF StartAdd
<1>2. ASSUME NEW S \in Few(Steam), NEW v \in Server, StartBulkAdd(c, S, v) PROVE WInv'
  BY <1>2, StartStep DEF StartBulkAdd, Few
<1>3. ASSUME NEW e \in Entry, NEW s \in Steam \cup {None}, StartEdit(c, e, s) PROVE WInv'
  <2>1. entry[e].server \in Server /\ entry[e].steam \in Steam
    BY <1>3 DEF StartEdit, WInv, RowShape
  <2> QED
    BY <1>3, <2>1, StartStep DEF StartEdit
<1>4. ASSUME NEW u \in User, NEW s \in Steam \cup {None}, StartEditUser(c, u, s) PROVE WInv'
  <2>1. user[u].steam \in Steam \cup {None}
    BY DEF WInv, TableTypeOK, Account
  <2> QED
    BY <1>4, <2>1, StartStep DEF StartEditUser
<1>5. ASSUME NEW u \in User, NEW s \in Steam, StartLink(c, u, s) PROVE WInv'
  <2>1. user[u].steam \in Steam \cup {None}
    BY DEF WInv, TableTypeOK, Account
  <2> QED
    BY <1>5, <2>1, StartStep DEF StartLink
<1>6. ASSUME NEW u \in User, NEW s \in Steam, StartBackfill(c, u, s) PROVE WInv'
  BY <1>6, StartStep DEF StartBackfill
<1>7. ASSUME NEW E \in Few(Entry), NEW t \in Expiries \cup {"keep"}, StartBulkUpdate(c, E, t) PROVE WInv'
  BY <1>7, BulkUpdateStep DEF Few
<1> QED
  BY <1>1, <1>2, <1>3, <1>4, <1>5, <1>6, <1>7 DEF Request

-----------------------------------------------------------------------------
(* Members.                                                                *)

\* A newcomer owns nothing, is not disabled, and has held the Steam ID they start with.
LEMMA BornStep ==
  ASSUME WInv, NEW u \in User, NEW s \in Steam \cup {None}, Born(u, s)
  PROVE  WInv'
<1>. DEFINE new == [status |-> "there", disabled |-> FALSE, steam |-> s]
<1>1. new \in Account
  BY DEF Account
<1>2. held \subseteq held' /\ (s # None => <<u, s>> \in held') /\ held' \subseteq User \X Steam
  BY DEF Born, WInv, TableTypeOK
<1>3. user' \in [User -> Account] /\ \A w \in User : user'[w] = IF w = u THEN new ELSE user[w]
  BY <1>1 DEF Born, WInv, TableTypeOK
<1>4. TableTypeOK'
  BY <1>2, <1>3 DEF Born, WInv, TableTypeOK
<1>5. CallShape'
  BY <1>2, CallsKept DEF Born
<1>6. RowShape' /\ OwnerHeldSteamId'
  BY <1>2 DEF Born, WInv, RowShape, OwnerHeldSteamId, HeldByOwner, Rows
<1>7. MemberHeld'
  BY <1>2, <1>3 DEF WInv, MemberHeld
<1>8. DisabledOwnsOnlyLateRows'
  <2>1. \A e \in Entry : entry[e].owner \in User \cup {None}
    BY DEF WInv, TableTypeOK, Row
  <2> QED
    BY <1>3, <2>1 DEF Born, WInv, DisabledOwnsOnlyLateRows, Rows
<1> QED
  BY <1>4, <1>5, <1>6, <1>7, <1>8 DEF WInv

\* Disabling leaves no active row with the accounts it disables.
LEMMA DeactivateStep ==
  ASSUME WInv, NEW U \in SUBSET Members, Deactivate(U)
  PROVE  WInv'
<1>. DEFINE hit == {e \in Owned(U) : ~entry[e].dormant}
<1>1. /\ \A u \in User : user[u] \in Account
      /\ \A e \in Entry : entry[e] \in Row
  BY DEF WInv, TableTypeOK
<1>2. /\ \A u \in User : user'[u] = IF u \in U THEN [user[u] EXCEPT !.disabled = TRUE] ELSE user[u]
      /\ \A e \in Entry : entry'[e] = IF e \in hit THEN [entry[e] EXCEPT !.dormant = TRUE] ELSE entry[e]
  BY DEF Deactivate
<1>3. ASSUME NEW u \in User
      PROVE  /\ user'[u] \in Account
             /\ user'[u].steam = user[u].steam /\ user'[u].status = user[u].status
             /\ (u \in U => user'[u].disabled)
             /\ (u \notin U => user'[u].disabled = user[u].disabled)
  <2>1. CASE u \in U
    BY <1>1, <1>2, <2>1 DEF Account
  <2>2. CASE u \notin U
    BY <1>1, <1>2, <2>2
  <2> QED
    BY <2>1, <2>2
<1>4. ASSUME NEW e \in Entry
      PROVE  /\ entry'[e] \in Row
             /\ entry'[e].there = entry[e].there /\ entry'[e].steam = entry[e].steam
             /\ entry'[e].server = entry[e].server /\ entry'[e].owner = entry[e].owner
             /\ (e \in hit => entry'[e].dormant)
             /\ (e \notin hit => entry'[e] = entry[e])
  <2>. HIDE DEF hit
  <2>1. CASE e \in hit
    BY <1>1, <1>2, <2>1 DEF Row
  <2>2. CASE e \notin hit
    BY <1>1, <1>2, <2>2
  <2> QED
    BY <2>1, <2>2
<1>5. TableTypeOK'
  <2>1. user' \in [User -> Account]
    BY <1>2, <1>3, <1>4 DEF Deactivate
  <2>2. entry' \in [Entry -> Row]
    BY <1>2, <1>3, <1>4 DEF Deactivate
  <2>3. by' \in [Entry -> User \cup {None}]
    BY <1>1 DEF Deactivate, WInv, TableTypeOK, Row
  <2> QED
    BY <2>1, <2>2, <2>3 DEF Deactivate, WInv, TableTypeOK
<1>6. CallShape'
  BY CallsKept DEF Deactivate
<1>7. RowShape' /\ MemberHeld' /\ OwnerHeldSteamId'
  BY <1>3, <1>4 DEF Deactivate, WInv, RowShape, MemberHeld, OwnerHeldSteamId, HeldByOwner, Rows
<1>8. DisabledOwnsOnlyLateRows'
  <2>1. ASSUME NEW e \in Entry, entry'[e].there, entry'[e].owner # None,
               user'[entry'[e].owner].disabled, ~entry'[e].dormant
        PROVE  e \in late'
    <3>1. entry[e].owner \in User /\ entry[e].there /\ ~entry[e].dormant /\ e \notin hit
      BY <1>1, <1>3, <1>4, <2>1 DEF Row
    <3>2. entry[e].owner \notin U
      BY <3>1 DEF Owned, Rows
    <3>3. e \in late
      BY <1>3, <1>4, <2>1, <3>1, <3>2 DEF WInv, DisabledOwnsOnlyLateRows, Rows
    <3> QED
      BY <3>2, <3>3 DEF Deactivate, Owned
  <2> QED
    BY <2>1 DEF DisabledOwnsOnlyLateRows, Rows
<1> QED
  BY <1>5, <1>6, <1>7, <1>8 DEF WInv

\* Enabling disables nobody.
LEMMA ReactivateStep ==
  ASSUME WInv, NEW U \in SUBSET Members, Reactivate(U)
  PROVE  WInv'
<1>. DEFINE hit == {e \in Owned(U) : entry[e].dormant}
<1>1. /\ \A u \in User : user[u] \in Account
      /\ \A e \in Entry : entry[e] \in Row
  BY DEF WInv, TableTypeOK
<1>2. /\ \A u \in User : user'[u] = IF u \in U THEN [user[u] EXCEPT !.disabled = FALSE] ELSE user[u]
      /\ \A e \in Entry : entry'[e] = IF e \in hit THEN [entry[e] EXCEPT !.dormant = FALSE] ELSE entry[e]
  BY DEF Reactivate
<1>3. ASSUME NEW u \in User
      PROVE  /\ user'[u] \in Account
             /\ user'[u].steam = user[u].steam /\ user'[u].status = user[u].status
             /\ (u \in U => ~user'[u].disabled)
             /\ (u \notin U => user'[u].disabled = user[u].disabled)
  <2>1. CASE u \in U
    BY <1>1, <1>2, <2>1 DEF Account
  <2>2. CASE u \notin U
    BY <1>1, <1>2, <2>2
  <2> QED
    BY <2>1, <2>2
<1>4. ASSUME NEW e \in Entry
      PROVE  /\ entry'[e] \in Row
             /\ entry'[e].there = entry[e].there /\ entry'[e].steam = entry[e].steam
             /\ entry'[e].server = entry[e].server /\ entry'[e].owner = entry[e].owner
             /\ (e \in hit => ~entry'[e].dormant)
             /\ (e \notin hit => entry'[e] = entry[e])
  <2>. HIDE DEF hit
  <2>1. CASE e \in hit
    BY <1>1, <1>2, <2>1 DEF Row
  <2>2. CASE e \notin hit
    BY <1>1, <1>2, <2>2
  <2> QED
    BY <2>1, <2>2
<1>5. TableTypeOK'
  <2>1. user' \in [User -> Account]
    BY <1>2, <1>3, <1>4 DEF Reactivate
  <2>2. entry' \in [Entry -> Row]
    BY <1>2, <1>3, <1>4 DEF Reactivate
  <2>3. by' \in [Entry -> User \cup {None}]
    BY DEF Reactivate, WInv, TableTypeOK
  <2> QED
    BY <2>1, <2>2, <2>3 DEF Reactivate, WInv, TableTypeOK
<1>6. CallShape'
  BY CallsKept DEF Reactivate
<1>7. RowShape' /\ MemberHeld' /\ OwnerHeldSteamId'
  BY <1>3, <1>4 DEF Reactivate, WInv, RowShape, MemberHeld, OwnerHeldSteamId, HeldByOwner, Rows
<1>8. DisabledOwnsOnlyLateRows'
  <2>1. ASSUME NEW e \in Entry, entry'[e].there, entry'[e].owner # None,
               user'[entry'[e].owner].disabled, ~entry'[e].dormant
        PROVE  e \in late'
    <3>1. entry[e].owner \in User /\ entry[e].owner \notin U /\ user[entry[e].owner].disabled
      BY <1>1, <1>3, <1>4, <2>1 DEF Row
    <3>2. e \notin Owned(U)
      BY <3>1 DEF Owned
    <3>3. e \in late
      BY <1>3, <1>4, <2>1, <3>1, <3>2 DEF WInv, DisabledOwnsOnlyLateRows, Rows
    <3> QED
      BY <3>2, <3>3 DEF Reactivate
  <2> QED
    BY <2>1 DEF DisabledOwnsOnlyLateRows, Rows
<1> QED
  BY <1>5, <1>6, <1>7, <1>8 DEF WInv

\* The rows of a deleted member lose their owner, so nothing is claimed of them.
LEMMA RemoveUsersStep ==
  ASSUME WInv, NEW U \in SUBSET Members, RemoveUsers(U)
  PROVE  WInv'
<1>. DEFINE none == [status |-> "gone", disabled |-> FALSE, steam |-> None]
<1>1. /\ \A u \in User : user[u] \in Account
      /\ \A e \in Entry : entry[e] \in Row
      /\ none \in Account
  BY DEF WInv, TableTypeOK, Account
<1>2. /\ \A u \in User : user'[u] = IF u \in U THEN none ELSE user[u]
      /\ \A e \in Entry : entry'[e] = IF e \in Owned(U) THEN [entry[e] EXCEPT !.owner = None] ELSE entry[e]
  BY DEF RemoveUsers
<1>3. \A e \in Entry : /\ entry'[e] \in Row
                       /\ entry'[e].there = entry[e].there /\ entry'[e].steam = entry[e].steam
                       /\ entry'[e].server = entry[e].server /\ entry'[e].dormant = entry[e].dormant
                       /\ entry'[e].owner = IF e \in Owned(U) THEN None ELSE entry[e].owner
  BY <1>1, <1>2 DEF Row
<1>4. TableTypeOK'
  <2>1. user' \in [User -> Account]
    BY <1>1, <1>2 DEF RemoveUsers
  <2>2. entry' \in [Entry -> Row]
    BY <1>2, <1>3 DEF RemoveUsers
  <2> QED
    BY <2>1, <2>2 DEF RemoveUsers, WInv, TableTypeOK
<1>5. CallShape'
  BY CallsKept DEF RemoveUsers
<1>6. RowShape' /\ OwnerHeldSteamId'
  BY <1>3 DEF RemoveUsers, WInv, RowShape, OwnerHeldSteamId, HeldByOwner, Rows
<1>7. MemberHeld'
  BY <1>2 DEF RemoveUsers, WInv, MemberHeld
<1>8. DisabledOwnsOnlyLateRows'
  <2>1. ASSUME NEW e \in Entry, entry'[e].there, entry'[e].owner # None,
               user'[entry'[e].owner].disabled, ~entry'[e].dormant
        PROVE  e \in late'
    <3>1. e \notin Owned(U) /\ entry[e].owner = entry'[e].owner /\ entry[e].owner \in User
      BY <1>1, <1>3, <2>1 DEF Row
    <3>2. entry[e].owner \notin U
      BY <1>3, <2>1, <3>1 DEF Owned, Rows
    <3>3. e \in late
      BY <1>2, <1>3, <2>1, <3>1, <3>2 DEF WInv, DisabledOwnsOnlyLateRows, Rows
    <3> QED
      BY <3>1, <3>3 DEF RemoveUsers
  <2> QED
    BY <2>1 DEF DisabledOwnsOnlyLateRows, Rows
<1> QED
  BY <1>4, <1>5, <1>6, <1>7, <1>8 DEF WInv

-----------------------------------------------------------------------------
(* Steam IDs of members, and relinkWhitelistEntries.                       *)

\* A member's new Steam ID is added to the ones they have held.
LEMMA SetSteamStep ==
  ASSUME WInv, NEW u \in User, NEW s \in Steam \cup {None}, SetSteam(u, s)
  PROVE  /\ user' \in [User -> Account]
         /\ held \subseteq held' /\ held' \subseteq User \X Steam
         /\ s # None => <<u, s>> \in held'
         /\ \A w \in User : user'[w].disabled = user[w].disabled
         /\ MemberHeld'
<1>. DEFINE new == [user[u] EXCEPT !.steam = s]
<1>1. user[u] \in Account
  BY DEF WInv, TableTypeOK
<1>2. /\ new \in Account /\ new.disabled = user[u].disabled
      /\ new.steam = s /\ new.status = user[u].status
  BY <1>1 DEF Account
<1>3. user' = [user EXCEPT ![u] = new]
  BY DEF SetSteam, WInv, TableTypeOK
<1>. HIDE DEF new
<1>4. user' \in [User -> Account] /\ \A w \in User : user'[w] = IF w = u THEN new ELSE user[w]
  BY <1>2, <1>3 DEF WInv, TableTypeOK
<1>5. held \subseteq held' /\ held' \subseteq User \X Steam /\ (s # None => <<u, s>> \in held')
  BY DEF SetSteam, WInv, TableTypeOK
<1>6. \A w \in User : user'[w].disabled = user[w].disabled
  BY <1>2, <1>4
<1>7. MemberHeld'
  BY <1>2, <1>4, <1>5 DEF WInv, MemberHeld
<1> QED
  BY <1>4, <1>5, <1>6, <1>7

\* What rows need while members' Steam IDs change and nothing else does.
LEMMA RowsKept ==
  ASSUME WInv, UNCHANGED <<entry, late, reverted>>, held \subseteq held',
         \A w \in User : user'[w].disabled = user[w].disabled
  PROVE  RowShape' /\ OwnerHeldSteamId' /\ DisabledOwnsOnlyLateRows'
<1>1. \A e \in Entry : entry[e].owner \in User \cup {None}
  BY DEF WInv, TableTypeOK, Row
<1> QED
  BY <1>1 DEF WInv, RowShape, OwnerHeldSteamId, HeldByOwner, DisabledOwnsOnlyLateRows, Rows

\* A call that goes on to its next statement is the same call at that statement.
LEMMA GotoStep ==
  ASSUME WInv, NEW c \in Call, NEW step \in Steps, Goto(c, step)
  PROVE  /\ [call[c] EXCEPT !.at = step] \in Flight
         /\ call' = [call EXCEPT ![c] = [call[c] EXCEPT !.at = step]]
<1>1. call[c] \in Flight
  BY DEF WInv, TableTypeOK
<1> QED
  BY <1>1 DEF Goto, WInv, TableTypeOK, Flight

\* The update of a member's Steam ID, before the relink.
LEMMA WriteSteamStep ==
  ASSUME WInv, NEW c \in Call, WriteSteam(c)
  PROVE  WInv'
<1>. DEFINE q == call[c]
            next == [q EXCEPT !.at = "unlink"]
<1>1. q \in Flight /\ q.op = "relink" /\ q.user \in User /\ q.new \in Steam \cup {None}
  BY DEF WriteSteam, WInv, TableTypeOK, CallShape, FlightShape, Flight
<1>2. fired' = {} /\ UNCHANGED <<entry, by, late, reverted>>
  BY DEF WriteSteam
<1>3. CASE Finish(c) /\ UNCHANGED <<user, held>>
  <2>1. CallShape' /\ call' \in [Call -> Flight]
    BY <1>3, FinishStep
  <2>2. RowShape' /\ OwnerHeldSteamId' /\ DisabledOwnsOnlyLateRows' /\ MemberHeld'
    BY <1>2, <1>3, RowsKept DEF WInv, MemberHeld
  <2> QED
    BY <1>2, <1>3, <2>1, <2>2 DEF WInv, TableTypeOK
<1>4. CASE Goto(c, "unlink") /\ SetSteam(q.user, q.new)
  <2>1. /\ user' \in [User -> Account]
        /\ held \subseteq held' /\ held' \subseteq User \X Steam
        /\ q.new # None => <<q.user, q.new>> \in held'
        /\ \A w \in User : user'[w].disabled = user[w].disabled
        /\ MemberHeld'
    BY <1>1, <1>4, SetSteamStep
  <2>2. next \in Flight /\ call' = [call EXCEPT ![c] = next]
    BY <1>4, GotoStep DEF Steps
  <2>3. /\ next.op = q.op /\ next.user = q.user /\ next.new = q.new
        /\ next.found = q.found /\ next.at = "unlink"
    BY <1>1 DEF Flight
  <2>4. FlightShape(next) /\ FlightHeld(next, held')
    <3>1. FlightHeld(q, held)
      BY DEF WInv, CallShape
    <3> HIDE DEF next
    <3> QED
      BY <1>1, <2>1, <2>3, <3>1 DEF FlightShape, FlightHeld
  <2>5. CallShape' /\ call' \in [Call -> Flight]
    <3> HIDE DEF next
    <3> QED
      BY <2>1, <2>2, <2>4, CallMoved
  <2>6. RowShape' /\ OwnerHeldSteamId' /\ DisabledOwnsOnlyLateRows'
    BY <1>2, <2>1, RowsKept
  <2> QED
    BY <1>2, <2>1, <2>5, <2>6 DEF WInv, TableTypeOK
<1> QED
  BY <1>3, <1>4 DEF WriteSteam

\* The prospect job's update of a member's Steam ID.
LEMMA BackfillStep ==
  ASSUME WInv, NEW c \in Call, BackfillWrite(c)
  PROVE  WInv'
<1>. DEFINE q == call[c]
<1>1. q.user \in User /\ q.new \in Steam \cup {None}
  BY DEF BackfillWrite, WInv, TableTypeOK, CallShape, FlightShape, Flight
<1>2. fired' = {} /\ UNCHANGED <<entry, by, late, reverted>> /\ Finish(c)
  BY DEF BackfillWrite
<1>3. /\ user' \in [User -> Account]
      /\ held \subseteq held' /\ held' \subseteq User \X Steam
      /\ \A w \in User : user'[w].disabled = user[w].disabled
      /\ MemberHeld'
  <2>1. CASE SetSteam(q.user, q.new)
    BY <1>1, <2>1, SetSteamStep
  <2>2. CASE UNCHANGED <<user, held>>
    BY <2>2 DEF WInv, TableTypeOK, MemberHeld
  <2> QED
    BY <2>1, <2>2 DEF BackfillWrite
<1>4. CallShape' /\ call' \in [Call -> Flight]
  BY <1>2, <1>3, FinishStep
<1>5. RowShape' /\ OwnerHeldSteamId' /\ DisabledOwnsOnlyLateRows'
  BY <1>2, <1>3, RowsKept
<1> QED
  BY <1>2, <1>3, <1>4, <1>5 DEF WInv, TableTypeOK

\* The first statement of a relink takes owners away.
LEMMA UnlinkStep ==
  ASSUME WInv, NEW c \in Call, Unlink(c)
  PROVE  WInv'
<1>. DEFINE q == call[c]
            next == [q EXCEPT !.at = "link"]
            hit == IF q.old # None /\ q.old # q.new
                   THEN {e \in Owned({q.user}) : entry[e].steam # q.new} ELSE {}
<1>1. q \in Flight /\ q.op = "relink" /\ FlightShape(q) /\ FlightHeld(q, held) /\ q.at = "unlink"
  BY DEF Unlink, WInv, TableTypeOK, CallShape, FlightShape
<1>2. fired' = {} /\ UNCHANGED <<user, by, held>> /\ late' = late \ hit /\ reverted' = reverted \ hit
  BY DEF Unlink
<1>3. \A e \in Entry : entry'[e] = IF e \in hit THEN [entry[e] EXCEPT !.owner = None] ELSE entry[e]
  BY DEF Unlink
<1>4. ASSUME NEW e \in Entry
      PROVE  /\ entry'[e] \in Row
             /\ entry'[e].there = entry[e].there /\ entry'[e].steam = entry[e].steam
             /\ entry'[e].server = entry[e].server
             /\ (e \in hit => entry'[e].owner = None)
             /\ (e \notin hit => entry'[e] = entry[e])
  <2>. HIDE DEF hit
  <2>1. entry[e] \in Row
    BY DEF WInv, TableTypeOK
  <2>2. CASE e \in hit
    BY <1>3, <2>1, <2>2 DEF Row
  <2>3. CASE e \notin hit
    BY <1>3, <2>1, <2>3
  <2> QED
    BY <2>2, <2>3
<1>5. next \in Flight /\ call' = [call EXCEPT ![c] = next]
  BY GotoStep DEF Unlink, Steps
<1>6. FlightShape(next) /\ FlightHeld(next, held')
  BY <1>1, <1>2 DEF FlightShape, FlightHeld, Flight
<1>7. CallShape' /\ call' \in [Call -> Flight]
  <2> HIDE DEF next
  <2> QED
    BY <1>2, <1>5, <1>6, CallMoved
<1>8. TableTypeOK'
  <2>1. entry' \in [Entry -> Row]
    BY <1>3, <1>4 DEF Unlink
  <2> QED
    BY <1>2, <1>7, <2>1 DEF WInv, TableTypeOK
<1>9. RowShape' /\ MemberHeld' /\ OwnerHeldSteamId'
  BY <1>2, <1>4 DEF WInv, RowShape, MemberHeld, OwnerHeldSteamId, HeldByOwner, Rows
<1>10. DisabledOwnsOnlyLateRows'
  BY <1>2, <1>4 DEF WInv, DisabledOwnsOnlyLateRows, Rows
<1> QED
  BY <1>7, <1>8, <1>9, <1>10 DEF WInv

\* The second gives rows of a Steam ID to the member who was given it; if that member
\* is disabled they are recorded as late.
LEMMA LinkStep ==
  ASSUME WInv, NEW c \in Call, Link(c)
  PROVE  WInv'
<1>. DEFINE q == call[c]
            hit == IF q.new # None /\ q.user \in Members
                   THEN {e \in Rows : entry[e].steam = q.new /\ entry[e].owner = None} ELSE {}
<1>1. /\ q \in Flight /\ q.user \in User
      /\ (q.new # None => <<q.user, q.new>> \in held)
  BY DEF Link, WInv, TableTypeOK, CallShape, FlightShape, FlightHeld
<1>2. /\ fired' = {} /\ UNCHANGED <<user, held, reverted>> /\ Finish(c)
      /\ by' \in [Entry -> User \cup {None}]
  BY DEF Link, WInv, TableTypeOK
<1>3. \A e \in Entry : entry'[e] = IF e \in hit THEN [entry[e] EXCEPT !.owner = q.user] ELSE entry[e]
  BY DEF Link
<1>4. ASSUME NEW e \in Entry
      PROVE  /\ entry'[e] \in Row
             /\ entry'[e].there = entry[e].there /\ entry'[e].steam = entry[e].steam
             /\ entry'[e].server = entry[e].server
             /\ (e \in hit => entry'[e].owner = q.user)
             /\ (e \notin hit => entry'[e] = entry[e])
  <2>. HIDE DEF hit
  <2>1. entry[e] \in Row
    BY DEF WInv, TableTypeOK
  <2>2. CASE e \in hit
    BY <1>1, <1>3, <2>1, <2>2 DEF Row
  <2>3. CASE e \notin hit
    BY <1>3, <2>1, <2>3
  <2> QED
    BY <2>2, <2>3
<1>5. late' = IF q.user \in Members /\ user[q.user].disabled THEN late \cup hit ELSE late \ hit
  BY DEF Link
<1>6. CallShape' /\ call' \in [Call -> Flight]
  BY <1>2, FinishStep
<1>7. \A e \in hit : e \in Entry /\ q.user \in Members /\ q.new # None /\ entry[e].steam = q.new
  BY DEF Rows
<1>8. TableTypeOK'
  <2>1. entry' \in [Entry -> Row]
    BY <1>3, <1>4 DEF Link
  <2>2. late' \subseteq Entry
    BY <1>5, <1>7 DEF WInv, TableTypeOK
  <2> QED
    BY <1>2, <1>6, <2>1, <2>2 DEF WInv, TableTypeOK
<1>. HIDE DEF hit
<1>9. RowShape' /\ MemberHeld'
  BY <1>2, <1>4 DEF WInv, RowShape, MemberHeld
<1>10. OwnerHeldSteamId'
  BY <1>1, <1>2, <1>4, <1>7 DEF WInv, OwnerHeldSteamId, HeldByOwner, Rows
<1>11. DisabledOwnsOnlyLateRows'
  BY <1>2, <1>4, <1>5, <1>7 DEF WInv, DisabledOwnsOnlyLateRows, Rows
<1> QED
  BY <1>6, <1>8, <1>9, <1>10, <1>11 DEF WInv

-----------------------------------------------------------------------------
(* The theorems.                                                           *)

\* Handlers that finish in one statement preserve the invariant.
LEMMA HandlerStep ==
  ASSUME WInv, Handler
  PROVE  WInv'
<1>1. ASSUME NEW u \in User, SignIn(u) \/ Disable(u) \/ Enable(u) \/ DeleteUser(u)
      PROVE  WInv'
  <2>1. CASE SignIn(u)
    BY <2>1, BornStep DEF SignIn
  <2>2. CASE Disable(u)
    BY <2>2, DeactivateStep DEF Disable
  <2>3. CASE Enable(u)
    BY <2>3, ReactivateStep DEF Enable
  <2>4. CASE DeleteUser(u)
    BY <2>4, RemoveUsersStep DEF DeleteUser
  <2> QED
    BY <1>1, <2>1, <2>2, <2>3, <2>4
<1>2. ASSUME NEW U \in Few(User), BulkDisable(U) \/ BulkEnable(U) \/ BulkDeleteUsers(U)
      PROVE  WInv'
  BY <1>2, DeactivateStep, ReactivateStep, RemoveUsersStep
     DEF BulkDisable, BulkEnable, BulkDeleteUsers
<1>3. ASSUME NEW u \in User, NEW s \in Steam, CreateMember(u, s)
      PROVE  WInv'
  BY <1>3, BornStep DEF CreateMember
<1>4. ASSUME NEW e \in Entry, DeleteEntry(e)
      PROVE  WInv'
  BY <1>4, RemoveStep DEF DeleteEntry, Rows
<1>5. ASSUME NEW E \in Few(Entry), BulkDelete(E)
      PROVE  WInv'
  BY <1>5, RemoveStep DEF BulkDelete
<1> QED
  BY <1>1, <1>2, <1>3, <1>4, <1>5, RenameStep DEF Handler

\* WInv holds at the start and is preserved by every step.
LEMMA Inductive ==
  /\ Init => WInv
  /\ WInv /\ [Next]_vars => WInv'
<1>1. Init => WInv
  <2>. SUFFICES ASSUME Init PROVE WInv
    OBVIOUS
  <2>1. TableTypeOK
    <3>1. user \in [User -> Account]
      BY DEF Init, Account
    <3>2. entry \in [Entry -> Row] /\ call \in [Call -> Flight]
      BY IdleType, NoRowType DEF Init
    <3> QED
      BY <3>1, <3>2 DEF Init, TableTypeOK
  <2>2. CallShape
    BY IdleType DEF Init, CallShape
  <2>3. RowShape /\ MemberHeld /\ OwnerHeldSteamId /\ DisabledOwnsOnlyLateRows
    BY DEF Init, RowShape, MemberHeld, OwnerHeldSteamId, HeldByOwner, DisabledOwnsOnlyLateRows, Rows, NoRow
  <2> QED
    BY <2>1, <2>2, <2>3 DEF WInv
<1>2. ASSUME WInv, [Next]_vars PROVE WInv'
  <2>1. CASE Handler
    BY <1>2, <2>1, HandlerStep
  <2>2. ASSUME NEW c \in Call, Request(c) PROVE WInv'
    BY <1>2, <2>2, RequestStep
  <2>3. ASSUME NEW c \in Call, Continue(c) PROVE WInv'
    BY <1>2, <2>3, LookupStep, AddStep, BulkAddStep, EditStep, SampleStep, WriteSteamStep,
       UnlinkStep, LinkStep, BackfillStep DEF Continue
  <2>4. CASE UNCHANGED vars
    <3>1. UNCHANGED <<user, entry, call, history>> /\ fired' = fired
      BY <2>4 DEF vars, history
    <3> QED
      BY <1>2, <3>1, CallsKept, UntilStep DEF WInv, TableTypeOK, history
  <2>5. ASSUME NEW e \in Entry, Expire(e) PROVE WInv'
    BY <1>2, <2>5, ExpireStep
  <2> QED
    BY <1>2, <2>1, <2>2, <2>3, <2>4, <2>5 DEF Next
<1> QED
  BY <1>1, <1>2

\* Every reachable state is well typed: in particular no handler in flight ever leads
\* to a row, an owner or a deploy scope outside the database's own ids.
THEOREM TypeCorrect == Spec => []TypeOK
<1> DEFINE OwedType == owed \in [Server -> {"nothing", "deploy", "skipped"}]
<1>1. Init => OwedType
  BY DEF Init
<1>2. OwedType /\ [Next]_vars => OwedType'
  <2> SUFFICES ASSUME OwedType, [Next]_vars  PROVE OwedType'
    OBVIOUS
  <2>1. CASE Owe
    BY <2>1 DEF Owe
  <2>2. CASE UNCHANGED owed
    BY <2>2
  <2> QED
    BY <2>1, <2>2 DEF Next, vars
<1>3. WInv /\ OwedType => TypeOK
  BY DEF WInv, TableTypeOK, TypeOK
<1> QED
  BY <1>1, <1>2, <1>3, Inductive, PTL DEF Spec

\* However the lookups, relinks, creates, edits and background jobs interleave, a whitelist
\* row belongs to a member who has held its Steam ID (or to nobody), unless an edit gave it
\* back the Steam ID it had before it was repointed.
THEOREM OwnersAreHolders == Spec => []OwnerHeldSteamId
<1>1. WInv => OwnerHeldSteamId
  BY DEF WInv
<1> QED
  BY <1>1, Inductive, PTL DEF Spec

\* Disabling leaves no row active, single or in bulk: what a disabled member owns and
\* is still active was attached to them afterwards.
THEOREM DisablingIsComplete == Spec => []DisabledOwnsOnlyLateRows
<1>1. WInv => DisabledOwnsOnlyLateRows
  BY DEF WInv
<1> QED
  BY <1>1, Inductive, PTL DEF Spec

-----------------------------------------------------------------------------
(* The unique index on (steamId, server).                                  *)

SlotsAreUnique ==
  \A e, f \in Rows : entry[e].steam = entry[f].steam /\ entry[e].server = entry[f].server => e = f

\* The row an edit in flight has read is on the server it has read, if it is still there.
EditsInPlace ==
  \A c \in Call : call[c].op = "edit" /\ entry[call[c].row].there
                    => entry[call[c].row].server = call[c].server

SlotInv == WInv /\ SlotsAreUnique /\ EditsInPlace

\* Rows keep their slot or go.
RowsStay ==
  \A e \in Entry : entry'[e].there =>
    entry[e].there /\ entry'[e].steam = entry[e].steam /\ entry'[e].server = entry[e].server

\* No edit starts.
NoNewEdit ==
  \A c \in Call : call'[c].op = "edit" =>
    call[c].op = "edit" /\ call'[c].row = call[c].row /\ call'[c].server = call[c].server

\* A step of neither kind keeps the slots.
LEMMA SlotsKept ==
  ASSUME SlotInv, RowsStay, NoNewEdit
  PROVE  SlotsAreUnique' /\ EditsInPlace'
<1>1. SlotsAreUnique'
  BY DEF SlotInv, SlotsAreUnique, Rows, RowsStay
<1>2. \A c \in Call : call[c].op = "edit" => call[c].row \in Entry
  BY DEF SlotInv, WInv, CallShape, FlightShape
<1> QED
  BY <1>1, <1>2 DEF SlotInv, EditsInPlace, RowsStay, NoNewEdit

\* A create inserts rows in free slots, each with a Steam ID of its own.
LEMMA InsertKeepsSlots ==
  ASSUME SlotsAreUnique, NEW c \in Call, NEW S \in SUBSET Creatable(c),
         NEW id \in [S -> Entry], NEW t, Insert(c, S, id, t)
  PROVE  SlotsAreUnique'
<1> DEFINE mine(e) == CHOOSE s \in S : id[s] = e
<1>1. \A e \in Entry : entry'[e] = IF \E s \in S : id[s] = e THEN NewRow(c, mine(e), t) ELSE entry[e]
  BY DEF Insert
<1>2. \A e \in Entry : (\E s \in S : id[s] = e) => mine(e) \in S /\ id[mine(e)] = e
  OBVIOUS
<1> HIDE DEF mine
<1>3. \A s : NewRow(c, s, t).steam = s /\ NewRow(c, s, t).server = call[c].server
  BY DEF NewRow
<1>4. \A s \in S, e \in Rows : ~(entry[e].steam = s /\ entry[e].server = call[c].server)
  BY DEF Creatable, Taken
<1> SUFFICES ASSUME NEW e \in Rows', NEW f \in Rows', entry'[e].steam = entry'[f].steam,
                    entry'[e].server = entry'[f].server
             PROVE  e = f
  BY DEF SlotsAreUnique
<1>5. e \in Entry /\ f \in Entry /\ entry'[e].there /\ entry'[f].there
  BY DEF Rows
<1>6. CASE (\E s \in S : id[s] = e) /\ (\E s \in S : id[s] = f)
  BY <1>1, <1>2, <1>3, <1>5, <1>6
<1>7. CASE ~(\E s \in S : id[s] = e) /\ ~(\E s \in S : id[s] = f)
  BY <1>1, <1>5, <1>7 DEF SlotsAreUnique, Rows
<1>8. CASE (\E s \in S : id[s] = e) /\ ~(\E s \in S : id[s] = f)
  BY <1>1, <1>2, <1>3, <1>4, <1>5, <1>8 DEF Rows
<1>9. CASE ~(\E s \in S : id[s] = e) /\ (\E s \in S : id[s] = f)
  BY <1>1, <1>2, <1>3, <1>4, <1>5, <1>9 DEF Rows
<1> QED
  BY <1>6, <1>7, <1>8, <1>9

\* The rest of a create: no edit in flight has the id of a new row.
LEMMA InsertStaysInPlace ==
  ASSUME SlotInv, NEW c \in Call, NEW S \in SUBSET Creatable(c), NEW id \in [S -> Entry],
         NEW t, Insert(c, S, id, t), Finish(c)
  PROVE  EditsInPlace'
<1>1. call' = [call EXCEPT ![c] = Idle] /\ call \in [Call -> Flight] /\ Idle.op = "idle"
  BY DEF Finish, SlotInv, WInv, TableTypeOK, Idle
<1> SUFFICES ASSUME NEW d \in Call, call'[d].op = "edit", entry'[call'[d].row].there
             PROVE  entry'[call'[d].row].server = call'[d].server
  BY DEF EditsInPlace
<1>2. d # c /\ call'[d] = call[d]
  BY <1>1
<1>3. call[d].row \in Entry
  BY <1>2 DEF SlotInv, WInv, CallShape, FlightShape
<1>4. \A s \in S : id[s] # call[d].row
  BY DEF Insert, Fresh
<1>5. entry'[call[d].row] = entry[call[d].row]
  BY <1>3, <1>4 DEF Insert
<1> QED
  BY <1>2, <1>5 DEF SlotInv, EditsInPlace

\* An edited row keeps its slot, or takes one that no other row has.
LEMMA EditKeepsSlots ==
  ASSUME SlotInv, NEW c \in Call, NEW t \in Expiries \cup {"keep"}, EditWrite(c, t)
  PROVE  SlotsAreUnique' /\ EditsInPlace'
<1> DEFINE q == call[c]
<1>1. entry \in [Entry -> Row] /\ call \in [Call -> Flight]
  BY DEF SlotInv, WInv, TableTypeOK
<1>2. NoNewEdit
  BY <1>1 DEF EditWrite, Finish, NoNewEdit, Idle
<1>3. CASE ~Editable(q)
  <2>1. UNCHANGED entry
    BY <1>3 DEF EditWrite
  <2> QED
    BY <1>2, <2>1, SlotsKept DEF RowsStay
<1>4. CASE Editable(q)
  <2>1. /\ q.row \in Entry /\ entry[q.row].there
        /\ \A e \in Entry \ {q.row} : entry'[e] = entry[e]
        /\ entry'[q.row].steam = IF q.new = None THEN entry[q.row].steam ELSE q.new
        /\ entry'[q.row].server = entry[q.row].server
    BY <1>4, EditedRow DEF SlotInv
  <2>2. /\ \A e \in Rows \ {q.row} : ~(entry[e].steam = q.new /\ entry[e].server = q.server)
        /\ entry[q.row].server = q.server
    BY <1>4, <2>1 DEF EditWrite, Editable, SlotInv, EditsInPlace
  <2> HIDE DEF q
  <2>3. CASE q.new = None
    <3>1. RowsStay
      BY <2>1, <2>3 DEF RowsStay
    <3> QED
      BY <1>2, <3>1, SlotsKept
  <2>4. CASE q.new # None
    <3>1. SlotsAreUnique'
      <4> SUFFICES ASSUME NEW e \in Rows', NEW f \in Rows', entry'[e].steam = entry'[f].steam,
                          entry'[e].server = entry'[f].server
                   PROVE  e = f
        BY DEF SlotsAreUnique
      <4>1. /\ e \in Rows /\ f \in Rows /\ entry[e].server = entry[f].server
            /\ e # q.row => entry'[e] = entry[e]
            /\ f # q.row => entry'[f] = entry[f]
        BY <2>1 DEF Rows
      <4>2. CASE e # q.row /\ f # q.row
        BY <4>1, <4>2 DEF SlotInv, SlotsAreUnique
      <4>3. CASE e = q.row /\ f # q.row
        BY <2>1, <2>2, <2>4, <4>1, <4>3
      <4>4. CASE e # q.row /\ f = q.row
        BY <2>1, <2>2, <2>4, <4>1, <4>4
      <4> QED
        BY <4>2, <4>3, <4>4
    <3>2. \A d \in Call : call[d].op = "edit" => call[d].row \in Entry
      BY DEF SlotInv, WInv, CallShape, FlightShape
    <3>3. \A e \in Entry : entry'[e].there => entry[e].there /\ entry'[e].server = entry[e].server
      BY <2>1
    <3>4. EditsInPlace'
      BY <1>2, <3>2, <3>3 DEF SlotInv, EditsInPlace, NoNewEdit
    <3> QED
      BY <3>1, <3>4
  <2> QED
    BY <2>3, <2>4
<1> QED
  BY <1>3, <1>4

\* The rows and their slots, under every step of the handlers.
LEMMA SlotStep ==
  ASSUME SlotInv, Next
  PROVE  SlotsAreUnique' /\ EditsInPlace'
<1>0. entry \in [Entry -> Row] /\ call \in [Call -> Flight]
  BY DEF SlotInv, WInv, TableTypeOK
<1>1. ASSUME Handler PROVE RowsStay /\ UNCHANGED call
  <2>1. ASSUME NEW u \in User, NEW s, Born(u, s) PROVE RowsStay /\ UNCHANGED call
    BY <2>1 DEF Born, RowsStay
  <2>2. ASSUME NEW U, Deactivate(U) PROVE RowsStay /\ UNCHANGED call
    BY <1>0, <2>2 DEF Deactivate, RowsStay, Row
  <2>3. ASSUME NEW U, Reactivate(U) PROVE RowsStay /\ UNCHANGED call
    BY <1>0, <2>3 DEF Reactivate, RowsStay, Row
  <2>4. ASSUME NEW U, RemoveUsers(U) PROVE RowsStay /\ UNCHANGED call
    BY <1>0, <2>4 DEF RemoveUsers, RowsStay, Row
  <2>5. ASSUME NEW E, Remove(E) PROVE RowsStay /\ UNCHANGED call
    BY <1>0, <2>5 DEF Remove, RowsStay, NoRow
  <2>6. ASSUME RenameClan PROVE RowsStay /\ UNCHANGED call
    BY <2>6 DEF RenameClan, RowsStay
  <2> QED
    BY <1>1, <2>1, <2>2, <2>3, <2>4, <2>5, <2>6
       DEF Handler, SignIn, CreateMember, Disable, Enable, DeleteUser, BulkDisable,
           BulkEnable, BulkDeleteUsers, DeleteEntry, BulkDelete
<1>2. CASE Handler
  BY <1>1, <1>2, SlotsKept DEF NoNewEdit
<1>3. ASSUME NEW c \in Call, Request(c) PROVE SlotsAreUnique' /\ EditsInPlace'
  <2> DEFINE Starts == call'[c].op # "edit" /\ \A d \in Call : d # c => call'[d] = call[d]
  <2>1. RowsStay
    <3>1. \A e \in Entry, t \in Expiries \cup {"keep"} :
             /\ SetUntil(e, t).there = entry[e].there
             /\ SetUntil(e, t).steam = entry[e].steam
             /\ SetUntil(e, t).server = entry[e].server
      BY SetUntilType DEF SlotInv
    <3>2. ASSUME NEW E \in Few(Entry), NEW t \in Expiries \cup {"keep"}, StartBulkUpdate(c, E, t)
          PROVE  RowsStay
      BY <3>1, <3>2 DEF StartBulkUpdate, RowsStay
    <3>3. CASE UNCHANGED entry
      BY <3>3 DEF RowsStay
    <3> QED
      BY <1>3, <3>2, <3>3
         DEF Request, StartAdd, StartBulkAdd, StartEdit, StartLink, StartBackfill, StartEditUser
  <2>2. ASSUME NEW e \in Entry, NEW s \in Steam \cup {None}, StartEdit(c, e, s)
        PROVE  SlotsAreUnique' /\ EditsInPlace'
    <3>1. /\ \A d \in Call : d # c => call'[d] = call[d]
          /\ call'[c].row = e /\ call'[c].server = entry[e].server
          /\ UNCHANGED entry
      BY <1>0, <2>2 DEF StartEdit, Start, Idle
    <3> QED
      BY <3>1 DEF SlotInv, SlotsAreUnique, Rows, EditsInPlace
  <2>3. CASE ~\E e \in Entry, s \in Steam \cup {None} : StartEdit(c, e, s)
    <3>a. \A s \in Steam, v \in Server : StartAdd(c, s, v) => Starts
      BY <1>0 DEF StartAdd, Start, Idle
    <3>b. \A S \in Few(Steam), v \in Server : StartBulkAdd(c, S, v) => Starts
      BY <1>0 DEF StartBulkAdd, Start, Idle
    <3>c. \A u \in User, s \in Steam : StartLink(c, u, s) => Starts
      BY <1>0 DEF StartLink, Start, Idle
    <3>d. \A u \in User, s \in Steam : StartBackfill(c, u, s) => Starts
      BY <1>0 DEF StartBackfill, Start, Idle
    <3>e. \A u \in User, s \in Steam \cup {None} : StartEditUser(c, u, s) => Starts
      BY <1>0 DEF StartEditUser, Start, Idle
    <3>f. \A E \in Few(Entry), t \in Expiries \cup {"keep"} : StartBulkUpdate(c, E, t) => Starts
      BY <1>0 DEF StartBulkUpdate, Start, Idle
    <3>1. Starts
      BY <1>3, <2>3, <3>a, <3>b, <3>c, <3>d, <3>e, <3>f DEF Request
    <3>2. NoNewEdit
      BY <3>1 DEF NoNewEdit
    <3> QED
      BY <2>1, <3>2, SlotsKept
  <2> QED
    BY <2>2, <2>3
<1>4. ASSUME NEW c \in Call, Continue(c) PROVE SlotsAreUnique' /\ EditsInPlace'
  <2>1. ASSUME NEW t \in Expiries, AddWrite(c, t) PROVE SlotsAreUnique' /\ EditsInPlace'
    <3>1. CASE Creatable(c) = call[c].steams
      <4>1. PICK id \in [Creatable(c) -> Entry] : Insert(c, Creatable(c), id, t)
        BY <2>1, <3>1 DEF AddWrite
      <4> QED
        BY <2>1, <4>1, InsertKeepsSlots, InsertStaysInPlace DEF AddWrite, SlotInv
    <3>2. CASE Creatable(c) # call[c].steams
      <4>1. UNCHANGED entry /\ NoNewEdit
        BY <1>0, <2>1, <3>2 DEF AddWrite, Finish, Idle, NoNewEdit
      <4> QED
        BY <4>1, SlotsKept DEF RowsStay
    <3> QED
      BY <3>1, <3>2
  <2>2. ASSUME BulkAddWrite(c) PROVE SlotsAreUnique' /\ EditsInPlace'
    <3>1. PICK id \in [Creatable(c) -> Entry] : Insert(c, Creatable(c), id, "never")
      BY <2>2 DEF BulkAddWrite
    <3> QED
      BY <2>2, <3>1, InsertKeepsSlots, InsertStaysInPlace DEF BulkAddWrite, SlotInv
  <2>3. ASSUME LookupOwner(c) \/ WriteSteam(c) \/ Unlink(c) \/ Link(c) \/ BackfillWrite(c)
               \/ SampleDeploy(c)
        PROVE  RowsStay /\ NoNewEdit
    <3>1. CASE LookupOwner(c)
      BY <1>0, <3>1 DEF LookupOwner, RowsStay, NoNewEdit, Flight
    <3>2. CASE WriteSteam(c)
      BY <1>0, <3>2 DEF WriteSteam, Goto, Finish, Idle, RowsStay, NoNewEdit, Flight
    <3>3. CASE Unlink(c)
      BY <1>0, <3>3 DEF Unlink, Goto, RowsStay, NoNewEdit, Flight, Row
    <3>4. CASE Link(c)
      BY <1>0, <3>4 DEF Link, Finish, Idle, RowsStay, NoNewEdit, Flight, Row
    <3>5. CASE BackfillWrite(c)
      BY <1>0, <3>5 DEF BackfillWrite, Finish, Idle, RowsStay, NoNewEdit, Flight
    <3>6. CASE SampleDeploy(c)
      BY <1>0, <3>6 DEF SampleDeploy, Finish, Idle, RowsStay, NoNewEdit, Flight
    <3> QED
      BY <2>3, <3>1, <3>2, <3>3, <3>4, <3>5, <3>6
  <2> QED
    BY <1>4, <2>1, <2>2, <2>3, SlotsKept, EditKeepsSlots DEF Continue
<1>5. ASSUME NEW e \in Entry, Expire(e) PROVE SlotsAreUnique' /\ EditsInPlace'
  <2>1. RowsStay /\ UNCHANGED call
    BY <1>0, <1>5 DEF Expire, RowsStay, Row
  <2> QED
    BY <2>1, SlotsKept DEF NoNewEdit
<1> QED
  BY <1>2, <1>3, <1>4, <1>5 DEF Next

LEMMA SlotInductive ==
  /\ Init => SlotInv
  /\ SlotInv /\ [Next]_vars => SlotInv'
<1>1. Init => SlotInv
  BY Inductive DEF Init, SlotInv, SlotsAreUnique, EditsInPlace, Rows, NoRow, Idle
<1>2. SlotInv /\ UNCHANGED vars => SlotsAreUnique' /\ EditsInPlace'
  BY DEF vars, SlotInv, SlotsAreUnique, EditsInPlace, Rows
<1> QED
  BY <1>1, <1>2, Inductive, SlotStep DEF SlotInv

-----------------------------------------------------------------------------
(* The lists.                                                              *)

OnList(e, v) == Active(e) /\ entry[e].server = v

\* Rows that stay listed, or unlisted, leave the server's list as it was.
LEMMA ListKept ==
  ASSUME NEW v,
         \A e \in Entry : /\ OnList(e, v)' <=> OnList(e, v)
                          /\ OnList(e, v) => entry'[e].steam = entry[e].steam
  PROVE  Listed(v)' = Listed(v)
<1> DEFINE on == {e \in Entry : OnList(e, v)}
<1>1. on' = on
  OBVIOUS
<1>2. \A e \in on : entry'[e].steam = entry[e].steam
  OBVIOUS
<1>3. Listed(v) = {entry[e].steam : e \in on}
  BY DEF Listed, OnList
<1>4. Listed(v)' = {entry'[e].steam : e \in on'}
  BY DEF Listed, OnList
<1> HIDE DEF on
<1> QED
  BY <1>1, <1>2, <1>3, <1>4

\* A create lists its rows on the server that it deploys.
LEMMA InsertDeploys ==
  ASSUME NEW c \in Call, NEW S, NEW id \in [S -> Entry], NEW t,
         Insert(c, S, id, t), fired' = {call[c].server},
         NEW v \in Server, v \notin fired'
  PROVE  Listed(v)' = Listed(v)
<1>1. \A e \in Entry : \/ entry'[e] = entry[e]
                       \/ ~entry[e].there /\ entry'[e].server = call[c].server
  <2>1. \A s : NewRow(c, s, t).server = call[c].server
    BY DEF NewRow
  <2> QED
    BY <2>1 DEF Insert, Fresh
<1> QED
  BY <1>1, ListKept DEF OnList, Active

\* A removal deploys every server that loses a row.
LEMMA RemoveDeploys ==
  ASSUME WInv, NEW E \in SUBSET Entry, Remove(E), NEW v \in Server, v \notin fired'
  PROVE  Listed(v)' = Listed(v)
<1>1. \A e \in E : entry[e].server # v /\ ~entry'[e].there
  BY DEF Remove, NoRow
<1>2. \A e \in Entry \ E : entry'[e] = entry[e]
  BY DEF Remove
<1> QED
  BY <1>1, <1>2, ListKept DEF OnList, Active

\* An edited row stays on the server that the handler read, and deploys.
LEMMA EditDeploys ==
  ASSUME SlotInv, NEW c \in Call, NEW t \in Expiries \cup {"keep"}, EditWrite(c, t),
         NEW v \in Server, v \notin fired'
  PROVE  Listed(v)' = Listed(v)
<1>1. CASE ~Editable(call[c])
  BY <1>1, ListKept DEF EditWrite, OnList, Active
<1>2. CASE Editable(call[c])
  <2> DEFINE q == call[c]
  <2>1. /\ q.row \in Entry /\ entry[q.row].there /\ fired' = {q.server}
        /\ \A e \in Entry \ {q.row} : entry'[e] = entry[e]
        /\ entry'[q.row].server = entry[q.row].server
    BY <1>2, EditedRow DEF SlotInv
  <2>2. entry[q.row].server = q.server
    BY <2>1 DEF EditWrite, SlotInv, EditsInPlace
  <2>3. entry'[q.row].server # v /\ entry[q.row].server # v
    BY <2>1, <2>2
  <2> HIDE DEF q
  <2> QED
    BY <2>1, <2>3, ListKept DEF OnList, Active
<1> QED
  BY <1>1, <1>2

\* Disabling and enabling deploy every server, unless they change no row.
LEMMA StatusDeploys ==
  ASSUME NEW U, Deactivate(U) \/ Reactivate(U), entry \in [Entry -> Row],
         NEW v \in Server, All \notin fired'
  PROVE  Listed(v)' = Listed(v)
<1>1. \A e \in Entry : entry'[e] = entry[e]
  BY DEF Deactivate, Reactivate
<1> QED
  BY <1>1, ListKept DEF OnList, Active

\* A bulk-update changes the lists of the servers of its rows only.
LEMMA BulkUpdateLists ==
  ASSUME WInv, NEW c \in Call, NEW E \in SUBSET Entry,
         NEW t \in Expiries \cup {"keep"}, StartBulkUpdate(c, E, t),
         NEW v \in Server, \A e \in E : entry[e].server # v
  PROVE  Listed(v)' = Listed(v)
<1>1. \A e \in E : entry'[e].server = entry[e].server
  BY SetUntilType DEF StartBulkUpdate
<1>2. \A e \in Entry \ E : entry'[e] = entry[e]
  BY DEF StartBulkUpdate
<1> QED
  BY <1>1, <1>2, ListKept DEF OnList, Active

\* No other handler changes who is listed.
RowsSame ==
  \A e \in Entry : /\ entry'[e].there = entry[e].there /\ entry'[e].dormant = entry[e].dormant
                   /\ entry'[e].server = entry[e].server /\ entry'[e].steam = entry[e].steam
                   /\ entry'[e].until = entry[e].until

LEMMA OtherHandlers ==
  ASSUME entry \in [Entry -> Row]
  PROVE  /\ UNCHANGED entry => RowsSame
         /\ \A u \in User : \A s : Born(u, s) => RowsSame
         /\ \A U : RemoveUsers(U) => RowsSame
         /\ RenameClan => RowsSame
         /\ \A c \in Call : LookupOwner(c) \/ WriteSteam(c) \/ BackfillWrite(c) => RowsSame
         /\ \A c \in Call : Unlink(c) \/ Link(c) \/ SampleDeploy(c) => RowsSame
<1>1. UNCHANGED entry => RowsSame
  BY DEF RowsSame
<1>2. \A u \in User : \A s : Born(u, s) => RowsSame
  BY <1>1 DEF Born
<1>3. \A U : RemoveUsers(U) => RowsSame
  BY DEF RemoveUsers, RowsSame, Row
<1>4. RenameClan => RowsSame
  BY <1>1 DEF RenameClan
<1>5. \A c \in Call : LookupOwner(c) \/ WriteSteam(c) \/ BackfillWrite(c) \/ SampleDeploy(c) => RowsSame
  BY <1>1 DEF LookupOwner, WriteSteam, BackfillWrite, SampleDeploy
<1>6. \A c \in Call : Unlink(c) => RowsSame
  BY DEF Unlink, RowsSame, Row
<1>7. \A c \in Call : Link(c) => RowsSame
  BY DEF Link, RowsSame, Row
<1> QED
  BY <1>1, <1>2, <1>3, <1>4, <1>5, <1>6, <1>7

\* Every step of the handlers is one of the above.
LEMMA StepKinds ==
  ASSUME SlotInv, Next
  PROVE  \/ RowsSame
         \/ \E U \in SUBSET Members : Deactivate(U) \/ Reactivate(U)
         \/ \E E \in SUBSET Entry : Remove(E)
         \/ \E c \in Call, t \in Expiries \cup {"keep"} : EditWrite(c, t)
         \/ \E c \in Call, E \in SUBSET Entry, t \in Expiries \cup {"keep"} : StartBulkUpdate(c, E, t)
         \/ \E c \in Call, S \in SUBSET Steam : \E id \in [S -> Entry], t \in Until :
              Insert(c, S, id, t) /\ fired' = {call[c].server}
         \/ \E e \in Entry : Expire(e) /\ UNCHANGED owed
<1>1. entry \in [Entry -> Row] /\ \A c \in Call : Creatable(c) \in SUBSET Steam
  BY DEF SlotInv, WInv, TableTypeOK, Creatable, Flight
<1>2. CASE Handler
  BY <1>1, <1>2, OtherHandlers
     DEF Handler, SignIn, CreateMember, Disable, Enable, DeleteUser, BulkDisable, BulkEnable,
         BulkDeleteUsers, DeleteEntry, BulkDelete, Rows
<1>3. ASSUME NEW c \in Call, NEW t \in Expiries, AddWrite(c, t)
      PROVE  \/ UNCHANGED entry
             \/ \E S \in SUBSET Steam : \E id \in [S -> Entry] :
                  Insert(c, S, id, t) /\ fired' = {call[c].server}
  BY <1>1, <1>3 DEF AddWrite
<1>4. ASSUME NEW c \in Call, BulkAddWrite(c)
      PROVE  \E S \in SUBSET Steam : \E id \in [S -> Entry] :
               Insert(c, S, id, "never") /\ fired' = {call[c].server}
  BY <1>1, <1>4 DEF BulkAddWrite
<1>5. Expiries \subseteq Until /\ "never" \in Until /\ Few(Entry) \subseteq SUBSET Entry
  BY ConstantsAssumption DEF Until, Few
<1>6. ASSUME NEW c \in Call, Request(c)
      PROVE  \/ RowsSame
             \/ \E E \in SUBSET Entry, t \in Expiries \cup {"keep"} : StartBulkUpdate(c, E, t)
  <2>1. CASE UNCHANGED entry
    BY <2>1 DEF RowsSame
  <2> QED
    BY <1>5, <1>6, <2>1
       DEF Request, StartAdd, StartBulkAdd, StartEdit, StartLink, StartBackfill, StartEditUser
<1>7. ASSUME NEW c \in Call, Continue(c)
      PROVE  \/ RowsSame
             \/ \E t \in Expiries \cup {"keep"} : EditWrite(c, t)
             \/ \E S \in SUBSET Steam : \E id \in [S -> Entry], t \in Until :
                  Insert(c, S, id, t) /\ fired' = {call[c].server}
  BY <1>1, <1>3, <1>4, <1>5, <1>7, OtherHandlers DEF Continue
<1> QED
  BY <1>2, <1>6, <1>7 DEF Next

\* A list changes with a deploy of its server, by an expiry that passes, or by the first
\* statement of a bulk-update.
LEMMA ListStep ==
  ASSUME SlotInv, Next, NEW v \in Server, Listed(v)' # Listed(v)
  PROVE  \/ fired' \cap {v, All} # {}
         \/ \E e \in Entry : Expire(e) /\ UNCHANGED owed
         \/ \E c \in Call, E \in SUBSET Entry, t \in Expiries \cup {"keep"} :
              StartBulkUpdate(c, E, t) /\ \E e \in E : entry[e].server = v
<1>0. entry \in [Entry -> Row]
  BY DEF SlotInv, WInv, TableTypeOK
<1> SUFFICES ASSUME v \notin fired', All \notin fired'
             PROVE  \/ \E e \in Entry : Expire(e) /\ UNCHANGED owed
                    \/ \E c \in Call, E \in SUBSET Entry, t \in Expiries \cup {"keep"} :
                         StartBulkUpdate(c, E, t) /\ \E e \in E : entry[e].server = v
  OBVIOUS
<1>1. CASE RowsSame
  <2>1. Listed(v)' = Listed(v)
    BY <1>1, ListKept DEF RowsSame, OnList, Active
  <2> QED
    BY <2>1
<1>2. ASSUME NEW U \in SUBSET Members, Deactivate(U) \/ Reactivate(U) PROVE FALSE
  BY <1>0, <1>2, StatusDeploys
<1>3. ASSUME NEW E \in SUBSET Entry, Remove(E) PROVE FALSE
  BY <1>3, RemoveDeploys DEF SlotInv
<1>4. ASSUME NEW c \in Call, NEW t \in Expiries \cup {"keep"}, EditWrite(c, t) PROVE FALSE
  BY <1>4, EditDeploys
<1>5. ASSUME NEW c \in Call, NEW S \in SUBSET Steam, NEW id \in [S -> Entry], NEW t \in Until,
             Insert(c, S, id, t), fired' = {call[c].server}
      PROVE  FALSE
  BY <1>5, InsertDeploys
<1>6. ASSUME NEW c \in Call, NEW E \in SUBSET Entry, NEW t \in Expiries \cup {"keep"},
             StartBulkUpdate(c, E, t)
      PROVE  \E e \in E : entry[e].server = v
  BY <1>6, BulkUpdateLists DEF SlotInv
<1> QED
  BY <1>1, <1>2, <1>3, <1>4, <1>5, <1>6, StepKinds

\* A bulk-update about to deploy stays where it is until it has ended.
LEMMA SamplesStay ==
  ASSUME SlotInv, Next, NEW c \in Call, call[c].at = "sample"
  PROVE  call'[c] = call[c] \/ call'[c].at = "done"
<1>1. call \in [Call -> Flight] /\ Idle.at = "done" /\ call[c] # Idle
  BY DEF SlotInv, WInv, TableTypeOK, Idle
<1>2. CASE UNCHANGED call
  BY <1>2
<1>3. ASSUME NEW d \in Call, NEW q, Start(d, q) PROVE call'[c] = call[c]
  BY <1>1, <1>3 DEF Start
<1>4. ASSUME NEW d \in Call, Finish(d) PROVE call'[c] = call[c] \/ call'[c].at = "done"
  BY <1>1, <1>4 DEF Finish
<1>5. ASSUME NEW d \in Call, NEW step, d # c, Goto(d, step) PROVE call'[c] = call[c]
  BY <1>1, <1>5 DEF Goto
<1>6. CASE Handler
  BY <1>2, <1>6
     DEF Handler, SignIn, CreateMember, Born, Disable, Enable, DeleteUser, BulkDisable, BulkEnable,
         BulkDeleteUsers, DeleteEntry, BulkDelete, RenameClan, Deactivate, Reactivate, RemoveUsers,
         Remove
<1>7. ASSUME NEW d \in Call, Request(d) PROVE call'[c] = call[c]
  <2>1. \E q : Start(d, q)
    BY <1>7 DEF Request, StartAdd, StartBulkAdd, StartEdit, StartBulkUpdate, StartLink,
                StartBackfill, StartEditUser
  <2> QED
    BY <1>3, <2>1
<1>8. ASSUME NEW d \in Call, Continue(d) PROVE call'[c] = call[c] \/ call'[c].at = "done"
  <2>1. CASE LookupOwner(d)
    BY <1>1, <2>1 DEF LookupOwner
  <2>2. CASE Unlink(d)
    BY <1>5, <2>2 DEF Unlink
  <2>3. CASE WriteSteam(d)
    BY <1>4, <1>5, <2>3 DEF WriteSteam
  <2>4. CASE Finish(d)
    BY <1>4, <2>4
  <2> QED
    BY <1>8, <2>1, <2>2, <2>3, <2>4
       DEF Continue, AddWrite, EditWrite, BulkAddWrite, SampleDeploy, Link, BackfillWrite
<1>9. ASSUME NEW e \in Entry, Expire(e) PROVE call'[c] = call[c]
  BY <1>9 DEF Expire
<1> QED
  BY <1>6, <1>7, <1>8, <1>9 DEF Next

\* A row stays on its server until a removal, which deploys that server.
LEMMA RowsStayOrDeploy ==
  ASSUME SlotInv, Next, NEW e \in Rows
  PROVE  (entry'[e].there /\ entry'[e].server = entry[e].server) \/ entry[e].server \in fired'
<1>1. entry \in [Entry -> Row] /\ e \in Entry /\ entry[e].there
  BY DEF SlotInv, WInv, TableTypeOK, Rows
<1> DEFINE Stays == entry'[e].there /\ entry'[e].server = entry[e].server
<1>2. CASE RowsSame
  BY <1>1, <1>2 DEF RowsSame
<1>3. ASSUME NEW U \in SUBSET Members, Deactivate(U) \/ Reactivate(U) PROVE Stays
  BY <1>1, <1>3 DEF Deactivate, Reactivate, Row
<1>4. ASSUME NEW E \in SUBSET Entry, Remove(E) PROVE Stays \/ entry[e].server \in fired'
  BY <1>1, <1>4 DEF Remove
<1>5. ASSUME NEW c \in Call, NEW t \in Expiries \cup {"keep"}, EditWrite(c, t) PROVE Stays
  <2>1. CASE ~Editable(call[c])
    BY <1>1, <1>5, <2>1 DEF EditWrite
  <2>2. CASE Editable(call[c])
    BY <1>1, <1>5, <2>2, EditedRow DEF SlotInv
  <2> QED
    BY <2>1, <2>2
<1>6. ASSUME NEW c \in Call, NEW S \in SUBSET Steam, NEW id \in [S -> Entry], NEW t \in Until,
             Insert(c, S, id, t)
      PROVE  Stays
  BY <1>1, <1>6 DEF Insert, Fresh
<1>7. ASSUME NEW c \in Call, NEW E \in SUBSET Entry, NEW t \in Expiries \cup {"keep"},
             StartBulkUpdate(c, E, t)
      PROVE  Stays
  BY <1>1, <1>7, SetUntilType DEF StartBulkUpdate, SlotInv
<1>8. ASSUME NEW f \in Entry, Expire(f) PROVE Stays
  BY <1>1, <1>8 DEF Expire, Row
<1> HIDE DEF Stays
<1>9. Stays \/ entry[e].server \in fired'
  BY <1>2, <1>3, <1>4, <1>5, <1>6, <1>7, <1>8, StepKinds DEF Stays
<1> QED
  BY <1>9 DEF Stays

\* What the lists wait for, under every step.
LEMMA OwedStep ==
  ASSUME SlotInv, EveryListChangeIsDeployed, Next
  PROVE  EveryListChangeIsDeployed'
<1> SUFFICES ASSUME NEW v \in Server, owed'[v] = "deploy"
             PROVE  \E c \in Call : call'[c].at = "sample" /\ v \in SampleFrom(c)'
  BY DEF EveryListChangeIsDeployed
<1>0. call \in [Call -> Flight] /\ entry \in [Entry -> Row]
  BY DEF SlotInv, WInv, TableTypeOK
\* Whoever waited goes on waiting.
<1>1. ASSUME owed[v] = "deploy", v \notin fired', ~Skipped(v)
      PROVE  \E c \in Call : call'[c].at = "sample" /\ v \in SampleFrom(c)'
  <2>1. PICK c \in Call : call[c].at = "sample" /\ v \in SampleFrom(c)
    BY <1>1 DEF EveryListChangeIsDeployed
  <2>2. PICK e \in call[c].rows \cap Rows : entry[e].server = v
    BY <2>1 DEF SampleFrom
  <2>3. call'[c] = call[c]
    BY <1>1, <2>1, SamplesStay DEF Skipped
  <2>4. entry'[e].there /\ entry'[e].server = v
    BY <1>1, <2>2, RowsStayOrDeploy
  <2> QED
    BY <2>1, <2>2, <2>3, <2>4 DEF SampleFrom, Rows
<1>2. CASE \E e \in Entry : Expire(e) /\ UNCHANGED owed
  <2>1. UNCHANGED <<owed, call>> /\ fired' = {}
    BY <1>2 DEF Expire
  <2>2. ~Skipped(v)
    BY <2>1 DEF Skipped
  <2> QED
    BY <1>1, <2>1, <2>2
<1>3. CASE Owe
  <2>1. /\ v \notin fired' /\ All \notin fired'
        /\ \/ Listed(v)' # Listed(v)
           \/ owed[v] = "deploy" /\ ~Skipped(v)
    BY <1>3 DEF Owe
  <2>2. ASSUME NEW c \in Call, NEW E \in SUBSET Entry, NEW t \in Expiries \cup {"keep"},
               StartBulkUpdate(c, E, t), NEW e \in E, entry[e].server = v
        PROVE  call'[c].at = "sample" /\ v \in SampleFrom(c)'
    <3>1. call'[c].at = "sample" /\ call'[c].rows = E
      BY <1>0, <2>2 DEF StartBulkUpdate, Start, Idle
    <3>2. entry'[e].there /\ entry'[e].server = v
      BY <1>0, <2>2, SetUntilType DEF StartBulkUpdate, SlotInv, Rows
    <3> QED
      BY <3>1, <3>2 DEF SampleFrom, Rows
  <2> QED
    BY <1>1, <1>2, <2>1, <2>2, ListStep
<1> QED
  BY <1>2, <1>3 DEF Next

\* Any number of handlers interleaving: whatever a handler changes of a server's list, that
\* server is deployed by the same statement, be it the server that an edit in flight has read,
\* or the bulk-update that changed it is still to deploy one of its servers, this one among them.
THEOREM ListChangesAreDeployed == Spec => []EveryListChangeIsDeployed
<1>1. Init => EveryListChangeIsDeployed
  BY DEF Init, EveryListChangeIsDeployed
<1>2. SlotInv /\ EveryListChangeIsDeployed /\ [Next]_vars => EveryListChangeIsDeployed'
  <2>1. CASE UNCHANGED vars
    BY <2>1 DEF vars, EveryListChangeIsDeployed, SampleFrom, Rows
  <2> QED
    BY <2>1, OwedStep
<1> QED
  BY <1>1, <1>2, SlotInductive, PTL DEF Spec

LEMMA ReviveStep ==
  ASSUME SlotInv, Next, NEW e \in Entry,
         entry[e].there /\ entry[e].dormant /\ entry'[e].there /\ ~entry'[e].dormant
  PROVE  entry[e].owner \in Members /\ ~user'[entry[e].owner].disabled /\ All \in fired'
<1>1. entry \in [Entry -> Row] /\ user \in [User -> Account]
  BY DEF SlotInv, WInv, TableTypeOK
<1>2. CASE RowsSame
  BY <1>2 DEF RowsSame
<1>3. ASSUME NEW U \in SUBSET Members, Deactivate(U) PROVE FALSE
  BY <1>1, <1>3 DEF Deactivate, Row
<1>4. ASSUME NEW U \in SUBSET Members, Reactivate(U)
      PROVE  entry[e].owner \in Members /\ ~user'[entry[e].owner].disabled /\ All \in fired'
  <2>1. e \in Owned(U) /\ entry[e].dormant
    BY <1>4 DEF Reactivate
  <2>2. entry[e].owner \in U
    BY <2>1 DEF Owned
  <2> QED
    BY <1>1, <1>4, <2>1, <2>2 DEF Reactivate, Members, Account
<1>5. ASSUME NEW E \in SUBSET Entry, Remove(E) PROVE FALSE
  BY <1>5 DEF Remove, NoRow
<1>6. ASSUME NEW c \in Call, NEW t \in Expiries \cup {"keep"}, EditWrite(c, t) PROVE FALSE
  <2>1. CASE ~Editable(call[c])
    BY <1>6, <2>1 DEF EditWrite
  <2>2. CASE Editable(call[c])
    BY <1>6, <2>2, EditedRow DEF SlotInv
  <2> QED
    BY <2>1, <2>2
<1>7. ASSUME NEW c \in Call, NEW S \in SUBSET Steam, NEW id \in [S -> Entry], NEW t \in Until,
             Insert(c, S, id, t)
      PROVE  FALSE
  BY <1>7 DEF Insert, Fresh
<1>8. ASSUME NEW c \in Call, NEW E \in SUBSET Entry, NEW t \in Expiries \cup {"keep"},
             StartBulkUpdate(c, E, t)
      PROVE  FALSE
  BY <1>1, <1>8, SetUntilType DEF StartBulkUpdate, SlotInv
<1>9. ASSUME NEW f \in Entry, Expire(f) PROVE FALSE
  BY <1>1, <1>9 DEF Expire, Row
<1> QED
  BY <1>2, <1>3, <1>4, <1>5, <1>6, <1>7, <1>8, <1>9, StepKinds

\* Any number of handlers interleaving: a row that somebody's disabling removed comes back
\* only with their enabling, which deploys every server.
THEOREM OnlyEnablingRevives == Spec => OnlyEnableRevives
<1>1. SlotInv /\ [Next]_vars
        => [\A e \in Entry : (entry[e].there /\ entry[e].dormant /\ entry'[e].there /\ ~entry'[e].dormant)
             => /\ entry[e].owner \in Members
                /\ ~user'[entry[e].owner].disabled
                /\ All \in fired']_vars
  BY ReviveStep
<1> QED
  BY SlotInductive, <1>1, PTL DEF Spec, OnlyEnableRevives

\* Whose disabling made a row dormant, under every step.
LEMMA RestoreStep ==
  ASSUME WInv, RestoresItsOwn, Next
  PROVE  RestoresItsOwn'
<1>0. entry \in [Entry -> Row] /\ by \in [Entry -> User \cup {None}]
  BY DEF WInv, TableTypeOK
<1> DEFINE Same == \A e \in Entry : /\ entry'[e].there = entry[e].there /\ by'[e] = by[e]
                                    /\ entry'[e].dormant = entry[e].dormant
                                    /\ entry'[e].owner \in {entry[e].owner, None}
<1>1. CASE Same
  BY <1>0, <1>1 DEF RestoresItsOwn, Rows
<1>2. CASE UNCHANGED <<entry, by>>
  BY <1>2 DEF RestoresItsOwn, Rows
<1>3. ASSUME NEW U, Deactivate(U) PROVE RestoresItsOwn'
  BY <1>0, <1>3 DEF Deactivate, RestoresItsOwn, Rows, Owned, Row
<1>4. ASSUME NEW U, Reactivate(U) PROVE RestoresItsOwn'
  BY <1>0, <1>4 DEF Reactivate, RestoresItsOwn, Rows, Owned, Row
<1>5. ASSUME NEW U, RemoveUsers(U) PROVE Same
  BY <1>0, <1>5 DEF RemoveUsers, Row
<1>6. ASSUME NEW E, Remove(E) PROVE RestoresItsOwn'
  BY <1>0, <1>6 DEF Remove, RestoresItsOwn, Rows, NoRow
<1>7. ASSUME NEW c \in Call, NEW S, NEW id \in [S -> Entry], NEW t, Insert(c, S, id, t)
      PROVE  RestoresItsOwn'
  <2>1. \A s : NewRow(c, s, t).dormant = FALSE
    BY DEF NewRow
  <2> QED
    BY <1>7, <2>1 DEF Insert, RestoresItsOwn, Rows
<1>8. ASSUME NEW c \in Call, NEW t \in Expiries \cup {"keep"}, EditWrite(c, t) PROVE RestoresItsOwn'
  <2> DEFINE q == call[c]
             owner == q.found[q.new]
  <2>1. CASE ~Editable(q)
    BY <1>2, <1>8, <2>1 DEF EditWrite
  <2>2. CASE Editable(q)
    <3>1. /\ q.row \in Entry /\ entry[q.row].there
          /\ \A e \in Entry \ {q.row} : entry'[e] = entry[e]
          /\ entry'[q.row].there /\ entry'[q.row].dormant = entry[q.row].dormant
          /\ entry'[q.row].owner = IF q.new \notin {None, q.old} THEN owner ELSE entry[q.row].owner
      BY <1>8, <2>2, EditedRow
    <3>2. CASE q.new \notin {None, q.old}
      <4>1. by' = [by EXCEPT ![q.row] = IF by[q.row] = owner THEN by[q.row] ELSE None]
        BY <1>8, <2>2, <3>2 DEF EditWrite
      <4> QED
        BY <1>0, <3>1, <3>2, <4>1 DEF RestoresItsOwn, Rows
    <3>3. CASE q.new \in {None, q.old}
      <4>1. UNCHANGED by
        BY <1>8, <2>2, <3>3 DEF EditWrite
      <4> QED
        BY <1>0, <3>1, <3>3, <4>1 DEF RestoresItsOwn, Rows
    <3> QED
      BY <3>2, <3>3
  <2> QED
    BY <2>1, <2>2
<1>9. ASSUME NEW c \in Call, NEW E \in SUBSET Entry, NEW t \in Expiries \cup {"keep"},
             StartBulkUpdate(c, E, t)
      PROVE  Same
  BY <1>0, <1>9, SetUntilType DEF StartBulkUpdate, history
<1>10. ASSUME NEW e \in Entry, Expire(e) PROVE Same
  BY <1>0, <1>10 DEF Expire, history, Row
<1>11. ASSUME NEW c \in Call, Unlink(c) PROVE Same
  BY <1>0, <1>11 DEF Unlink, Row
<1>12. ASSUME NEW c \in Call, Link(c) PROVE RestoresItsOwn'
  BY <1>0, <1>12 DEF Link, RestoresItsOwn, Rows, Row
<1>13. ASSUME Handler PROVE RestoresItsOwn'
  <2>1. \A u \in User : \A s : Born(u, s) => UNCHANGED <<entry, by>>
    BY DEF Born
  <2>2. RenameClan => UNCHANGED <<entry, by>>
    BY DEF RenameClan, history
  <2> HIDE DEF Same
  <2> QED
    BY <1>1, <1>2, <1>3, <1>4, <1>5, <1>6, <1>13, <2>1, <2>2
       DEF Handler, SignIn, CreateMember, Disable, Enable, DeleteUser, BulkDisable, BulkEnable,
           BulkDeleteUsers, DeleteEntry, BulkDelete
<1>14. ASSUME NEW c \in Call, Request(c) PROVE RestoresItsOwn'
  <2>1. CASE \E E \in Few(Entry), t \in Expiries \cup {"keep"} : StartBulkUpdate(c, E, t)
    BY <1>1, <1>9, <2>1 DEF Few
  <2>2. CASE ~\E E \in Few(Entry), t \in Expiries \cup {"keep"} : StartBulkUpdate(c, E, t)
    <3>1. UNCHANGED <<entry, by>>
      BY <1>14, <2>2
         DEF Request, StartAdd, StartBulkAdd, StartEdit, StartLink, StartBackfill, StartEditUser, history
    <3> QED
      BY <1>2, <3>1
  <2> QED
    BY <2>1, <2>2
<1>15. ASSUME NEW c \in Call, Continue(c) PROVE RestoresItsOwn'
  <2>1. ASSUME NEW t \in Expiries, AddWrite(c, t) PROVE RestoresItsOwn'
    BY <1>2, <1>7, <2>1 DEF AddWrite
  <2>2. ASSUME BulkAddWrite(c) PROVE RestoresItsOwn'
    BY <1>7, <2>2 DEF BulkAddWrite
  <2>3. LookupOwner(c) \/ WriteSteam(c) \/ BackfillWrite(c) \/ SampleDeploy(c) => UNCHANGED <<entry, by>>
    BY DEF LookupOwner, WriteSteam, BackfillWrite, SampleDeploy, history
  <2> HIDE DEF Same
  <2> QED
    BY <1>1, <1>2, <1>8, <1>11, <1>12, <1>15, <2>1, <2>2, <2>3 DEF Continue
<1> QED
  BY <1>1, <1>10, <1>13, <1>14, <1>15 DEF Next

\* Any number of handlers interleaving: what enabling a member revives is what disabling that
\* member removed, unless the row has changed hands in between.
THEOREM EnablingRestoresItsOwn == Spec => []RestoresItsOwn
<1>1. Init => RestoresItsOwn
  BY DEF Init, RestoresItsOwn, Rows, NoRow
<1>2. WInv /\ RestoresItsOwn /\ [Next]_vars => RestoresItsOwn'
  <2>1. CASE UNCHANGED vars
    BY <2>1 DEF vars, RestoresItsOwn, Rows
  <2> QED
    BY <2>1, RestoreStep
<1> QED
  BY <1>1, <1>2, Inductive, PTL DEF Spec

-----------------------------------------------------------------------------
(* One handler at a time, and Steam IDs by the routes alone.               *)

OneAtATime == ~SecretaryDb /\ \A c, d \in Call : c = d

\* The unique index on User.steamId.
HoldersAreUnique ==
  \A u, w \in Members : user[u].steam = user[w].steam /\ user[u].steam # None => u = w

OwnersAreMembers == \A e \in Rows : KeyOk(entry[e].owner)

\* A lookup that is not out of date.  Who was found may have been deleted since.
Answers(u, s) ==
  /\ u \in Members => user[u].steam = s
  /\ u = None => \A w \in Members : user[w].steam # s
  /\ u # None => u \in User /\ user[u].status # "unborn"

\* What the handler in flight has still to write, and the row that an edit has read: of a relink, its member's Steam ID, then the
\* rows of the old one, then those of the new one.
CallSync(c) ==
  LET q == call[c] IN
  /\ q.op # "backfill"
  /\ q.op = "edit" => /\ q.new \notin {None, q.old} => q.new \in q.steams
                      /\ entry[q.row].there => entry[q.row].steam = q.old
  /\ q.at = "lookup" => q.op # "relink"
  /\ q.at = "write" /\ q.op # "relink" => \A s \in q.steams : Answers(q.found[s], s)
  /\ q.op = "relink" /\ q.user \in Members =>
       /\ q.at = "write" => user[q.user].steam = q.old
       /\ q.at \in {"unlink", "link"} => user[q.user].steam = q.new
       /\ q.at = "unlink" => \A e \in Rows : entry[e].owner = q.user <=> entry[e].steam = q.old
       /\ q.at = "link" => \A e \in Rows : entry[e].owner = q.user => entry[e].steam = q.new

Relinking(u) == \E c \in Call : call[c].at \in {"unlink", "link"} /\ call[c].user = u

RowsFollow ==
  \A e \in Rows, u \in Members : Relinking(u) \/ (entry[e].owner = u <=> user[u].steam = entry[e].steam)

SyncInv == /\ HoldersAreUnique /\ OwnersAreMembers /\ RowsFollow
           /\ \A c \in Call : CallSync(c)

LEMMA SyncInit == Init => SyncInv
  BY DEF Init, SyncInv, HoldersAreUnique, OwnersAreMembers, RowsFollow, CallSync, Members, Rows,
         NoRow, Idle

\* Between handlers, nothing is left to be written.
LEMMA SyncQuiet ==
  ASSUME SyncInv  PROVE LinksInSync
<1> SUFFICES ASSUME Quiet, NEW e \in Rows, NEW u \in Members
             PROVE  entry[e].owner = u <=> user[u].steam = entry[e].steam
  BY DEF LinksInSync
<1>1. ~Relinking(u)
  BY DEF Quiet, Relinking, Idle
<1> QED
  BY <1>1 DEF SyncInv, RowsFollow

\* Steps that change neither Steam IDs nor owners.
LinksSame ==
  /\ \A u \in User : user'[u].status = user[u].status /\ user'[u].steam = user[u].steam
  /\ \A e \in Entry : /\ entry'[e].there = entry[e].there /\ entry'[e].steam = entry[e].steam
                       /\ entry'[e].owner = entry[e].owner

\* The row of an edit in flight.
LEMMA EditRow ==
  ASSUME WInv, NEW c \in Call, call[c].op = "edit"  PROVE call[c].row \in Entry
  BY DEF WInv, CallShape, FlightShape

LEMMA SameFollow ==
  ASSUME WInv, SyncInv, LinksSame, UNCHANGED call  PROVE SyncInv'
<1>1. Members' = Members /\ Rows' = Rows
  BY DEF LinksSame, Members, Rows
<1>2. HoldersAreUnique' /\ OwnersAreMembers'
  BY <1>1 DEF SyncInv, HoldersAreUnique, OwnersAreMembers, KeyOk, LinksSame, Members, Rows
<1>3. RowsFollow'
  BY <1>1 DEF SyncInv, RowsFollow, Relinking, LinksSame, Members, Rows
<1>4. ASSUME NEW c \in Call  PROVE CallSync(c)'
  BY <1>1, EditRow DEF SyncInv, CallSync, Answers, LinksSame, Members, Rows
<1> QED
  BY <1>2, <1>3, <1>4 DEF SyncInv

LEMMA BornFollows ==
  ASSUME WInv, SyncInv, NEW u \in User, Born(u, None)  PROVE SyncInv'
<1>1. /\ \A w \in User \ {u} : user'[w] = user[w]
      /\ user'[u].steam = None /\ user'[u].status = "there" /\ user[u].status = "unborn"
      /\ UNCHANGED <<entry, call>> /\ \A c \in Call : call[c].user # u
  BY DEF Born, WInv, TableTypeOK
<1>2. Members' = Members \cup {u} /\ Rows' = Rows /\ u \notin Members
  BY <1>1 DEF Members, Rows
<1>3. \A e \in Rows : entry[e].steam # None /\ entry[e].owner # u
  BY <1>2, ConstantsAssumption DEF WInv, RowShape, Rows, SyncInv, OwnersAreMembers, KeyOk
<1>4. HoldersAreUnique' /\ OwnersAreMembers'
  BY <1>1, <1>2 DEF SyncInv, HoldersAreUnique, OwnersAreMembers, KeyOk, Members
<1>5. RowsFollow'
  BY <1>1, <1>2, <1>3 DEF SyncInv, RowsFollow, Relinking, Members
<1>6. ASSUME NEW c \in Call  PROVE CallSync(c)'
  <2>1. \A w, s : Answers(w, s) /\ s \in Steam => Answers(w, s)'
    BY <1>1, <1>2, ConstantsAssumption DEF Answers, Members
  <2>2. call[c].steams \subseteq Steam /\ UNCHANGED call
    BY <1>1 DEF WInv, TableTypeOK, Flight
  <2>3. CallSync(c)
    BY DEF SyncInv
  <2>4. call[c].user \in Members' => call[c].user \in Members /\ user'[call[c].user] = user[call[c].user]
    BY <1>1, <1>2 DEF Members
  <2>5. call[c].at = "write" /\ call[c].op # "relink" => \A s \in call[c].steams : Answers(call[c].found[s], s)'
    BY <2>1, <2>2, <2>3 DEF CallSync
  <2> QED
    BY <1>1, <1>2, <2>2, <2>3, <2>4, <2>5 DEF CallSync
<1> QED
  BY <1>4, <1>5, <1>6 DEF SyncInv

\* A lookup stays right while Steam IDs are only lost.
LEMMA AnswersStay ==
  ASSUME NEW u, NEW s, s # None, Answers(u, s),
         \A w \in User : \/ user'[w] = user[w]
                         \/ w \in Members /\ user'[w].status = "gone"
  PROVE  Answers(u, s)'
<1>1. \A w \in Members' : w \in Members /\ user'[w] = user[w]
  BY DEF Members
<1>2. u \in User /\ user[u].status # "unborn" => user'[u].status # "unborn"
  BY DEF Members
<1> QED
  BY <1>1, <1>2 DEF Answers

\* Members go, and their rows are nobody's.
LEMMA GoneFollow ==
  ASSUME WInv, SyncInv, NEW U \in SUBSET Members, RemoveUsers(U)  PROVE SyncInv'
<1>1. /\ \A w \in User \ U : user'[w] = user[w]
      /\ \A w \in U : user'[w].status = "gone" /\ w \in User
      /\ UNCHANGED call
  BY DEF RemoveUsers, Members
<1>2. \A e \in Entry : /\ entry'[e].there = entry[e].there /\ entry'[e].steam = entry[e].steam
                       /\ entry'[e].owner = IF e \in Rows /\ entry[e].owner \in U THEN None ELSE entry[e].owner
  BY DEF RemoveUsers, Owned, WInv, TableTypeOK, Row
<1>3. Members' = Members \ U /\ Rows' = Rows
  BY <1>1, <1>2 DEF Members, Rows
<1>4. HoldersAreUnique' /\ OwnersAreMembers'
  BY <1>1, <1>2, <1>3 DEF SyncInv, HoldersAreUnique, OwnersAreMembers, KeyOk, Members, Rows
<1>5. \A e \in Rows, u \in Members' : entry'[e].owner = u <=> entry[e].owner = u
  BY <1>2, <1>3, ConstantsAssumption DEF Members, Rows
<1>6. \A u \in Members' : u \in Members /\ user'[u] = user[u]
  BY <1>1, <1>3 DEF Members
<1>7. \A e \in Rows : entry'[e].steam = entry[e].steam
  BY <1>2 DEF Rows
<1>8. RowsFollow'
  BY <1>1, <1>3, <1>5, <1>6, <1>7 DEF SyncInv, RowsFollow, Relinking
<1>9. ASSUME NEW c \in Call  PROVE CallSync(c)'
  <2>1. call[c].steams \subseteq Steam /\ None \notin Steam
    BY ConstantsAssumption DEF WInv, TableTypeOK, Flight
  <2>2. \A w \in User : user'[w] = user[w] \/ (w \in Members /\ user'[w].status = "gone")
    BY <1>1
  <2>3. \A s \in call[c].steams : Answers(call[c].found[s], s) => Answers(call[c].found[s], s)'
    BY <1>1, <2>1, <2>2, AnswersStay
  <2>4. CallSync(c)
    BY DEF SyncInv
  <2> QED
    BY <1>1, <1>2, <1>3, <1>5, <1>6, <1>7, <2>3, <2>4, EditRow DEF CallSync
<1> QED
  BY <1>4, <1>8, <1>9 DEF SyncInv

\* Rows that are removed leave the others as they were.
LEMMA RemovedFollow ==
  ASSUME WInv, SyncInv, NEW E \in SUBSET Rows, Remove(E)  PROVE SyncInv'
<1>1. Rows' = Rows \ E /\ \A e \in Rows' : e \in Rows /\ entry'[e] = entry[e]
  BY DEF Remove, Rows, NoRow
<1>2. UNCHANGED <<user, call>> /\ Members' = Members
  BY DEF Remove, Members
<1>3. HoldersAreUnique' /\ OwnersAreMembers'
  BY <1>1, <1>2 DEF SyncInv, HoldersAreUnique, OwnersAreMembers, KeyOk
<1>4. RowsFollow'
  BY <1>1, <1>2 DEF SyncInv, RowsFollow, Relinking
<1>5. ASSUME NEW c \in Call  PROVE CallSync(c)'
  BY <1>1, <1>2, EditRow DEF SyncInv, CallSync, Answers, Rows
<1> QED
  BY <1>3, <1>4, <1>5 DEF SyncInv

LEMMA HandlerFollows ==
  ASSUME WInv, SyncInv, OneAtATime, Handler  PROVE SyncInv'
<1>0. user \in [User -> Account] /\ entry \in [Entry -> Row]
  BY DEF WInv, TableTypeOK
<1>1. \A U : Deactivate(U) => LinksSame /\ UNCHANGED call
  BY <1>0 DEF Deactivate, LinksSame, Account, Row
<1>2. \A U : Reactivate(U) => LinksSame /\ UNCHANGED call
  BY <1>0 DEF Reactivate, LinksSame, Account, Row
<1>3. RenameClan => LinksSame /\ UNCHANGED call
  BY DEF RenameClan, LinksSame
<1>4. \A u \in User : SignIn(u) => SyncInv'
  BY BornFollows DEF SignIn
<1>5. \A u \in User, s \in Steam : ~CreateMember(u, s)
  BY DEF OneAtATime, CreateMember
<1>6. \A U : RemoveUsers(U) /\ U \subseteq Members => SyncInv'
  BY GoneFollow
<1>7. \A E : Remove(E) /\ E \subseteq Rows => SyncInv'
  BY RemovedFollow
<1>8. \/ LinksSame /\ UNCHANGED call
      \/ SyncInv'
  BY <1>1, <1>2, <1>3, <1>4, <1>5, <1>6, <1>7
     DEF Handler, Disable, Enable, DeleteUser, BulkDisable, BulkEnable, BulkDeleteUsers,
         DeleteEntry, BulkDelete, Rows
<1> QED
  BY <1>8, SameFollow

\* A handler goes on, or the last one ends: Steam IDs and owners are as they were.
LEMMA MovedFollow ==
  ASSUME WInv, SyncInv, OneAtATime, NEW c \in Call, LinksSame,
         \A d \in Call : d # c => call'[d] = call[d],
         ~(call[c].at \in {"unlink", "link"}), CallSync(c)'
  PROVE  SyncInv'
<1>1. \A u : ~Relinking(u)
  BY DEF Relinking, OneAtATime
<1>2. Members' = Members /\ Rows' = Rows
  BY DEF LinksSame, Members, Rows
<1>3. HoldersAreUnique' /\ OwnersAreMembers'
  BY <1>2 DEF SyncInv, HoldersAreUnique, OwnersAreMembers, KeyOk, LinksSame, Members, Rows
<1>4. RowsFollow'
  BY <1>1, <1>2 DEF SyncInv, RowsFollow, LinksSame, Members, Rows
<1>5. \A d \in Call : d = c
  BY DEF OneAtATime
<1> QED
  BY <1>3, <1>4, <1>5 DEF SyncInv

\* The updateMany of a bulk-update leaves Steam IDs and owners.
LEMMA BulkUpdateSame ==
  ASSUME WInv, NEW c \in Call, NEW E \in SUBSET Entry, NEW t \in Expiries \cup {"keep"},
         StartBulkUpdate(c, E, t)
  PROVE  LinksSame
  BY SetUntilType DEF StartBulkUpdate, LinksSame

LEMMA RequestFollows ==
  ASSUME WInv, SyncInv, OneAtATime, NEW c \in Call, Request(c)  PROVE SyncInv'
<1>0. call \in [Call -> Flight] /\ Few(Entry) \subseteq SUBSET Entry
  BY DEF WInv, TableTypeOK, Few
<1>1. LinksSame /\ call[c] = Idle /\ \A d \in Call : d # c => call'[d] = call[d]
  <2> DEFINE Starts == LinksSame /\ \E q : Start(c, q)
  <2>0. UNCHANGED <<user, entry>> => LinksSame
    BY DEF LinksSame
  <2>1. \A s \in Steam, v \in Server : StartAdd(c, s, v) => Starts
    BY <2>0, Zenon DEF StartAdd
  <2>2. \A S \in Few(Steam), v \in Server : StartBulkAdd(c, S, v) => Starts
    BY <2>0, Zenon DEF StartBulkAdd
  <2>3. \A e \in Entry, s \in Steam \cup {None} : StartEdit(c, e, s) => Starts
    BY <2>0, Zenon DEF StartEdit
  <2>4. \A u \in User, s \in Steam : StartLink(c, u, s) \/ StartBackfill(c, u, s) => Starts
    BY <2>0, Zenon DEF StartLink, StartBackfill
  <2>5. \A u \in User, s \in Steam \cup {None} : StartEditUser(c, u, s) => Starts
    BY <2>0, Zenon DEF StartEditUser
  <2>6. \A E \in Few(Entry), t \in Expiries \cup {"keep"} : StartBulkUpdate(c, E, t) => Starts
    <3>1. \A E \in Few(Entry), t \in Expiries \cup {"keep"} : StartBulkUpdate(c, E, t) => \E q : Start(c, q)
      BY Zenon DEF StartBulkUpdate
    <3> QED
      BY <1>0, <3>1, BulkUpdateSame
  <2>7. Starts
    BY <2>1, <2>2, <2>3, <2>4, <2>5, <2>6, Zenon DEF Request
  <2> QED
    BY <1>0, <2>7 DEF Start
<1>2. ASSUME NEW s \in Steam, NEW v \in Server, StartAdd(c, s, v)  PROVE CallSync(c)'
  BY <1>0, <1>2 DEF StartAdd, Start, Idle, CallSync
<1>3. ASSUME NEW S, NEW v \in Server, StartBulkAdd(c, S, v)  PROVE CallSync(c)'
  BY <1>0, <1>3 DEF StartBulkAdd, Start, Idle, CallSync
<1>4. ASSUME NEW e \in Entry, NEW s \in Steam \cup {None}, StartEdit(c, e, s)  PROVE CallSync(c)'
  <2>1. /\ call'[c].op = "edit" /\ call'[c].row = e /\ call'[c].old = entry[e].steam
        /\ call'[c].new = s /\ UNCHANGED entry
        /\ call'[c].at = IF s \notin {None, entry[e].steam} THEN "lookup" ELSE "write"
        /\ call'[c].steams = IF s \notin {None, entry[e].steam} THEN {s} ELSE {}
    BY <1>0, <1>4 DEF StartEdit, Start, Idle
  <2> QED
    BY <2>1 DEF CallSync
<1>5. ASSUME NEW u \in User, NEW s, StartLink(c, u, s) \/ StartEditUser(c, u, s)  PROVE CallSync(c)'
  <2>1. /\ call'[c].op = "relink" /\ call'[c].at = "write"
        /\ call'[c].user = u /\ call'[c].old = user[u].steam /\ UNCHANGED user
    <3> DEFINE q == [Idle EXCEPT !.op = "relink", !.at = "write", !.user = u, !.old = user[u].steam, !.new = s]
    <3>1. call' = [call EXCEPT ![c] = q] /\ UNCHANGED user
      BY <1>5 DEF StartLink, StartEditUser, Start
    <3>2. q.op = "relink" /\ q.at = "write" /\ q.user = u /\ q.old = user[u].steam
      BY DEF Idle
    <3> HIDE DEF q
    <3> QED
      BY <1>0, <3>1, <3>2
  <2> QED
    BY <1>1, <2>1 DEF CallSync
<1>6. \A u \in User, s \in Steam : ~StartBackfill(c, u, s)
  BY DEF OneAtATime, StartBackfill
<1>7. ASSUME NEW E, NEW t, StartBulkUpdate(c, E, t)  PROVE CallSync(c)'
  BY <1>0, <1>7 DEF StartBulkUpdate, Start, Idle, CallSync
<1>8. CallSync(c)'
  BY <1>2, <1>3, <1>4, <1>5, <1>6, <1>7 DEF Request
<1> QED
  BY <1>1, <1>8, MovedFollow DEF Idle

\* What a lookup finds is who has the Steam ID now.
LEMMA FoundAnswers ==
  ASSUME NEW s \in Steam  PROVE Answers(FindUserIdForSteam(s), s)
<1>1. FindUserIdForSteam(s) = None => \A w \in Members : user[w].steam # s
  <2> SUFFICES ASSUME NEW w \in Members, user[w].steam = s  PROVE FindUserIdForSteam(s) # None
    OBVIOUS
  <2>1. w \in User /\ HeldBy(w, s)
    BY DEF HeldBy, Members
  <2>2. FindUserIdForSteam(s) = CHOOSE u \in User : HeldBy(u, s)
    BY <2>1 DEF FindUserIdForSteam
  <2> QED
    BY <2>1, <2>2, ConstantsAssumption
<1>2. FindUserIdForSteam(s) # None => HeldBy(FindUserIdForSteam(s), s) /\ FindUserIdForSteam(s) \in User
  BY FindUserType
<1>3. FindUserIdForSteam(s) \in Members => HeldBy(FindUserIdForSteam(s), s)
  BY <1>2, ConstantsAssumption DEF Members
<1> QED
  BY <1>1, <1>2, <1>3 DEF Answers, HeldBy, Members

LEMMA LookupFollows ==
  ASSUME WInv, SyncInv, OneAtATime, NEW c \in Call, LookupOwner(c)  PROVE SyncInv'
<1>0. call \in [Call -> Flight]
  BY DEF WInv, TableTypeOK
<1> DEFINE q == call[c]  n == call'[c]
<1>1. /\ UNCHANGED <<user, entry>> /\ \A d \in Call : d # c => call'[d] = call[d]
      /\ n.op = q.op /\ n.at = "write" /\ n.steams = q.steams /\ n.user = q.user /\ n.old = q.old /\ n.new = q.new
      /\ n.row = q.row
      /\ n.found = [s \in Steam |-> IF s \in q.steams THEN FindUserIdForSteam(s) ELSE None]
      /\ q.at = "lookup" /\ q.steams \subseteq Steam
  BY <1>0 DEF LookupOwner, Flight
<1>2. /\ q.op # "relink" /\ q.op # "backfill"
      /\ q.op = "edit" => /\ q.new \notin {None, q.old} => q.new \in q.steams
                          /\ entry[q.row].there => entry[q.row].steam = q.old
  BY <1>1 DEF SyncInv, CallSync
<1>3. \A s \in q.steams : Answers(n.found[s], s)
  BY <1>1, FoundAnswers
<1>4. \A u, s : Answers(u, s)' <=> Answers(u, s)
  BY <1>1 DEF Answers, Members
<1>5. CallSync(c)'
  BY <1>1, <1>2, <1>3, <1>4 DEF CallSync
<1>6. LinksSame
  BY <1>1 DEF LinksSame
<1> QED
  BY <1>1, <1>5, <1>6, MovedFollow

\* Once the handler has ended, nothing is left to be written.
LEMMA EndFollows ==
  ASSUME WInv, OneAtATime, NEW c \in Call, Finish(c), HoldersAreUnique', OwnersAreMembers',
         \A e \in Rows', u \in Members' : entry'[e].owner = u <=> user'[u].steam = entry'[e].steam
  PROVE  SyncInv'
<1>1. \A d \in Call : call'[d] = Idle
  BY DEF Finish, OneAtATime, WInv, TableTypeOK
<1>2. \A d \in Call : CallSync(d)'
  BY <1>1 DEF CallSync, Idle
<1> QED
  BY <1>2 DEF SyncInv, RowsFollow

\* Nobody is relinked while another handler writes.
LEMMA AllFollow ==
  ASSUME SyncInv, OneAtATime, NEW c \in Call, ~(call[c].at \in {"unlink", "link"}),
         NEW e \in Rows, NEW u \in Members
  PROVE  entry[e].owner = u <=> user[u].steam = entry[e].steam
  BY DEF SyncInv, RowsFollow, Relinking, OneAtATime

\* Whose Steam ID was looked up is who has it.
LEMMA AnswerIsHolder ==
  ASSUME SyncInv, NEW s \in Steam, NEW w, Answers(w, s), KeyOk(w), NEW u \in Members
  PROVE  w = u <=> user[u].steam = s
  BY ConstantsAssumption DEF SyncInv, HoldersAreUnique, Answers, KeyOk, Members

LEMMA InsertFollows ==
  ASSUME WInv, SyncInv, OneAtATime, NEW c \in Call, call[c].at = "write", call[c].op # "relink",
         NEW S \in SUBSET Creatable(c), NEW id \in [S -> Entry], NEW t, Insert(c, S, id, t),
         Finish(c), UNCHANGED user
  PROVE  SyncInv'
<1> DEFINE mine(e) == CHOOSE s \in S : id[s] = e
           New(e) == \E s \in S : id[s] = e
<1>1. \A e \in Entry : entry'[e] = IF New(e) THEN NewRow(c, mine(e), t) ELSE entry[e]
  BY DEF Insert
<1>2. \A e \in Entry : New(e) => mine(e) \in S
  OBVIOUS
<1> HIDE DEF mine
<1>3. \A s : NewRow(c, s, t).steam = s /\ NewRow(c, s, t).owner = call[c].found[s]
  BY DEF NewRow
<1>4. ASSUME NEW s \in S
      PROVE  s \in Steam /\ KeyOk(call[c].found[s]) /\ Answers(call[c].found[s], s)
  BY DEF Creatable, SyncInv, CallSync, WInv, TableTypeOK, Flight
<1>5. Members' = Members
  BY DEF Members
<1>6. \A e \in Rows' : e \in Entry /\ (~New(e) => e \in Rows)
  BY <1>1 DEF Rows
<1>7. ASSUME NEW e \in Rows', NEW u \in Members
      PROVE  entry'[e].owner = u <=> user[u].steam = entry'[e].steam
  <2>1. CASE New(e)
    <3>1. entry'[e].steam = mine(e) /\ entry'[e].owner = call[c].found[mine(e)] /\ mine(e) \in S
      BY <1>1, <1>2, <1>3, <1>6, <2>1
    <3> QED
      BY <3>1, <1>4, AnswerIsHolder
  <2>2. CASE ~New(e)
    BY <1>1, <1>6, <2>2, AllFollow
  <2> QED
    BY <2>1, <2>2
<1>8. OwnersAreMembers'
  <2> SUFFICES ASSUME NEW e \in Rows'  PROVE KeyOk(entry'[e].owner)
    BY <1>5 DEF OwnersAreMembers, KeyOk
  <2>1. CASE New(e)
    BY <1>1, <1>2, <1>3, <1>4, <1>6, <2>1
  <2>2. CASE ~New(e)
    BY <1>1, <1>6, <2>2 DEF SyncInv, OwnersAreMembers
  <2> QED
    BY <2>1, <2>2
<1>9. HoldersAreUnique'
  BY <1>5 DEF SyncInv, HoldersAreUnique
<1> QED
  BY <1>5, <1>7, <1>8, <1>9, EndFollows

\* The handler ends and has changed no Steam ID and no owner.
LEMMA EndedFollow ==
  ASSUME WInv, SyncInv, OneAtATime, NEW c \in Call, Finish(c), LinksSame,
         ~(call[c].at \in {"unlink", "link"})
  PROVE  SyncInv'
<1>1. call'[c] = Idle /\ \A d \in Call : d # c => call'[d] = call[d]
  BY DEF Finish, WInv, TableTypeOK
<1>2. CallSync(c)'
  BY <1>1 DEF CallSync, Idle
<1> QED
  BY <1>1, <1>2, MovedFollow

LEMMA AddFollows ==
  ASSUME WInv, SyncInv, OneAtATime, NEW c \in Call
  PROVE  /\ \A t : AddWrite(c, t) => SyncInv'
         /\ BulkAddWrite(c) => SyncInv'
<1>1. ASSUME NEW t, AddWrite(c, t)  PROVE SyncInv'
  <2>1. CASE Creatable(c) = call[c].steams
    BY <1>1, <2>1, InsertFollows DEF AddWrite
  <2>2. CASE Creatable(c) # call[c].steams
    BY <1>1, <2>2, EndedFollow DEF AddWrite, LinksSame
  <2> QED
    BY <2>1, <2>2
<1>2. ASSUME BulkAddWrite(c)  PROVE SyncInv'
  BY <1>2, InsertFollows DEF BulkAddWrite
<1> QED
  BY <1>1, <1>2

LEMMA EditFollows ==
  ASSUME WInv, SyncInv, OneAtATime, NEW c \in Call, NEW t \in Expiries \cup {"keep"}, EditWrite(c, t)
  PROVE  SyncInv'
<1> DEFINE q == call[c]
           repoints == q.new \notin {None, q.old}
<1>0. q.op = "edit" /\ q.at = "write" /\ Finish(c) /\ UNCHANGED user
  BY DEF EditWrite
<1>1. CASE ~Editable(q)
  BY <1>0, <1>1, EndedFollow DEF EditWrite, LinksSame
<1>2. CASE Editable(q)
  <2>1. /\ q.row \in Entry /\ entry[q.row].there
        /\ \A e \in Entry \ {q.row} : entry'[e] = entry[e]
        /\ entry'[q.row].there
        /\ entry'[q.row].steam = IF q.new = None THEN entry[q.row].steam ELSE q.new
        /\ entry'[q.row].owner = IF repoints THEN q.found[q.new] ELSE entry[q.row].owner
    BY <1>2, EditedRow
  <2>2. /\ entry[q.row].steam = q.old
        /\ repoints => q.new \in q.steams /\ Answers(q.found[q.new], q.new) /\ KeyOk(q.found[q.new])
    BY <1>0, <1>2, <2>1 DEF SyncInv, CallSync, Editable
  <2>3. CASE ~repoints
    <3>1. entry'[q.row].there = entry[q.row].there
      BY <2>1, <1>2, EditedRow DEF WInv, TableTypeOK, Row
    <3>2. entry'[q.row].steam = entry[q.row].steam /\ entry'[q.row].owner = entry[q.row].owner
      BY <2>1, <2>2, <2>3
    <3> HIDE DEF q, repoints
    <3>3. LinksSame
      BY <1>0, <2>1, <3>1, <3>2 DEF LinksSame
    <3> QED
      BY <1>0, <3>3, EndedFollow DEF q
  <2>4. CASE repoints
    <3>1. /\ entry'[q.row].steam = q.new /\ entry'[q.row].owner = q.found[q.new] /\ q.new \in Steam
          /\ Answers(q.found[q.new], q.new) /\ KeyOk(q.found[q.new])
      BY <2>1, <2>2, <2>4 DEF WInv, TableTypeOK, Flight
    <3>2. Rows' = Rows /\ Members' = Members
      BY <1>0, <2>1 DEF Rows, Members
    <3>3. ASSUME NEW e \in Rows, NEW u \in Members
          PROVE  entry'[e].owner = u <=> user[u].steam = entry'[e].steam
      <4>1. CASE e = q.row
        BY <3>1, <4>1, AnswerIsHolder
      <4>2. CASE e # q.row
        <5>1. entry'[e] = entry[e]
          BY <2>1, <4>2 DEF Rows
        <5>2. ~(call[c].at \in {"unlink", "link"})
          BY <1>0
        <5>3. entry[e].owner = u <=> user[u].steam = entry[e].steam
          BY <5>2, AllFollow
        <5> QED
          BY <5>1, <5>3
      <4> QED
        BY <4>1, <4>2
    <3>4. OwnersAreMembers'
      <4>1. KeyOk(q.found[q.new]) /\ \A e \in Rows : KeyOk(entry[e].owner)
        BY <3>1 DEF SyncInv, OwnersAreMembers
      <4>2. \A e \in Rows : entry'[e].owner = q.found[q.new] \/ entry'[e].owner = entry[e].owner
        BY <2>1, <3>1 DEF Rows
      <4> QED
        BY <3>2, <4>1, <4>2 DEF OwnersAreMembers, KeyOk
    <3>5. HoldersAreUnique'
      BY <1>0, <3>2 DEF SyncInv, HoldersAreUnique
    <3> QED
      BY <1>0, <3>2, <3>3, <3>4, <3>5, EndFollows
  <2> QED
    BY <2>3, <2>4
<1> QED
  BY <1>1, <1>2

\* The member's Steam ID changes first ...
LEMMA WriteFollows ==
  ASSUME WInv, SyncInv, OneAtATime, NEW c \in Call, WriteSteam(c)  PROVE SyncInv'
<1> DEFINE q == call[c]
<1>0. q.op = "relink" /\ q.at = "write" /\ UNCHANGED entry /\ q.user \in User /\ user \in [User -> Account]
      /\ call \in [Call -> Flight]
  BY DEF WriteSteam, WInv, TableTypeOK, CallShape, FlightShape
<1>1. CASE ~(q.user \in Members /\ SteamFree(q.user, q.new))
  BY <1>0, <1>1, EndedFollow DEF WriteSteam, LinksSame
<1>2. CASE q.user \in Members /\ SteamFree(q.user, q.new)
  <2>1. /\ user'[q.user].steam = q.new /\ user'[q.user].status = user[q.user].status
        /\ \A u \in User \ {q.user} : user'[u] = user[u]
    BY <1>0, <1>2 DEF WriteSteam, SetSteam, Account
  <2>2. /\ call'[c].op = "relink" /\ call'[c].at = "unlink" /\ call'[c].user = q.user
        /\ call'[c].old = q.old /\ call'[c].new = q.new
    BY <1>0, <1>2 DEF WriteSteam, Goto, Flight
  <2>3. Members' = Members /\ Rows' = Rows
    BY <1>0, <2>1 DEF Members, Rows
  <2> HIDE DEF q
  <2>4. \A u \in Members : u # q.user => q.new = None \/ user[u].steam # q.new
    BY <1>2 DEF SteamFree, HeldBy, Members
  <2>5. HoldersAreUnique'
    BY <2>1, <2>3, <2>4 DEF SyncInv, HoldersAreUnique, Members
  <2>6. OwnersAreMembers'
    BY <1>0, <2>3 DEF SyncInv, OwnersAreMembers, KeyOk
  <2>7. ~(call[c].at \in {"unlink", "link"})
    BY <1>0 DEF q
  <2>8. \A e \in Rows, u \in Members : entry[e].owner = u <=> user[u].steam = entry[e].steam
    BY <2>7, AllFollow
  <2>9. RowsFollow'
    <3> SUFFICES ASSUME NEW e \in Rows, NEW u \in Members, u # q.user
                 PROVE  entry[e].owner = u <=> user'[u].steam = entry[e].steam
      BY <1>0, <2>2, <2>3 DEF RowsFollow, Relinking
    <3> QED
      BY <2>1, <2>8 DEF Members
  <2>10. user[q.user].steam = q.old
    BY <1>0, <1>2 DEF SyncInv, CallSync, q
  <2>11. \A e \in Rows : entry[e].owner = q.user <=> entry[e].steam = q.old
    BY <1>2, <2>8, <2>10
  <2>12. CallSync(c)'
    BY <1>0, <2>1, <2>2, <2>3, <2>11 DEF CallSync
  <2> QED
    BY <2>5, <2>6, <2>9, <2>12 DEF SyncInv, OneAtATime
<1> QED
  BY <1>1, <1>2

\* ... then the rows of the old one are nobody's ...
LEMMA UnlinkFollows ==
  ASSUME WInv, SyncInv, OneAtATime, NEW c \in Call, Unlink(c)  PROVE SyncInv'
<1> DEFINE q == call[c]
           hit == IF q.old # None /\ q.old # q.new
                  THEN {e \in Owned({q.user}) : entry[e].steam # q.new} ELSE {}
<1>0. /\ q.at = "unlink" /\ UNCHANGED user /\ q.user \in User /\ q.op = "relink"
      /\ call \in [Call -> Flight] /\ entry \in [Entry -> Row]
  BY DEF Unlink, WInv, TableTypeOK, CallShape, FlightShape
<1>1. /\ call'[c].op = "relink" /\ call'[c].at = "link" /\ call'[c].user = q.user /\ call'[c].new = q.new
  BY <1>0 DEF Unlink, Goto, Flight
<1>2. \A e \in Entry : entry'[e] = IF e \in hit THEN [entry[e] EXCEPT !.owner = None] ELSE entry[e]
  BY DEF Unlink
<1>3. \A e \in Entry : /\ entry'[e].there = entry[e].there /\ entry'[e].steam = entry[e].steam
                       /\ entry'[e].owner = IF e \in hit THEN None ELSE entry[e].owner
  <2> HIDE DEF hit
  <2> QED
    BY <1>0, <1>2 DEF Row
<1>4. Members' = Members /\ Rows' = Rows /\ HoldersAreUnique'
  BY <1>0, <1>3 DEF Members, Rows, SyncInv, HoldersAreUnique
<1>5. \A e \in hit : e \in Rows /\ entry[e].owner = q.user
  BY DEF Owned
<1> HIDE DEF q
<1>6. \A e \in Rows : entry[e].steam # None /\ e \in Entry
  BY ConstantsAssumption DEF WInv, RowShape, Rows
<1>7. q.user \in Members => user[q.user].steam = q.new
                            /\ \A e \in Rows : entry[e].owner = q.user <=> entry[e].steam = q.old
  BY <1>0 DEF SyncInv, CallSync, q
<1>8. q.user \in Members => \A e \in Rows : entry'[e].owner = q.user => entry'[e].steam = q.new
  <2> SUFFICES ASSUME q.user \in Members, NEW e \in Rows, entry'[e].owner = q.user  PROVE entry[e].steam = q.new
    BY <1>3, <1>6
  <2>1. q.user # None
    BY ConstantsAssumption DEF Members
  <2>2. e \notin hit /\ entry[e].owner = q.user
    BY <1>3, <1>6, <2>1
  <2>3. entry[e].steam = q.old /\ q.old # None
    BY <1>6, <1>7, <2>2
  <2>4. e \in Owned({q.user})
    BY <2>2 DEF Owned
  <2> QED
    BY <2>2, <2>3, <2>4
<1> HIDE DEF hit
<1>9. CallSync(c)'
  BY <1>0, <1>1, <1>4, <1>7, <1>8 DEF CallSync
<1>10. OwnersAreMembers'
  BY <1>3, <1>4, <1>6 DEF SyncInv, OwnersAreMembers, KeyOk
<1>11. RowsFollow'
  <2> SUFFICES ASSUME NEW e \in Rows, NEW u \in Members, u # q.user
               PROVE  entry'[e].owner = u <=> user[u].steam = entry'[e].steam
    BY <1>0, <1>1, <1>4 DEF RowsFollow, Relinking
  <2>1. ~Relinking(u)
    BY DEF Relinking, OneAtATime, q
  <2>2. entry[e].owner = u <=> user[u].steam = entry[e].steam
    BY <2>1 DEF SyncInv, RowsFollow
  <2>3. entry'[e].owner = u <=> entry[e].owner = u
    BY <1>3, <1>5, <1>6, ConstantsAssumption DEF Members
  <2> QED
    BY <1>3, <1>6, <2>2, <2>3
<1> QED
  BY <1>4, <1>9, <1>10, <1>11 DEF SyncInv, OneAtATime

\* ... and the rows of the new one, if they are nobody's, are the member's.
LEMMA LinkFollows ==
  ASSUME WInv, SyncInv, OneAtATime, NEW c \in Call, Link(c)  PROVE SyncInv'
<1> DEFINE q == call[c]
           hit == IF q.new # None /\ q.user \in Members
                  THEN {e \in Rows : entry[e].steam = q.new /\ entry[e].owner = None} ELSE {}
<1>0. /\ q.at = "link" /\ UNCHANGED user /\ q.user \in User /\ q.op = "relink" /\ Finish(c)
      /\ entry \in [Entry -> Row]
  BY DEF Link, WInv, TableTypeOK, CallShape, FlightShape
<1>2. \A e \in Entry : entry'[e] = IF e \in hit THEN [entry[e] EXCEPT !.owner = q.user] ELSE entry[e]
  BY DEF Link
<1>3. \A e \in Entry : /\ entry'[e].there = entry[e].there /\ entry'[e].steam = entry[e].steam
                       /\ entry'[e].owner = IF e \in hit THEN q.user ELSE entry[e].owner
  <2> HIDE DEF hit
  <2> QED
    BY <1>0, <1>2 DEF Row
<1>4. Members' = Members /\ Rows' = Rows /\ HoldersAreUnique'
  BY <1>0, <1>3 DEF Members, Rows, SyncInv, HoldersAreUnique
<1>5. \A e \in hit : entry[e].owner = None /\ q.user \in Members /\ entry[e].steam = q.new
  OBVIOUS
<1> HIDE DEF q
<1>6. \A e \in Rows : entry[e].steam # None /\ e \in Entry
  BY ConstantsAssumption DEF WInv, RowShape, Rows
<1>7. q.user \in Members => /\ user[q.user].steam = q.new
                            /\ \A e \in Rows : entry[e].owner = q.user => entry[e].steam = q.new
  BY <1>0 DEF SyncInv, CallSync, q
<1>8. ASSUME NEW e \in Rows, NEW u \in Members, u # q.user
      PROVE  /\ entry[e].owner = u <=> user[u].steam = entry[e].steam
             /\ entry'[e].owner = u <=> entry[e].owner = u
  <2> HIDE DEF hit
  <2>1. ~Relinking(u)
    BY <1>8 DEF Relinking, OneAtATime, q
  <2> QED
    BY <1>3, <1>5, <1>6, <1>8, <2>1, ConstantsAssumption DEF SyncInv, RowsFollow, Members
<1>9. ASSUME NEW e \in Rows, q.user \in Members, entry[e].steam = q.new, entry[e].owner # q.user
      PROVE  e \in hit
  <2>1. \A w \in Members : w # q.user => entry[e].owner # w
    <3> SUFFICES ASSUME NEW w \in Members, w # q.user, entry[e].owner = w  PROVE FALSE
      OBVIOUS
    <3>1. user[w].steam = q.new
      BY <1>8, <1>9
    <3> QED
      BY <1>6, <1>7, <1>9, <3>1 DEF SyncInv, HoldersAreUnique
  <2>2. entry[e].owner = None
    BY <1>9, <2>1 DEF SyncInv, OwnersAreMembers, KeyOk
  <2> QED
    BY <1>6, <1>9, <2>2
<1> HIDE DEF hit
<1>10. ASSUME NEW e \in Rows, NEW u \in Members
       PROVE  entry'[e].owner = u <=> user[u].steam = entry'[e].steam
  <2>1. CASE u # q.user
    BY <1>3, <1>6, <1>8, <2>1
  <2>2. CASE u = q.user
    BY <1>3, <1>5, <1>6, <1>7, <1>9, <2>2
  <2> QED
    BY <2>1, <2>2
<1>11. OwnersAreMembers'
  BY <1>3, <1>4, <1>5, <1>6 DEF SyncInv, OwnersAreMembers, KeyOk
<1> QED
  BY <1>0, <1>4, <1>10, <1>11, EndFollows

\* The handler in flight keeps the links, or has still to write what is missing.
LEMMA SyncStep ==
  ASSUME WInv, SyncInv, OneAtATime, [Next]_vars  PROVE SyncInv'
<1>1. ASSUME NEW c \in Call, Continue(c)  PROVE SyncInv'
  <2>1. ~BackfillWrite(c)
    BY DEF BackfillWrite, SyncInv, CallSync
  <2>2. SampleDeploy(c) => SyncInv'
    BY EndedFollow DEF SampleDeploy, LinksSame
  <2> QED
    BY <1>1, <2>1, <2>2, LookupFollows, AddFollows, EditFollows, WriteFollows, UnlinkFollows,
       LinkFollows DEF Continue
<1>2. CASE UNCHANGED vars
  BY <1>2, SameFollow DEF vars, LinksSame
<1>3. ASSUME NEW e \in Entry, Expire(e)  PROVE SyncInv'
  <2>1. LinksSame /\ UNCHANGED call
    BY <1>3 DEF Expire, LinksSame, WInv, TableTypeOK, Row
  <2> QED
    BY <2>1, SameFollow
<1> QED
  BY <1>1, <1>2, <1>3, HandlerFollows, RequestFollows DEF Next
=============================================================================
