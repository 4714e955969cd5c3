------------------------------ MODULE Pages_proofs ------------------------------
(***************************************************************************)
(* Proofs about the pages of the web application (MCPages): what a click on  *)
(* a whitelist request does, and what the entries tab, the roles page and    *)
(* the pages with lists show.  The parts share no state, so each has an       *)
(* inductive invariant of its own; the theorems at the end put them together. *)
(***************************************************************************)
EXTENDS MCPages, TLAPS

(***************************************************************************)
(* Requests of the whitelist (WhitelistRequests).                           *)
(***************************************************************************)

ClickStages == {"approve", "create", "dismiss", "restore", "update"}

\* A click in flight acts for somebody on a server; every fetch asks about a server that is one.
FetchOK(q) ==
  /\ q \in Requests!Fetches
  /\ q.at \in ClickStages => q.who \in Person /\ q.server \in Server
  /\ q.at \in {"entries", "ask"} => q.server \in Server

\* The inductive invariant.
RequestsOK ==
  /\ entry \in [Person -> [Server -> Requests!EntryStates]]
  /\ dismissed \in [Person -> [Server -> BOOLEAN]]
  /\ eligible \in SUBSET Person /\ onServer \in Server /\ list \in Requests!Lists
  /\ other # <<None, None>> => other \in Person \X Server
  /\ fetch \in [Fetch -> Requests!Fetches] /\ \A f \in Fetch : FetchOK(fetch[f])

LEMMA PartitionIsList ==
  ASSUME eligible \in SUBSET Person, NEW v \in Server
  PROVE  Requests!Partition(v) \in Requests!Lists
  BY DEF Requests!Partition, Requests!Lists

LEMMA NoFetchOK == Requests!NoList \in Requests!Lists /\ FetchOK(Requests!NoFetch) /\ Requests!NoFetch.at = "idle"
  BY DEF FetchOK, Requests!NoFetch, Requests!NoList, Requests!Fetches, Requests!Lists, Requests!Stages, ClickStages

LEMMA RequestsInit == Requests!Init => RequestsOK
<1> SUFFICES ASSUME Requests!Init  PROVE RequestsOK
  OBVIOUS
<1>1. \A f \in Fetch : fetch[f] = Requests!NoFetch
  BY DEF Requests!Init
<1>2. fetch \in [Fetch -> Requests!Fetches] /\ \A f \in Fetch : FetchOK(fetch[f])
  BY <1>1, NoFetchOK DEF Requests!Init, FetchOK
<1> QED
  BY <1>2, NoFetchOK, PagesAssumption DEF Requests!Init, RequestsOK, Requests!EntryStates

\* A step that gives fetch f the value q, and leaves the rows alone.
LEMMA FetchStep ==
  ASSUME RequestsOK, NEW f \in Fetch, NEW q, FetchOK(q), fetch' = [fetch EXCEPT ![f] = q],
         onServer' \in Server, list' \in Requests!Lists, UNCHANGED <<eligible, entry, dismissed, other>>
  PROVE  RequestsOK'
  BY DEF RequestsOK, FetchOK

\* What becomes of a fetch that begins, or goes to another stage.
LEMMA Begun ==
  ASSUME NEW at \in Requests!Stages, NEW v \in Server, NEW m \in Person \cup {None}, NEW click \in BOOLEAN,
         at \in ClickStages => m \in Person
  PROVE  FetchOK([at |-> at, server |-> v, who |-> m, click |-> click, data |-> Requests!NoList])
  BY NoFetchOK DEF FetchOK, Requests!Fetches

LEMMA Goes ==
  ASSUME NEW q, FetchOK(q), NEW at \in Requests!Stages, NEW r, r = [q EXCEPT !.at = at],
         q.at \in ClickStages \/ (at = "ask" /\ q.at = "entries") \/ at = "servers"
  PROVE  FetchOK(r) /\ r.at = at
  BY DEF FetchOK, Requests!Fetches, ClickStages

\* A load of server v, as the page begins it.
LEMMA LoadOf ==
  ASSUME NEW v \in Server, NEW q, q = [Requests!NoFetch EXCEPT !.at = "entries", !.server = v]
  PROVE  FetchOK(q) /\ q.at = "entries"
<1>1. Requests!NoFetch \in Requests!Fetches /\ "entries" \in Requests!Stages /\ v \in Server \cup {None}
  BY NoFetchOK DEF FetchOK, Requests!Stages
<1>2. q \in Requests!Fetches /\ q.at = "entries" /\ q.server = v
  BY <1>1 DEF Requests!Fetches
<1> QED
  BY <1>2 DEF FetchOK, ClickStages

LEMMA Stages ==
  /\ \A at \in {"idle", "servers", "entries", "approve", "create", "dismiss", "restore", "update", "ask", "got"} :
       at \in Requests!Stages
  /\ ClickStages \subseteq Requests!Stages
  BY DEF Requests!Stages, ClickStages

\* The steps of fetch f that leave the rows alone.
LEMMA QuietSteps ==
  ASSUME RequestsOK, NEW f \in Fetch,
         \/ Requests!Refresh(f) \/ Requests!Servers(f) \/ Requests!Entries(f) \/ Requests!Ask(f)
         \/ Requests!Apply(f) \/ Requests!Approve(f) \/ Requests!Restore(f) \/ Requests!Fails(f)
         \/ \E v \in Server : Requests!Switch(f, v)
         \/ \E m \in Person, what \in {"approve", "dismiss", "restore"} : Requests!Click(f, m, what)
  PROVE  /\ RequestsOK' /\ UNCHANGED <<eligible, entry, dismissed, other>>
         /\ \E q : /\ fetch' = [fetch EXCEPT ![f] = q]
                   /\ fetch[f].at \in {"create", "dismiss"} => q.at # "ask"
<1>1. fetch \in [Fetch -> Requests!Fetches] /\ FetchOK(fetch[f]) /\ onServer \in Server /\ list \in Requests!Lists
  BY DEF RequestsOK
<1>2. CASE Requests!Refresh(f)
  <2> DEFINE q == [at |-> "entries", server |-> onServer, who |-> None, click |-> FALSE, data |-> Requests!NoList]
  <2>1. FetchOK(q) /\ q.at = "entries"
    BY <1>1, Begun, Stages DEF ClickStages
  <2>2. fetch' = [fetch EXCEPT ![f] = q] /\ UNCHANGED <<eligible, entry, dismissed, other, onServer, list>>
    BY <1>2 DEF Requests!Refresh, Requests!Begin, Requests!db
  <2> HIDE DEF q
  <2> QED
    BY <1>1, <2>1, <2>2, FetchStep
<1>3. CASE Requests!Servers(f)
  <2> DEFINE q == IF onServer' = onServer THEN Requests!NoFetch
                  ELSE [Requests!NoFetch EXCEPT !.at = "entries", !.server = onServer']
  <2>1. onServer' \in Server
    BY <1>3, PagesAssumption DEF Requests!Servers
  <2>2. FetchOK(q) /\ q.at # "ask"
    <3>1. CASE onServer' = onServer
      BY <3>1, NoFetchOK
    <3>2. CASE onServer' # onServer
      <4>1. q = [Requests!NoFetch EXCEPT !.at = "entries", !.server = onServer']
        BY <3>2
      <4> HIDE DEF q
      <4> QED
        BY <2>1, <4>1, LoadOf
    <3> QED
      BY <3>1, <3>2
  <2>3. fetch' = [fetch EXCEPT ![f] = q] /\ UNCHANGED <<eligible, entry, dismissed, other, list>>
    BY <1>3 DEF Requests!Servers, Requests!db
  <2> HIDE DEF q
  <2> QED
    BY <1>1, <2>1, <2>2, <2>3, FetchStep
<1>4. CASE Requests!Entries(f)
  <2> DEFINE q == [fetch[f] EXCEPT !.at = "ask"]
  <2>1. /\ fetch' = [fetch EXCEPT ![f] = q] /\ fetch[f].at = "entries"
        /\ UNCHANGED <<eligible, entry, dismissed, other, onServer, list>>
    BY <1>1, <1>4 DEF Requests!Entries, Requests!Goto, Requests!db
  <2>2. FetchOK(q)
    BY <1>1, <2>1, Goes, Stages
  <2> HIDE DEF q
  <2> QED
    BY <1>1, <2>1, <2>2, FetchStep
<1>5. CASE Requests!Ask(f)
  <2> DEFINE q == [fetch[f] EXCEPT !.at = "got", !.data = Requests!Partition(fetch[f].server)]
  <2>1. /\ fetch' = [fetch EXCEPT ![f] = q] /\ fetch[f].at = "ask"
        /\ UNCHANGED <<eligible, entry, dismissed, other, onServer, list>>
    BY <1>1, <1>5 DEF Requests!Ask, Requests!db
  <2>2. Requests!Partition(fetch[f].server) \in Requests!Lists
    BY <1>1, <2>1, PartitionIsList DEF FetchOK, RequestsOK
  <2>3. FetchOK(q)
    BY <1>1, <2>2, Stages DEF FetchOK, Requests!Fetches, ClickStages
  <2> HIDE DEF q
  <2> QED
    BY <1>1, <2>1, <2>3, FetchStep
<1>6. CASE Requests!Apply(f)
  <2>1. /\ fetch' = [fetch EXCEPT ![f] = Requests!NoFetch] /\ list' = fetch[f].data
        /\ UNCHANGED <<eligible, entry, dismissed, other, onServer>>
    BY <1>6 DEF Requests!Apply, Requests!End, Requests!db
  <2>2. list' \in Requests!Lists
    BY <1>1, <2>1 DEF Requests!Fetches
  <2> QED
    BY <1>1, <2>1, <2>2, NoFetchOK, FetchStep
<1>7. CASE Requests!Approve(f) \/ Requests!Restore(f)
  <2>1. PICK q : /\ fetch' = [fetch EXCEPT ![f] = q] /\ fetch[f].at \in {"approve", "restore"}
                 /\ q \in {Requests!NoFetch, [fetch[f] EXCEPT !.at = "create"], [fetch[f] EXCEPT !.at = "update"]}
    BY <1>1, <1>7 DEF Requests!Approve, Requests!Restore, Requests!End, Requests!Goto
  <2>2. UNCHANGED <<eligible, entry, dismissed, other, onServer, list>>
    BY <1>7 DEF Requests!Approve, Requests!Restore, Requests!db
  <2>3. FetchOK(q)
    BY <1>1, <2>1, NoFetchOK, Goes, Stages DEF ClickStages
  <2> QED
    BY <1>1, <2>1, <2>2, <2>3, FetchStep
<1>8. CASE Requests!Fails(f)
  <2>1. fetch' = [fetch EXCEPT ![f] = Requests!NoFetch] /\ UNCHANGED <<eligible, entry, dismissed, other, onServer, list>>
    BY <1>8 DEF Requests!Fails, Requests!End, Requests!db
  <2> QED
    BY <1>1, <2>1, NoFetchOK, FetchStep
<1>9. ASSUME NEW v \in Server, Requests!Switch(f, v)
      PROVE  /\ RequestsOK' /\ UNCHANGED <<eligible, entry, dismissed, other>>
             /\ \E q : fetch' = [fetch EXCEPT ![f] = q] /\ q.at # "ask"
  <2> DEFINE q == [Requests!NoFetch EXCEPT !.at = "entries", !.server = v]
  <2>1. FetchOK(q) /\ q.at = "entries"
    BY LoadOf
  <2>2. fetch' = [fetch EXCEPT ![f] = q] /\ onServer' = v /\ UNCHANGED <<eligible, entry, dismissed, other, list>>
    BY <1>9 DEF Requests!Switch, Requests!db
  <2> HIDE DEF q
  <2> QED
    BY <1>1, <2>1, <2>2, FetchStep
<1>10. ASSUME NEW m \in Person, NEW what \in {"approve", "dismiss", "restore"}, Requests!Click(f, m, what)
       PROVE  /\ RequestsOK' /\ UNCHANGED <<eligible, entry, dismissed, other>>
              /\ \E q : fetch' = [fetch EXCEPT ![f] = q] /\ q.at # "ask"
  <2> DEFINE q == [at |-> what, server |-> onServer, who |-> m, click |-> TRUE, data |-> Requests!NoList]
  <2>1. FetchOK(q) /\ q.at = what
    BY <1>1, Begun, Stages
  <2>2. fetch' = [fetch EXCEPT ![f] = q] /\ UNCHANGED <<eligible, entry, dismissed, other, onServer, list>>
    BY <1>10 DEF Requests!Click, Requests!Begin, Requests!db
  <2> HIDE DEF q
  <2> QED
    BY <1>1, <2>1, <2>2, FetchStep
<1> QED
  BY <1>2, <1>3, <1>4, <1>5, <1>6, <1>7, <1>8, <1>9, <1>10

\* A renewed token: two fetches begin.
LEMMA RenewStep ==
  ASSUME RequestsOK, NEW f \in Fetch, NEW g \in Fetch, Requests!Renew(f, g)
  PROVE  /\ RequestsOK'
         /\ \A h \in Fetch : fetch[h].at \in {"create", "dismiss"} => fetch'[h].at # "ask"
<1> DEFINE p == [fetch[f] EXCEPT !.at = "servers"]
           q == [Requests!NoFetch EXCEPT !.at = "entries", !.server = onServer]
<1>1. fetch \in [Fetch -> Requests!Fetches] /\ FetchOK(fetch[f]) /\ onServer \in Server
  BY DEF RequestsOK
<1>2. FetchOK(p) /\ p.at = "servers"
  BY <1>1, Goes, Stages
<1>3. FetchOK(q) /\ q.at = "entries"
  BY <1>1, LoadOf
<1>4. f # g /\ fetch' = [fetch EXCEPT ![f].at = "servers", ![g] = q]
      /\ UNCHANGED <<eligible, entry, dismissed, other, onServer, list>>
  BY DEF Requests!Renew, Requests!db
<1> HIDE DEF q
<1>5. fetch' = [fetch EXCEPT ![f] = p, ![g] = q]
  BY <1>1, <1>4
<1> HIDE DEF p
<1>6. fetch' \in [Fetch -> Requests!Fetches] /\ \A h \in Fetch : FetchOK(fetch'[h])
  BY <1>1, <1>2, <1>3, <1>5 DEF RequestsOK, FetchOK
<1>7. RequestsOK'
  BY <1>4, <1>6 DEF RequestsOK, FetchOK
<1> QED
  BY <1>1, <1>2, <1>3, <1>5, <1>7

-----------------------------------------------------------------------------
(* The steps that write rows.                                              *)

\* Requests of a server depend on its entries and dismissals alone.
LEMMA PartitionStays ==
  ASSUME eligible \in SUBSET Person, UNCHANGED eligible, NEW v \in Server,
         \A m \in Person : entry'[m][v] = entry[m][v] /\ dismissed'[m][v] = dismissed[m][v]
  PROVE  Requests!Partition(v)' = Requests!Partition(v)
  BY DEF Requests!Partition

\* A request that was carried out is off the list of its server.
LEMMA OffTheList ==
  ASSUME NEW m, NEW v \in Server, entry'[m][v] = "active" \/ dismissed'[m][v]
  PROVE  m \notin Requests!Partition(v)'.pending
  BY DEF Requests!Partition

\* One cell of a table of persons and servers is written.
LEMMA Written ==
  ASSUME NEW S, NEW T \in [Person -> [Server -> S]], NEW m \in Person, NEW v \in Server, NEW b \in S,
         NEW U, U = [T EXCEPT ![m][v] = b]
  PROVE  /\ U \in [Person -> [Server -> S]] /\ U[m][v] = b
         /\ \A o \in Person, w \in Server \ {v} : U[o][w] = T[o][w]
  OBVIOUS

\* What ActsPerServer says of fetch f in a step.
ActsFor(f) ==
  LET q == fetch[f] IN
  q.at \in {"create", "dismiss"} /\ fetch'[f].at = "ask"
  => /\ q.who \notin Requests!Partition(q.server)'.pending
     /\ \A v \in Server \ {q.server} : Requests!Partition(v)' = Requests!Partition(v)

LEMMA CreateStep ==
  ASSUME RequestsOK, NEW f \in Fetch, Requests!Create(f)
  PROVE  RequestsOK' /\ (\E q : fetch' = [fetch EXCEPT ![f] = q]) /\ ActsFor(f)
<1> DEFINE m == fetch[f].who  q == [fetch[f] EXCEPT !.at = "ask"]
<1>1. /\ fetch \in [Fetch -> Requests!Fetches] /\ FetchOK(fetch[f]) /\ onServer \in Server
      /\ list \in Requests!Lists /\ eligible \in SUBSET Person
      /\ entry \in [Person -> [Server -> Requests!EntryStates]]
  BY DEF RequestsOK
<1>2. fetch[f].at = "create" /\ UNCHANGED <<eligible, dismissed, other, onServer, list>>
  BY DEF Requests!Create
<1>3. m \in Person /\ \E v \in Server : v = fetch[f].server
  BY <1>1, <1>2 DEF FetchOK, ClickStages
<1> PICK v \in Server : v = fetch[f].server
  BY <1>3
<1>4. CASE entry[m][v] # "none"
  <2>1. fetch' = [fetch EXCEPT ![f] = Requests!NoFetch] /\ entry' = entry
    BY <1>4 DEF Requests!Create, Requests!End
  <2>2. RequestsOK'
    BY <1>1, <1>2, <2>1, NoFetchOK, FetchStep
  <2>3. fetch'[f].at = "idle"
    BY <1>1, <2>1, NoFetchOK
  <2> QED
    BY <2>1, <2>2, <2>3 DEF ActsFor
<1>5. CASE ~(entry[m][v] # "none")
  <2>1. entry' = [entry EXCEPT ![m][v] = "active"] /\ fetch' = [fetch EXCEPT ![f] = q]
    BY <1>1, <1>5 DEF Requests!Create, Requests!Goto
  <2>2. FetchOK(q)
    BY <1>1, <1>2, Goes, Stages DEF ClickStages
  <2>3. /\ entry' \in [Person -> [Server -> Requests!EntryStates]] /\ entry'[m][v] = "active"
        /\ \A o \in Person, w \in Server \ {v} : entry'[o][w] = entry[o][w]
    <3>1. "active" \in Requests!EntryStates
      BY DEF Requests!EntryStates
    <3> QED
      BY <1>1, <1>3, <2>1, <3>1, Written
  <2>4. RequestsOK'
    <3>1. fetch' \in [Fetch -> Requests!Fetches] /\ \A h \in Fetch : FetchOK(fetch'[h])
      BY <1>1, <2>1, <2>2 DEF RequestsOK, FetchOK
    <3> QED
      BY <1>2, <2>3, <3>1 DEF RequestsOK, FetchOK
  <2>5. ActsFor(f)
    <3>1. m \notin Requests!Partition(v)'.pending
      BY <1>3, <2>3, OffTheList
    <3>2. ASSUME NEW w \in Server \ {v}  PROVE Requests!Partition(w)' = Requests!Partition(w)
      BY <1>1, <1>2, <2>3, PartitionStays
    <3>3. fetch'[f].server = v
      BY <1>1, <2>1
    <3> QED
      BY <3>1, <3>2, <3>3 DEF ActsFor
  <2> QED
    BY <2>1, <2>4, <2>5
<1> QED
  BY <1>4, <1>5

LEMMA DismissStep ==
  ASSUME RequestsOK, NEW f \in Fetch, Requests!Dismiss(f) \/ Requests!Update(f)
  PROVE  RequestsOK' /\ (\E q : fetch' = [fetch EXCEPT ![f] = q]) /\ ActsFor(f)
<1> DEFINE m == fetch[f].who  q == [fetch[f] EXCEPT !.at = "ask"]
<1>1. /\ fetch \in [Fetch -> Requests!Fetches] /\ FetchOK(fetch[f]) /\ onServer \in Server
      /\ list \in Requests!Lists /\ eligible \in SUBSET Person
      /\ dismissed \in [Person -> [Server -> BOOLEAN]]
  BY DEF RequestsOK
<1>2. /\ fetch[f].at \in {"dismiss", "update"} /\ UNCHANGED <<eligible, entry, other, onServer, list>>
      /\ fetch' = [fetch EXCEPT ![f] = q]
  BY <1>1 DEF Requests!Dismiss, Requests!Update, Requests!Goto
<1>3. m \in Person /\ \E v \in Server : v = fetch[f].server
  BY <1>1, <1>2 DEF FetchOK, ClickStages
<1> PICK v \in Server : v = fetch[f].server
  BY <1>3
<1>4. PICK b \in BOOLEAN : /\ dismissed' = [dismissed EXCEPT ![m][v] = b]
                           /\ fetch[f].at = "dismiss" => b = TRUE
  BY <1>2 DEF Requests!Dismiss, Requests!Update, Requests!SetDismissed
<1>5. /\ dismissed' \in [Person -> [Server -> BOOLEAN]] /\ dismissed'[m][v] = b
      /\ \A o \in Person, w \in Server \ {v} : dismissed'[o][w] = dismissed[o][w]
  BY <1>1, <1>3, <1>4, Written
<1>6. FetchOK(q)
  BY <1>1, <1>2, Goes, Stages DEF ClickStages
<1>7. RequestsOK'
  <2>1. fetch' \in [Fetch -> Requests!Fetches] /\ \A h \in Fetch : FetchOK(fetch'[h])
    BY <1>1, <1>2, <1>6 DEF RequestsOK, FetchOK
  <2> QED
    BY <1>2, <1>5, <2>1 DEF RequestsOK, FetchOK
<1>8. ActsFor(f)
  <2>1. fetch[f].at = "dismiss" => m \notin Requests!Partition(v)'.pending
    BY <1>3, <1>4, <1>5, OffTheList
  <2>2. ASSUME NEW w \in Server \ {v}  PROVE Requests!Partition(w)' = Requests!Partition(w)
    BY <1>1, <1>2, <1>5, PartitionStays
  <2>3. fetch'[f].server = v
    BY <1>1, <1>2
  <2> QED
    BY <1>2, <2>1, <2>2, <2>3 DEF ActsFor
<1> QED
  BY <1>2, <1>7, <1>8

\* What other staff do leaves the page's fetches as they are.
LEMMA OthersStep ==
  ASSUME RequestsOK, Requests!Others \/ Requests!OtherUpdates
  PROVE  RequestsOK' /\ UNCHANGED fetch
<1>1. UNCHANGED <<onServer, list, fetch>>
  BY DEF Requests!Others, Requests!OtherUpdates, Requests!page
<1>2. /\ entry \in [Person -> [Server -> Requests!EntryStates]]
      /\ dismissed \in [Person -> [Server -> BOOLEAN]]
      /\ eligible \in SUBSET Person /\ (other # <<None, None>> => other \in Person \X Server)
  BY DEF RequestsOK
<1> DEFINE Rows == /\ entry' \in [Person -> [Server -> Requests!EntryStates]]
                   /\ dismissed' \in [Person -> [Server -> BOOLEAN]]
                   /\ eligible' \in SUBSET Person
                   /\ (other' # <<None, None>> => other' \in Person \X Server)
<1>3. CASE Requests!OtherUpdates
  <2>1. /\ other \in Person \X Server /\ UNCHANGED <<eligible, entry>> /\ other' = <<None, None>>
        /\ dismissed' = [dismissed EXCEPT ![other[1]][other[2]] = FALSE]
    BY <1>2, <1>3 DEF Requests!OtherUpdates, Requests!SetDismissed
  <2>2. other[1] \in Person /\ other[2] \in Server
    BY <2>1
  <2>3. dismissed' \in [Person -> [Server -> BOOLEAN]]
    BY <1>2, <2>1, <2>2, Written
  <2>4. Rows
    BY <1>2, <2>1, <2>3
  <2> QED
    BY <1>1, <2>4 DEF RequestsOK, FetchOK
<1>4. CASE Requests!Others
  <2>1. ASSUME NEW m \in Person, eligible' = (eligible \ {m}) \cup ({m} \ eligible),
               UNCHANGED <<entry, dismissed, other>>
        PROVE  Rows
    BY <1>2, <2>1
  <2>2. ASSUME NEW m \in Person, NEW v \in Server, NEW s \in Requests!EntryStates,
               entry' = [entry EXCEPT ![m][v] = s], UNCHANGED <<eligible, dismissed, other>>
        PROVE  Rows
    <3>1. entry' \in [Person -> [Server -> Requests!EntryStates]]
      BY <1>2, <2>2, Written
    <3> QED
      BY <1>2, <2>2, <3>1
  <2>3. ASSUME NEW m \in Person, NEW v \in Server,
               Requests!SetDismissed(m, v, ~dismissed[m][v]), UNCHANGED <<eligible, entry, other>>
        PROVE  Rows
    <3>1. PICK b \in BOOLEAN : dismissed' = [dismissed EXCEPT ![m][v] = b]
      BY <1>2, <2>3, Zenon DEF Requests!SetDismissed
    <3>2. dismissed' \in [Person -> [Server -> BOOLEAN]]
      BY <1>2, <3>1, Written
    <3> QED
      BY <1>2, <2>3, <3>2
  <2>4. ASSUME NEW m \in Person, NEW v \in Server, other' = <<m, v>>, UNCHANGED <<eligible, entry, dismissed>>
        PROVE  Rows
    BY <1>2, <2>4
  <2>5. Rows
    BY <1>4, <2>1, <2>2, <2>3, <2>4 DEF Requests!Others, Requests!db
  <2> QED
    BY <1>1, <2>5 DEF RequestsOK, FetchOK
<1> QED
  BY <1>1, <1>3, <1>4

-----------------------------------------------------------------------------
\* Every step keeps the invariant and does to fetches what ActsPerServer says.
LEMMA RequestsStep ==
  ASSUME RequestsOK, [Requests!Next]_(Requests!vars)
  PROVE  RequestsOK' /\ \A f \in Fetch : ActsFor(f)
<1>1. fetch \in [Fetch -> Requests!Fetches]
  BY DEF RequestsOK
<1>2. ASSUME NEW f \in Fetch, NEW q, fetch' = [fetch EXCEPT ![f] = q], ActsFor(f)
      PROVE  \A h \in Fetch : ActsFor(h)
  BY <1>1, <1>2 DEF ActsFor
<1>3. ASSUME NEW f \in Fetch,
             \/ Requests!Refresh(f) \/ Requests!Servers(f) \/ Requests!Entries(f) \/ Requests!Ask(f)
             \/ Requests!Apply(f) \/ Requests!Approve(f) \/ Requests!Restore(f) \/ Requests!Fails(f)
             \/ \E v \in Server : Requests!Switch(f, v)
             \/ \E m \in Person, what \in {"approve", "dismiss", "restore"} : Requests!Click(f, m, what)
      PROVE  RequestsOK' /\ \A h \in Fetch : ActsFor(h)
  <2>1. RequestsOK'
    BY <1>3, QuietSteps
  <2>2. PICK q : fetch' = [fetch EXCEPT ![f] = q] /\ (fetch[f].at \in {"create", "dismiss"} => q.at # "ask")
    BY <1>3, QuietSteps
  <2>3. ActsFor(f)
    BY <1>1, <2>2 DEF ActsFor
  <2> QED
    BY <1>2, <2>1, <2>2, <2>3
<1>4. ASSUME NEW f \in Fetch, Requests!Create(f) \/ Requests!Dismiss(f) \/ Requests!Update(f)
      PROVE  RequestsOK' /\ \A h \in Fetch : ActsFor(h)
  BY <1>2, <1>4, CreateStep, DismissStep
<1>5. ASSUME NEW f \in Fetch, NEW g \in Fetch, Requests!Renew(f, g)
      PROVE  RequestsOK' /\ \A h \in Fetch : ActsFor(h)
  BY <1>5, RenewStep DEF ActsFor
<1>6. CASE Requests!Others \/ Requests!OtherUpdates
  BY <1>6, OthersStep DEF ActsFor
<1>7. CASE UNCHANGED <<eligible, entry, dismissed, onServer, list, fetch, other>>
  BY <1>7 DEF RequestsOK, FetchOK, ActsFor
<1>8. CASE Requests!Poll \/ \E k \in Count : Requests!Counted(k) \/ Requests!ShowBadge(k)
  BY <1>7, <1>8 DEF Requests!Poll, Requests!Counted, Requests!ShowBadge, Requests!db, Requests!page
<1>9. CASE UNCHANGED Requests!vars
  BY <1>7, <1>9 DEF Requests!vars, Requests!db, Requests!page
<1> QED
  BY <1>3, <1>4, <1>5, <1>6, <1>8, <1>9 DEF Requests!Next, Requests!Progress

(***************************************************************************)
(* The modal of the Entries tab (EntriesTab).                               *)
(***************************************************************************)

\* The inductive invariant: a question is a record, and about the entry that is shown unless it
\* was overtaken.
ModalOK ==
  /\ confirm # None => DOMAIN confirm = {"of", "overtaken"}
  /\ Tab!ModalIsOfEntry

LEMMA TabInit == Tab!Init => ModalOK
  BY DEF Tab!Init, ModalOK, Tab!ModalIsOfEntry

LEMMA TabAnswer ==
  ASSUME ModalOK, NEW c \in AskId, Tab!Answer(c)
  PROVE  ModalOK'
<1>1. CASE UNCHANGED <<selected, form, confirm>>
  BY <1>1 DEF ModalOK, Tab!ModalIsOfEntry
<1>2. CASE form' = None /\ confirm' = None
  BY <1>2 DEF ModalOK, Tab!ModalIsOfEntry
<1>3. ASSUME NEW e, Tab!Reselect(e)  PROVE ModalOK'
  <2>1. CASE confirm = None \/ e = selected
    BY <1>3, <2>1 DEF Tab!Reselect, ModalOK, Tab!ModalIsOfEntry
  <2>2. CASE ~(confirm = None \/ e = selected)
    <3>1. confirm' = [confirm EXCEPT !.overtaken = TRUE] /\ form' = None
      BY <1>3, <2>2 DEF Tab!Reselect
    <3>2. DOMAIN confirm' = {"of", "overtaken"} /\ confirm'.overtaken
      BY <2>2, <3>1 DEF ModalOK
    <3> QED
      BY <3>1, <3>2 DEF ModalOK, Tab!ModalIsOfEntry
  <2> QED
    BY <2>1, <2>2
<1> QED
  BY <1>1, <1>2, <1>3 DEF Tab!Answer, Tab!Opened, Tab!Saved, Tab!Deleted, Tab!CloseModal, Tab!Added,
     Tab!BulkDone, Tab!Shown, Tab!modal

LEMMA TabStep ==
  ASSUME ModalOK, [Tab!Next]_(Tab!vars)
  PROVE  ModalOK'
<1>1. CASE UNCHANGED <<selected, form, confirm>>
  BY <1>1 DEF ModalOK, Tab!ModalIsOfEntry
<1>2. CASE Tab!CloseProfile \/ Tab!StartEdit \/ Tab!AskDelete \/ Tab!Cancel
  <2>1. confirm' = [of |-> selected, overtaken |-> FALSE]
        => DOMAIN confirm' = {"of", "overtaken"} /\ confirm'.of = selected
    OBVIOUS
  <2> QED
    BY <1>2, <2>1 DEF Tab!CloseProfile, Tab!StartEdit, Tab!AskDelete, Tab!Cancel, Tab!CloseModal,
       ModalOK, Tab!ModalIsOfEntry
<1>3. CASE Tab!OpenImport \/ Tab!Bulk \/ Tab!Others
  BY <1>1, <1>3 DEF Tab!OpenImport, Tab!Bulk, Tab!Others, Tab!modal
<1>4. ASSUME NEW c \in AskId,
             \/ Tab!Refresh(c) \/ Tab!HandleAdd(c) \/ Tab!ConfirmImport(c) \/ Tab!SaveEdit(c)
             \/ Tab!DeleteFromModal(c) \/ Tab!ExecuteBulkAction(c) \/ Tab!Serve(c) \/ Tab!Refuse(c)
             \/ \E d \in AskId : Tab!Renew(c, d)
             \/ \E v \in Server : Tab!Switch(c, v)
             \/ \E e \in Id : Tab!OpenProfile(c, e)
      PROVE  UNCHANGED <<selected, form, confirm>>
  BY <1>4 DEF Tab!Refresh, Tab!HandleAdd, Tab!ConfirmImport, Tab!SaveEdit, Tab!DeleteFromModal,
     Tab!ExecuteBulkAction, Tab!Serve, Tab!Refuse, Tab!Renew, Tab!Switch, Tab!OpenProfile, Tab!Click, Tab!modal
<1>5. ASSUME NEW c \in AskId, Tab!Failed(c)  PROVE ModalOK'
  BY <1>5 DEF Tab!Failed, ModalOK, Tab!ModalIsOfEntry
<1>6. CASE UNCHANGED Tab!vars
  BY <1>1, <1>6 DEF Tab!vars, Tab!modal
<1> QED
  BY <1>1, <1>2, <1>3, <1>4, <1>5, <1>6, TabAnswer DEF Tab!Next

(***************************************************************************)
(* The roles page (RoleDesk).                                               *)
(***************************************************************************)

CallFields == {"op", "at", "by", "of", "perms", "flag", "data"}
Tables == [Role -> RoleList!Rows \cup {None}]

\* What a request carries; one about a role's row is about a role, one for its members about
\* the role whose panel is open.
CallOK(q) ==
  /\ DOMAIN q = CallFields
  /\ q.perms \in SUBSET Perm /\ q.flag \in BOOLEAN /\ q.data \in Tables
  /\ q.op \in {"put", "patch", "delete"} => q.of \in Role
CallsOK == DOMAIN query = AskId /\ \A c \in AskId : CallOK(query[c])
Heard == \A c \in AskId : query[c].op = "members" => query[c].of = expanded.of

PageOK ==
  /\ role \in [Role -> RoleList!Rows \cup {None, Gone}] /\ roles \in Tables
  /\ pending \in [Role -> (SUBSET Perm) \cup {None}]
  /\ DOMAIN expanded = {"of", "members", "asked"}

\* One PUT at most is under way for a role that none was mixed for, and what it left is what
\* it meant; a role that is not there yet has no history.
HistoryOf(r) ==
  LET under == RoleList!Under(r) IN
  /\ role[r] = None => meant[r] = {} /\ under = {}
  /\ RoleList!There(r) /\ r \notin mixed =>
       /\ role[r].perms = meant[r]
       /\ under # {} => meant[r] = {}
       /\ \A c, d \in under : c = d
HistoryOK == DOMAIN meant = Role /\ \A r \in Role : HistoryOf(r)

\* The inductive invariant.
RolesOK == /\ CallsOK /\ Heard /\ PageOK /\ HistoryOK
           /\ RoleList!MembersAreOfRole /\ RoleList!DisabledIsWaiting

LEMMA IdleOK ==
  /\ CallOK(RoleList!Idle) /\ RoleList!Idle.op = "idle" /\ RoleList!Idle.at = "asked"
  /\ RoleList!Empty \in Tables
  BY DEF CallOK, CallFields, Tables, RoleList!Idle, RoleList!Empty

LEMMA RolesInit == RoleList!Init => RolesOK
<1> SUFFICES ASSUME RoleList!Init  PROVE RolesOK
  OBVIOUS
<1>1. PICK c \in AskId : query = [o \in AskId |-> IF o = c THEN [RoleList!Idle EXCEPT !.op = "init"] ELSE RoleList!Idle]
  BY DEF RoleList!Init
<1> DEFINE q == [RoleList!Idle EXCEPT !.op = "init"]
<1>2. CallOK(q) /\ q.op = "init" /\ q.at = "asked"
  BY IdleOK DEF CallOK, CallFields
<1> HIDE DEF q
<1>3. \A o \in AskId : query[o] \in {q, RoleList!Idle}
  BY <1>1 DEF q
<1>4. CallsOK /\ Heard /\ \A r \in Role : RoleList!Under(r) = {}
  BY <1>1, <1>2, <1>3, IdleOK DEF CallsOK, Heard, RoleList!Under
<1>5. PageOK
  <2>1. {[perms |-> P, flag |-> FALSE] : P \in SUBSET Perm} \subseteq RoleList!Rows
    <3>1. \A P \in SUBSET Perm : [perms |-> P, flag |-> FALSE] \in RoleList!Rows
      BY DEF RoleList!Rows
    <3> QED
      BY <3>1
  <2>2. role \in [Role -> RoleList!Rows \cup {None, Gone}]
    BY <2>1 DEF RoleList!Init
  <2>3. roles \in Tables
    BY IdleOK DEF RoleList!Init
  <2>4. pending \in [Role -> (SUBSET Perm) \cup {None}]
    BY DEF RoleList!Init, RoleList!Empty
  <2>5. expanded = [of |-> None, members |-> None, asked |-> FALSE]
    BY DEF RoleList!Init
  <2>6. DOMAIN expanded = {"of", "members", "asked"}
    BY <2>5
  <2> QED
    BY <2>2, <2>3, <2>4, <2>6 DEF PageOK
<1>6. HistoryOK
  BY <1>4 DEF HistoryOK, HistoryOf, RoleList!Init, RoleList!There
<1>7. RoleList!MembersAreOfRole /\ RoleList!DisabledIsWaiting
  BY DEF RoleList!MembersAreOfRole, RoleList!DisabledIsWaiting, RoleList!Init
<1> QED
  BY <1>4, <1>5, <1>6, <1>7 DEF RolesOK

\* No PUT is under way that was not before.
UnderShrinks ==
  \A o \in AskId : query'[o].op = "put" /\ query'[o].at = "cleared"
    => query[o].op = "put" /\ query[o].at = "cleared" /\ query[o].of = query'[o].of

LEMMA HistoryStays ==
  ASSUME HistoryOK, UnderShrinks, UNCHANGED <<role, meant, mixed>>
  PROVE  HistoryOK'
<1>1. \A r \in Role : RoleList!Under(r)' \subseteq RoleList!Under(r)
  BY DEF UnderShrinks, RoleList!Under
<1>2. ASSUME NEW r \in Role  PROVE HistoryOf(r)'
  <2>1. HistoryOf(r) /\ RoleList!Under(r)' \subseteq RoleList!Under(r)
    BY <1>1 DEF HistoryOK
  <2>2. RoleList!There(r)' = RoleList!There(r)
    BY DEF RoleList!There
  <2> QED
    BY <2>1, <2>2 DEF HistoryOf
<1> QED
  BY <1>2 DEF HistoryOK

\* A page's request of kind op waits for its answer.
Waits(op) == \E c \in AskId : query[c].op = op /\ query[c].by = "page"
StillWaits == \A op \in {"put", "patch", "post"} : Waits(op) => Waits(op)'

LEMMA WaitingStays ==
  ASSUME RoleList!DisabledIsWaiting, StillWaits,
         savingId' \in {savingId, None} \/ Waits("put")', toggling' \in {toggling, None} \/ Waits("patch")',
         adding' => adding \/ Waits("post")'
  PROVE  RoleList!DisabledIsWaiting'
  BY DEF RoleList!DisabledIsWaiting, StillWaits, Waits

\* A request begins.
LEMMA AskStep ==
  ASSUME CallsOK, Heard, NEW c \in AskId, NEW q, CallOK(q), q.at = "asked", RoleList!Ask(c, q),
         q.op = "members" => q.of = expanded.of, expanded'.of = expanded.of
  PROVE  /\ CallsOK' /\ Heard' /\ UnderShrinks /\ StillWaits
         /\ q.op \in {"put", "patch", "post"} /\ q.by = "page" => Waits(q.op)'
<1>1. query[c] = RoleList!Idle /\ query' = [query EXCEPT ![c] = q]
  BY DEF RoleList!Ask
<1>2. query[c].op = "idle"
  BY <1>1, IdleOK
<1>3. /\ DOMAIN query' = AskId /\ query'[c] = q /\ \A o \in AskId \ {c} : query'[o] = query[o]
  BY <1>1 DEF CallsOK
<1> QED
  BY <1>2, <1>3 DEF CallsOK, Heard, UnderShrinks, StillWaits, Waits

\* Nothing is asked, or what is asked for the panel is forgotten.
LEMMA ForgetStep ==
  ASSUME CallsOK, DOMAIN query' = AskId,
         \A o \in AskId : query'[o] \in {query[o], RoleList!Idle} /\ (query[o].op # "members" => query'[o] = query[o]),
         expanded'.of = expanded.of \/ \A o \in AskId : query'[o].op # "members", Heard
  PROVE  CallsOK' /\ Heard' /\ UnderShrinks /\ StillWaits
  BY IdleOK DEF CallsOK, Heard, UnderShrinks, StillWaits, Waits


\* The permissions a row of the page shows, toggled or not.
LEMMA EffectiveOK ==
  ASSUME PageOK, NEW r \in RoleList!Listed
  PROVE  RoleList!Effective(r) \in SUBSET Perm /\ \A P \in RoleList!Toggled(RoleList!Effective(r)) : P \in SUBSET Perm
<1>1. r \in Role /\ roles[r] \in RoleList!Rows
  BY DEF PageOK, Tables, RoleList!Listed
<1>2. pending[r] \in (SUBSET Perm) \cup {None} /\ roles[r].perms \in SUBSET Perm
  BY <1>1 DEF PageOK, RoleList!Rows
<1>3. RoleList!Effective(r) \in SUBSET Perm
  BY <1>2 DEF RoleList!Effective
<1>4. ASSUME NEW E \in SUBSET Perm  PROVE \A P \in RoleList!Toggled(E) : P \in SUBSET Perm
  BY DEF RoleList!Toggled
<1> QED
  BY <1>3, <1>4

\* What the page's user does without a request.
LEMMA ClickStep ==
  ASSUME RolesOK, NEW r \in Role,
         RoleList!TogglePermission(r) \/ RoleList!DiscardChanges(r) \/ RoleList!AskDelete(r) \/ RoleList!Expand(r)
  PROVE  RolesOK'
<1>1. CallsOK /\ Heard /\ PageOK /\ HistoryOK /\ RoleList!DisabledIsWaiting
  BY DEF RolesOK
<1>2. UNCHANGED <<role, meant, mixed, roles, savingId, toggling, adding>>
  BY DEF RoleList!TogglePermission, RoleList!DiscardChanges, RoleList!AskDelete, RoleList!Expand, RoleList!history
<1>3. PageOK' /\ RoleList!MembersAreOfRole'
  <2>1. CASE RoleList!TogglePermission(r)
    <3>1. PICK P \in SUBSET Perm : pending' = [pending EXCEPT ![r] = P]
      BY <1>1, <2>1, EffectiveOK DEF RoleList!TogglePermission
    <3>2. pending' \in [Role -> (SUBSET Perm) \cup {None}]
      BY <1>1, <3>1 DEF PageOK
    <3>3. expanded' = expanded
      BY <2>1 DEF RoleList!TogglePermission
    <3> QED
      BY <1>1, <1>2, <3>2, <3>3 DEF RolesOK, PageOK, RoleList!MembersAreOfRole
  <2>2. CASE RoleList!DiscardChanges(r) \/ RoleList!AskDelete(r)
    <3>1. expanded' = expanded /\ (pending' = pending \/ pending' = [pending EXCEPT ![r] = None])
      BY <2>2 DEF RoleList!DiscardChanges, RoleList!AskDelete
    <3>2. pending' \in [Role -> (SUBSET Perm) \cup {None}]
      BY <1>1, <3>1 DEF PageOK
    <3> QED
      BY <1>1, <1>2, <3>1, <3>2 DEF RolesOK, PageOK, RoleList!MembersAreOfRole
  <2>3. CASE RoleList!Expand(r)
    <3>1. pending' = pending /\ DOMAIN expanded' = {"of", "members", "asked"} /\ expanded'.members = None
      BY <2>3 DEF RoleList!Expand
    <3> QED
      BY <1>1, <1>2, <3>1 DEF PageOK, RoleList!MembersAreOfRole
  <2> QED
    BY <2>1, <2>2, <2>3
<1>4. CallsOK' /\ Heard' /\ UnderShrinks /\ StillWaits
  <2>1. CASE RoleList!Expand(r)
    <3>1. query' = [o \in AskId |-> RoleList!Forgotten(query[o])]
      BY <2>1 DEF RoleList!Expand
    <3>2. \A o \in AskId : /\ query'[o] \in {query[o], RoleList!Idle}
                          /\ (query[o].op # "members" => query'[o] = query[o]) /\ query'[o].op # "members"
      BY <3>1, IdleOK DEF RoleList!Forgotten
    <3> QED
      BY <1>1, <3>1, <3>2, ForgetStep
  <2>2. CASE UNCHANGED <<query, expanded>>
    BY <1>1, <2>2 DEF CallsOK, Heard, UnderShrinks, StillWaits, Waits
  <2> QED
    BY <2>1, <2>2 DEF RoleList!TogglePermission, RoleList!DiscardChanges, RoleList!AskDelete
<1>5. HistoryOK'
  BY <1>1, <1>2, <1>4, HistoryStays
<1>6. RoleList!DisabledIsWaiting'
  BY <1>1, <1>2, <1>4, WaitingStays
<1> QED
  BY <1>3, <1>4, <1>5, <1>6 DEF RolesOK

\* What somebody asks the api for.
LEMMA RequestStep ==
  ASSUME RolesOK, NEW c \in AskId, NEW r,
         \/ RoleList!SavePermissions(c, r) \/ RoleList!ToggleFlag(c, r) \/ RoleList!HandleDelete(c, r)
         \/ RoleList!HandleRegister(c) \/ RoleList!Mount(c) \/ RoleList!Refresh(c) \/ RoleList!Others(c)
  PROVE  RolesOK'
<1>1. CallsOK /\ Heard /\ PageOK /\ HistoryOK /\ RoleList!DisabledIsWaiting /\ RoleList!MembersAreOfRole
  BY DEF RolesOK
<1>2. UNCHANGED <<role, roles, pending, meant, mixed>>
  BY DEF RoleList!SavePermissions, RoleList!ToggleFlag, RoleList!HandleDelete, RoleList!HandleRegister,
         RoleList!Mount, RoleList!Refresh, RoleList!Others, RoleList!history, RoleList!page
<1>3. /\ expanded'.of = expanded.of /\ DOMAIN expanded' = {"of", "members", "asked"}
      /\ expanded'.members \in {None, expanded.of}
  BY <1>1 DEF PageOK, RoleList!MembersAreOfRole, RoleList!SavePermissions, RoleList!ToggleFlag,
     RoleList!HandleDelete, RoleList!HandleRegister, RoleList!Mount, RoleList!Refresh, RoleList!Others, RoleList!page
<1>4. PageOK' /\ RoleList!MembersAreOfRole'
  BY <1>1, <1>2, <1>3 DEF PageOK, RoleList!MembersAreOfRole
<1>5. PICK q : /\ RoleList!Ask(c, q) /\ CallOK(q) /\ q.at = "asked" /\ (q.op = "members" => q.of = expanded.of)
               /\ savingId' # savingId => q.op = "put" /\ q.by = "page"
               /\ toggling' # toggling => q.op = "patch" /\ q.by = "page"
               /\ adding' /\ ~adding => q.op = "post" /\ q.by = "page"
  <2>1. CASE RoleList!SavePermissions(c, r)
    <3>0. r \in Role
      BY <2>1 DEF RoleList!SavePermissions, RoleList!HasPendingChanges, RoleList!Listed
    <3> DEFINE q == [RoleList!Idle EXCEPT !.op = "put", !.of = r, !.perms = pending[r]]
    <3>1. RoleList!Ask(c, q) /\ pending[r] \in SUBSET Perm /\ UNCHANGED <<toggling, adding>>
      BY <1>1, <2>1, <3>0 DEF RoleList!SavePermissions, RoleList!HasPendingChanges, PageOK
    <3>2. CallOK(q) /\ q.op = "put" /\ q.at = "asked" /\ q.by = "page"
      BY <3>0, <3>1, IdleOK DEF CallOK, CallFields, RoleList!Idle
    <3> HIDE DEF q
    <3> QED
      BY <3>1, <3>2
  <2>2. CASE RoleList!ToggleFlag(c, r)
    <3>0. r \in Role
      BY <2>2 DEF RoleList!ToggleFlag, RoleList!HasPendingChanges, RoleList!Listed
    <3> DEFINE q == [RoleList!Idle EXCEPT !.op = "patch", !.of = r, !.flag = ~roles[r].flag]
    <3>1. RoleList!Ask(c, q) /\ UNCHANGED <<savingId, adding>>
      BY <2>2 DEF RoleList!ToggleFlag
    <3>2. CallOK(q) /\ q.op = "patch" /\ q.at = "asked" /\ q.by = "page"
      BY <3>0, IdleOK DEF CallOK, CallFields, RoleList!Idle
    <3> HIDE DEF q
    <3> QED
      BY <3>1, <3>2
  <2>3. CASE RoleList!HandleDelete(c, r)
    <3>0. r \in Role
      BY <2>3 DEF RoleList!HandleDelete, RoleList!HasPendingChanges, RoleList!Listed
    <3> DEFINE q == [RoleList!Idle EXCEPT !.op = "delete", !.of = r]
    <3>1. RoleList!Ask(c, q) /\ UNCHANGED <<savingId, toggling, adding>>
      BY <2>3 DEF RoleList!HandleDelete, RoleList!page
    <3>2. CallOK(q) /\ q.op = "delete" /\ q.at = "asked"
      BY <3>0, IdleOK DEF CallOK, CallFields, RoleList!Idle
    <3> HIDE DEF q
    <3> QED
      BY <3>1, <3>2
  <2>4. CASE RoleList!HandleRegister(c)
    <3> DEFINE q == [RoleList!Idle EXCEPT !.op = "post"]
    <3>1. RoleList!Ask(c, q) /\ UNCHANGED <<savingId, toggling>>
      BY <2>4 DEF RoleList!HandleRegister
    <3>2. CallOK(q) /\ q.op = "post" /\ q.at = "asked" /\ q.by = "page"
      BY IdleOK DEF CallOK, CallFields, RoleList!Idle
    <3> HIDE DEF q
    <3> QED
      BY <3>1, <3>2
  <2>5. CASE RoleList!Mount(c)
    <3> DEFINE q == [RoleList!Idle EXCEPT !.op = "members", !.of = expanded.of]
    <3>1. RoleList!Ask(c, q) /\ UNCHANGED <<savingId, toggling, adding>>
      BY <2>5 DEF RoleList!Mount
    <3>2. CallOK(q) /\ q.op = "members" /\ q.of = expanded.of /\ q.at = "asked"
      BY IdleOK DEF CallOK, CallFields, RoleList!Idle
    <3> HIDE DEF q
    <3> QED
      BY <3>1, <3>2
  <2>6. CASE RoleList!Refresh(c)
    <3> DEFINE q == [RoleList!Idle EXCEPT !.op = "list"]
    <3>1. RoleList!Ask(c, q) /\ UNCHANGED <<savingId, toggling, adding>>
      BY <2>6 DEF RoleList!Refresh, RoleList!page
    <3>2. CallOK(q) /\ q.op = "list" /\ q.at = "asked"
      BY IdleOK DEF CallOK, CallFields, RoleList!Idle
    <3> HIDE DEF q
    <3> QED
      BY <3>1, <3>2
  <2>7. CASE RoleList!Others(c)
    <3>1. UNCHANGED <<savingId, toggling, adding>>
      BY <2>7 DEF RoleList!Others, RoleList!page
    <3>2. ASSUME NEW u \in Role, NEW b \in BOOLEAN, NEW P \in SUBSET Perm, NEW q,
                 \/ q = [RoleList!Idle EXCEPT !.op = "patch", !.of = u, !.flag = b, !.by = "staff"]
                 \/ q = [RoleList!Idle EXCEPT !.op = "delete", !.of = u, !.by = "staff"]
                 \/ q = [RoleList!Idle EXCEPT !.op = "put", !.of = u, !.perms = P, !.by = "staff"]
          PROVE  CallOK(q) /\ q.op # "members" /\ q.at = "asked"
      BY <3>2, IdleOK DEF CallOK, CallFields, RoleList!Idle
    <3>3. {} \in SUBSET Perm /\ TRUE \in BOOLEAN
      OBVIOUS
    <3> QED
      BY <2>7, <3>1, <3>2, <3>3 DEF RoleList!Others
  <2> QED
    BY <2>1, <2>2, <2>3, <2>4, <2>5, <2>6, <2>7
<1>6. /\ CallsOK' /\ Heard' /\ UnderShrinks /\ StillWaits
      /\ q.op \in {"put", "patch", "post"} /\ q.by = "page" => Waits(q.op)'
  BY <1>1, <1>3, <1>5, AskStep
<1>7. HistoryOK'
  BY <1>1, <1>2, <1>6, HistoryStays
<1>8. RoleList!DisabledIsWaiting'
  <2>1. adding' => adding \/ (adding' /\ ~adding)
    OBVIOUS
  <2> QED
    BY <1>1, <1>5, <1>6, <2>1, WaitingStays
<1> QED
  BY <1>4, <1>6, <1>7, <1>8 DEF RolesOK

\* The renewed token.
LEMMA RenewedStep ==
  ASSUME RolesOK, NEW c \in AskId, RoleList!Renew(c)
  PROVE  RolesOK'
<1> DEFINE q == [RoleList!Idle EXCEPT !.op = "init"]
<1>1. CallsOK /\ Heard /\ PageOK /\ HistoryOK /\ RoleList!DisabledIsWaiting /\ RoleList!MembersAreOfRole
  BY DEF RolesOK
<1>2. /\ UNCHANGED <<role, roles, pending, meant, mixed, savingId, toggling, adding>>
      /\ query[c] = RoleList!Idle /\ expanded' = [expanded EXCEPT !.asked = FALSE]
      /\ query' = [o \in AskId |-> IF o = c THEN q ELSE RoleList!Forgotten(query[o])]
  BY DEF RoleList!Renew, RoleList!history
<1>3. expanded'.of = expanded.of /\ expanded'.members = expanded.members /\ DOMAIN expanded' = {"of", "members", "asked"}
  BY <1>1, <1>2 DEF PageOK
<1>4. PageOK' /\ RoleList!MembersAreOfRole'
  BY <1>1, <1>2, <1>3 DEF PageOK, RoleList!MembersAreOfRole
<1>5. CallOK(q) /\ q.op = "init"
  BY IdleOK DEF CallOK, CallFields
<1> HIDE DEF q
<1>6. CallsOK' /\ Heard' /\ UnderShrinks /\ StillWaits
  <2>1. DOMAIN query' = AskId /\ query'[c] = q
    BY <1>2
  <2>2. \A o \in AskId \ {c} : /\ query'[o] \in {query[o], RoleList!Idle} /\ query'[o].op # "members"
                              /\ (query[o].op # "members" => query'[o] = query[o])
    BY <1>2, IdleOK DEF RoleList!Forgotten
  <2>3. query[c].op = "idle"
    BY <1>2, IdleOK
  <2> QED
    BY <1>1, <1>5, <2>1, <2>2, <2>3, IdleOK DEF CallsOK, Heard, UnderShrinks, StillWaits, Waits
<1>7. HistoryOK'
  BY <1>1, <1>2, <1>6, HistoryStays
<1>8. RoleList!DisabledIsWaiting'
  BY <1>1, <1>2, <1>6, WaitingStays
<1> QED
  BY <1>4, <1>6, <1>7, <1>8 DEF RolesOK

-----------------------------------------------------------------------------
(* The api.                                                                *)

\* A request goes on: its record keeps its kind, and who asked.
LEMMA GoesOn ==
  ASSUME CallsOK, Heard, NEW c \in AskId, NEW q, CallOK(q), query' = [query EXCEPT ![c] = q],
         \/ q.op = query[c].op /\ q.by = query[c].by /\ (q.op # "post" => q.of = query[c].of)
         \/ q = RoleList!Idle /\ query[c].by = "staff",
         expanded' = expanded
  PROVE  /\ CallsOK' /\ Heard' /\ StillWaits /\ query'[c] = q /\ \A o \in AskId \ {c} : query'[o] = query[o]
         /\ q.at # "cleared" => UnderShrinks
<1>1. DOMAIN query' = AskId /\ query'[c] = q /\ \A o \in AskId \ {c} : query'[o] = query[o]
  BY DEF CallsOK
<1>2. CallsOK'
  BY <1>1 DEF CallsOK
<1>3. Heard'
  BY <1>1, IdleOK DEF Heard
<1>4. StillWaits
  <2> SUFFICES ASSUME NEW op \in {"put", "patch", "post"}, NEW o \in AskId, query[o].op = op, query[o].by = "page"
               PROVE  query'[o].op = op /\ query'[o].by = "page"
    BY DEF StillWaits, Waits
  <2> QED
    BY <1>1
<1>5. q.at # "cleared" => UnderShrinks
  BY <1>1 DEF UnderShrinks
<1> QED
  BY <1>1, <1>2, <1>3, <1>4, <1>5

LEMMA EndedStep ==
  ASSUME CallsOK, Heard, NEW c \in AskId, NEW how \in {"done", "failed"}, NEW d \in Tables,
         RoleList!Ended(c, how, d), expanded' = expanded
  PROVE  /\ CallsOK' /\ Heard' /\ StillWaits /\ UnderShrinks
         /\ query'[c].at # "cleared" /\ \A o \in AskId \ {c} : query'[o] = query[o]
<1>1. CallOK(query[c])
  BY DEF CallsOK
<1>2. CASE query[c].by = "staff"
  <2>1. query' = [query EXCEPT ![c] = RoleList!Idle]
    BY <1>2 DEF RoleList!Ended, CallsOK
  <2> QED
    BY <1>2, <2>1, IdleOK, GoesOn
<1>3. CASE query[c].by # "staff"
  <2> DEFINE q == [query[c] EXCEPT !.at = how, !.data = d]
  <2>1. query' = [query EXCEPT ![c] = q]
    BY <1>3 DEF RoleList!Ended, CallsOK
  <2>2. CallOK(q) /\ q.op = query[c].op /\ q.by = query[c].by /\ q.of = query[c].of /\ q.at = how
    BY <1>1 DEF CallOK, CallFields
  <2> HIDE DEF q
  <2> QED
    BY <2>1, <2>2, GoesOn
<1> QED
  BY <1>2, <1>3

LEMMA FoundOK ==
  ASSUME NEW rs \in [Role -> RoleList!Rows \cup {None, Gone}]  PROVE RoleList!Found(rs) \in Tables
  BY DEF RoleList!Found, Tables

\* What a step of the api, or its failure, has to keep.
ApiKeeps == /\ CallsOK' /\ Heard' /\ StillWaits /\ HistoryOK'
            /\ role' \in [Role -> RoleList!Rows \cup {None, Gone}]

\* A request ends and changes no row.
LEMMA EndsQuietly ==
  ASSUME RolesOK, NEW c \in AskId, NEW how \in {"done", "failed"}, NEW d \in Tables,
         RoleList!Ended(c, how, d), UNCHANGED <<expanded, role, meant, mixed>>
  PROVE  ApiKeeps
  BY EndedStep, HistoryStays DEF RolesOK, PageOK, ApiKeeps

LEMMA FailsQuietly ==
  ASSUME RolesOK, NEW c \in AskId, RoleList!Fails(c), UNCHANGED <<expanded, role, meant, mixed>>
  PROVE  ApiKeeps
  BY EndsQuietly, IdleOK DEF RoleList!Fails

\* The row of one role changes while no PUT does.
LEMMA RowStep ==
  ASSUME RolesOK, UnderShrinks, NEW r \in Role, NEW x \in RoleList!Rows \cup {Gone},
         role' = [role EXCEPT ![r] = x], UNCHANGED <<meant, mixed>>,
         \/ x = Gone
         \/ RoleList!There(r) /\ x.perms = role[r].perms
         \/ role[r] = None /\ x.perms = {}
  PROVE  HistoryOK' /\ role' \in [Role -> RoleList!Rows \cup {None, Gone}]
<1>1. role \in [Role -> RoleList!Rows \cup {None, Gone}] /\ HistoryOK /\ x # None
  BY PagesAssumption DEF RolesOK, PageOK
<1>2. role'[r] = x /\ \A u \in Role \ {r} : role'[u] = role[u]
  BY <1>1
<1>3. \A u \in Role : RoleList!Under(u)' \subseteq RoleList!Under(u)
  BY DEF UnderShrinks, RoleList!Under
<1>4. ASSUME NEW u \in Role  PROVE HistoryOf(u)'
  <2>1. HistoryOf(u) /\ RoleList!Under(u)' \subseteq RoleList!Under(u)
    BY <1>1, <1>3 DEF HistoryOK
  <2>2. CASE u # r
    <3>1. RoleList!There(u)' = RoleList!There(u) /\ role'[u] = role[u]
      BY <1>2, <2>2 DEF RoleList!There
    <3> QED
      BY <2>1, <3>1 DEF HistoryOf
  <2>3. CASE u = r
    <3>1. role'[u] # None /\ (RoleList!There(u)' => x # Gone)
      BY <1>1, <1>2, <2>3 DEF RoleList!There
    <3> QED
      BY <1>2, <2>1, <2>3, <3>1 DEF HistoryOf, RoleList!There
  <2> QED
    BY <2>2, <2>3
<1> QED
  BY <1>1, <1>4 DEF HistoryOK

\* PUT /roles/:id/permissions deletes the rows.
LEMMA ClearStep ==
  ASSUME RolesOK, NEW c \in AskId, RoleList!ClearPerms(c), expanded' = expanded
  PROVE  ApiKeeps
<1> DEFINE q == [query[c] EXCEPT !.at = "cleared"]
<1>1. CallsOK /\ Heard /\ HistoryOK /\ role \in [Role -> RoleList!Rows \cup {None, Gone}] /\ CallOK(query[c])
  BY DEF RolesOK, PageOK, CallsOK
<1>2. query[c].of \in Role /\ query[c].op = "put" /\ query[c].at = "asked"
  BY <1>1 DEF RoleList!ClearPerms, CallOK
<1> PICK r \in Role : r = query[c].of
  BY <1>2
<1>3. CASE ~RoleList!There(r)
  BY <1>3, FailsQuietly DEF RoleList!ClearPerms, RoleList!history
<1>4. CASE RoleList!There(r)
  <2>1. /\ role' = [role EXCEPT ![r].perms = {}] /\ query' = [query EXCEPT ![c] = q]
        /\ meant' = [meant EXCEPT ![r] = {}]
        /\ mixed' = IF RoleList!Under(r) = {} THEN mixed \ {r} ELSE mixed \cup {r}
    BY <1>1, <1>4 DEF RoleList!ClearPerms, CallsOK
  <2>2. CallOK(q) /\ q.op = "put" /\ q.by = query[c].by /\ q.of = r /\ q.at = "cleared"
    BY <1>1, <1>2 DEF CallOK, CallFields
  <2> HIDE DEF q
  <2>3. CallsOK' /\ Heard' /\ StillWaits /\ query'[c] = q /\ \A o \in AskId \ {c} : query'[o] = query[o]
    BY <1>1, <1>2, <2>1, <2>2, GoesOn
  <2>4. role[r] \in RoleList!Rows
    BY <1>1, <1>2, <1>4 DEF RoleList!There
  <2>5. [role[r] EXCEPT !.perms = {}] \in RoleList!Rows /\ [role[r] EXCEPT !.perms = {}].perms = {}
    BY <2>4 DEF RoleList!Rows
  <2>6. /\ role' \in [Role -> RoleList!Rows \cup {None, Gone}] /\ role'[r].perms = {} /\ role'[r] # None
        /\ \A u \in Role \ {r} : role'[u] = role[u]
    BY <1>1, <1>2, <2>1, <2>5, PagesAssumption
  <2>7. /\ DOMAIN meant' = Role /\ meant'[r] = {} /\ \A u \in Role \ {r} : meant'[u] = meant[u]
    BY <1>1, <1>2, <2>1 DEF HistoryOK
  <2>8. RoleList!Under(r)' = RoleList!Under(r) \cup {c} /\ \A u \in Role \ {r} : RoleList!Under(u)' = RoleList!Under(u)
    BY <1>2, <2>2, <2>3 DEF RoleList!Under
  <2>9. ASSUME NEW u \in Role  PROVE HistoryOf(u)'
    <3>1. HistoryOf(u)
      BY <1>1 DEF HistoryOK
    <3>2. CASE u # r
      <4>1. RoleList!There(u)' = RoleList!There(u)
        BY <2>6, <3>2 DEF RoleList!There
      <4>2. u \in mixed' <=> u \in mixed
        BY <2>1, <3>2
      <4>3. role'[u] = role[u] /\ meant'[u] = meant[u] /\ RoleList!Under(u)' = RoleList!Under(u)
        BY <2>6, <2>7, <2>8, <3>2
      <4> QED
        BY <3>1, <4>1, <4>2, <4>3 DEF HistoryOf
    <3>3. CASE u = r
      <4>1. r \notin mixed' => RoleList!Under(r)' = {c}
        BY <2>1, <2>8
      <4>2. role'[r].perms = meant'[r]
        BY <2>6, <2>7
      <4> QED
        BY <2>6, <2>7, <3>3, <4>1, <4>2 DEF HistoryOf
    <3> QED
      BY <3>2, <3>3
  <2> QED
    BY <2>3, <2>6, <2>7, <2>9 DEF ApiKeeps, HistoryOK
<1> QED
  BY <1>3, <1>4

\* And writes those that were asked for.
LEMMA WriteStep ==
  ASSUME RolesOK, NEW c \in AskId, RoleList!WritePerms(c), expanded' = expanded
  PROVE  ApiKeeps
<1> DEFINE q == [query[c] EXCEPT !.at = "written"]
<1>1. CallsOK /\ Heard /\ HistoryOK /\ role \in [Role -> RoleList!Rows \cup {None, Gone}] /\ CallOK(query[c])
  BY DEF RolesOK, PageOK, CallsOK
<1>2. query[c].of \in Role /\ query[c].perms \in SUBSET Perm
      /\ query[c].op = "put" /\ query[c].at = "cleared" /\ mixed' = mixed
  BY <1>1 DEF RoleList!WritePerms, CallOK
<1> PICK r \in Role, P \in SUBSET Perm : r = query[c].of /\ P = query[c].perms
  BY <1>2
<1> DEFINE ok == P = {} \/ (RoleList!There(r) /\ P \cap role[r].perms = {})
<1>3. CASE ~ok
  BY <1>3, FailsQuietly DEF RoleList!WritePerms
<1>4. CASE ok
  <2>1. /\ role' = IF RoleList!There(r) THEN [role EXCEPT ![r].perms = @ \cup P] ELSE role
        /\ query' = [query EXCEPT ![c] = q] /\ meant' = [meant EXCEPT ![r] = P]
    BY <1>1, <1>4 DEF RoleList!WritePerms, CallsOK
  <2>2. CallOK(q) /\ q.op = "put" /\ q.by = query[c].by /\ q.of = r /\ q.at = "written"
    BY <1>1, <1>2 DEF CallOK, CallFields
  <2> HIDE DEF q
  <2>3. CallsOK' /\ Heard' /\ StillWaits /\ UnderShrinks /\ query'[c] = q
    BY <1>1, <1>2, <2>1, <2>2, GoesOn
  <2>4. c \in RoleList!Under(r) /\ RoleList!Under(r)' \subseteq RoleList!Under(r) \ {c}
        /\ \A u \in Role : RoleList!Under(u)' \subseteq RoleList!Under(u)
    BY <1>2, <2>2, <2>3 DEF RoleList!Under, UnderShrinks
  <2>5. DOMAIN meant' = Role /\ meant'[r] = P /\ \A u \in Role \ {r} : meant'[u] = meant[u]
    BY <1>1, <1>2, <2>1 DEF HistoryOK
  <2>6. HistoryOf(r) /\ role[r] # None
    BY <1>1, <1>2, <2>4 DEF HistoryOK, HistoryOf
  <2>7. /\ role' \in [Role -> RoleList!Rows \cup {None, Gone}] /\ role'[r] # None
        /\ \A u \in Role \ {r} : role'[u] = role[u]
        /\ RoleList!There(r)' => RoleList!There(r) /\ role'[r].perms = role[r].perms \cup P
    <3>1. CASE RoleList!There(r)
      <4> DEFINE x == [role[r] EXCEPT !.perms = @ \cup P]
      <4>1. role[r] \in RoleList!Rows
        BY <1>1, <1>2, <3>1 DEF RoleList!There
      <4>2. x \in RoleList!Rows /\ x.perms = role[r].perms \cup P
        BY <1>2, <4>1 DEF RoleList!Rows
      <4>3. role' = [role EXCEPT ![r] = x]
        BY <1>1, <2>1, <3>1
      <4> HIDE DEF x
      <4> QED
        BY <1>1, <1>2, <3>1, <4>2, <4>3, PagesAssumption
    <3>2. CASE ~RoleList!There(r)
      BY <1>1, <2>1, <2>6, <3>2 DEF RoleList!There
    <3> QED
      BY <3>1, <3>2
  <2>8. ASSUME NEW u \in Role  PROVE HistoryOf(u)'
    <3>1. HistoryOf(u) /\ RoleList!Under(u)' \subseteq RoleList!Under(u)
      BY <1>1, <2>4 DEF HistoryOK
    <3>2. CASE u # r
      <4>1. RoleList!There(u)' = RoleList!There(u)
        BY <2>7, <3>2 DEF RoleList!There
      <4>2. role'[u] = role[u] /\ meant'[u] = meant[u]
        BY <2>5, <2>7, <3>2
      <4> QED
        BY <1>2, <3>1, <4>1, <4>2 DEF HistoryOf
    <3>3. CASE u = r
      <4>1. ASSUME RoleList!There(r)', r \notin mixed'
            PROVE  role'[r].perms = P /\ RoleList!Under(r)' = {}
        <5>1. RoleList!There(r) /\ role'[r].perms = role[r].perms \cup P /\ r \notin mixed
          BY <1>2, <2>7, <4>1
        <5>2. role[r].perms = {} /\ \A o \in RoleList!Under(r) : o = c
          BY <2>4, <2>6, <5>1 DEF HistoryOf
        <5> QED
          BY <2>4, <5>1, <5>2
      <4> QED
        BY <2>5, <2>7, <3>3, <4>1 DEF HistoryOf
    <3> QED
      BY <3>2, <3>3
  <2> QED
    BY <2>3, <2>5, <2>7, <2>8 DEF ApiKeeps, HistoryOK
<1> QED
  BY <1>3, <1>4

\* The other routes, and a failure.
LEMMA Served ==
  ASSUME RolesOK, NEW c \in AskId,
         RoleList!Serve(c) \/ RoleList!Breaks(c)
  PROVE  ApiKeeps
<1>1. CallsOK /\ Heard /\ PageOK /\ HistoryOK /\ RoleList!DisabledIsWaiting /\ RoleList!MembersAreOfRole
  BY DEF RolesOK
<1>2. UNCHANGED <<roles, pending, savingId, toggling, adding, expanded>>
  BY DEF RoleList!Serve, RoleList!Breaks, RoleList!page
<1>3. CallOK(query[c]) /\ role \in [Role -> RoleList!Rows \cup {None, Gone}] /\ RoleList!Empty \in Tables
  BY <1>1, IdleOK DEF CallsOK, PageOK
<1>4. CASE RoleList!List(c)
  <2>1. UNCHANGED <<role, meant, mixed>> /\ RoleList!Found(role') \in Tables
    BY <1>3, <1>4, FoundOK DEF RoleList!List, RoleList!history
  <2>2. PICK how \in {"done", "failed"}, d \in Tables : RoleList!Ended(c, how, d)
    BY <1>3, <1>4, <2>1 DEF RoleList!List, RoleList!Done, RoleList!Fails
  <2> QED
    BY <1>2, <2>1, <2>2, EndsQuietly
<1>5. CASE RoleList!ReadPerms(c)
  <2>1. UNCHANGED <<role, meant, mixed>> /\ RoleList!Found(role') \in Tables
    BY <1>3, <1>5, FoundOK DEF RoleList!ReadPerms, RoleList!history
  <2>2. PICK how \in {"done", "failed"}, d \in Tables : RoleList!Ended(c, how, d)
    BY <1>3, <1>5, <2>1 DEF RoleList!ReadPerms, RoleList!Done, RoleList!Fails
  <2> QED
    BY <1>2, <2>1, <2>2, EndsQuietly
<1>6. CASE RoleList!PatchRole(c)
  <2>1. query[c].of \in Role /\ query[c].flag \in BOOLEAN /\ UNCHANGED <<meant, mixed>>
    BY <1>3, <1>6 DEF RoleList!PatchRole, CallOK, RoleList!history
  <2>2. PICK r \in Role, b \in BOOLEAN : r = query[c].of /\ b = query[c].flag
    BY <2>1
  <2>3. CASE ~RoleList!There(r)
    BY <1>2, <1>6, <2>1, <2>2, <2>3, FailsQuietly DEF RoleList!PatchRole
  <2>4. CASE RoleList!There(r)
    <3> DEFINE x == [role[r] EXCEPT !.flag = b]
    <3>1. role[r] \in RoleList!Rows
      BY <1>3, <2>4 DEF RoleList!There
    <3>2. x \in RoleList!Rows /\ x.perms = role[r].perms
      BY <3>1 DEF RoleList!Rows
    <3>3. role' = [role EXCEPT ![r] = x] /\ RoleList!Ended(c, "done", RoleList!Empty)
      BY <1>3, <1>6, <2>2, <2>4 DEF RoleList!PatchRole
    <3> HIDE DEF x
    <3>4. CallsOK' /\ Heard' /\ StillWaits /\ UnderShrinks
      BY <1>1, <1>2, <1>3, <3>3, EndedStep
    <3>5. HistoryOK' /\ role' \in [Role -> RoleList!Rows \cup {None, Gone}]
      BY <2>1, <2>4, <3>2, <3>3, <3>4, RowStep
    <3> QED
      BY <3>4, <3>5 DEF ApiKeeps
  <2> QED
    BY <2>3, <2>4
<1>7. CASE RoleList!CreateRole(c)
  <2>1. UNCHANGED <<meant, mixed>> /\ query[c].op = "post"
    BY <1>7 DEF RoleList!CreateRole, RoleList!history
  <2>2. CASE RoleList!Fails(c) /\ UNCHANGED role
    BY <1>2, <2>1, <2>2, FailsQuietly
  <2>3. ASSUME NEW r \in Role, role[r] = None, role' = [role EXCEPT ![r] = [perms |-> {}, flag |-> FALSE]],
               query' = [query EXCEPT ![c].at = "done", ![c].of = r, ![c].data = RoleList!Found(role')]
        PROVE  ApiKeeps
    <3> DEFINE x == [perms |-> {}, flag |-> FALSE]
    <3>1. x \in RoleList!Rows /\ x.perms = {}
      BY DEF RoleList!Rows
    <3> HIDE DEF x
    <3>2. role' = [role EXCEPT ![r] = x]
      BY <2>3 DEF x
    <3>3. role' \in [Role -> RoleList!Rows \cup {None, Gone}]
      BY <1>3, <3>1, <3>2
    <3>4. PICK d \in Tables : d = RoleList!Found(role')
      BY <3>3, FoundOK
    <3> DEFINE q == [query[c] EXCEPT !.at = "done", !.of = r, !.data = d]
    <3>5. query' = [query EXCEPT ![c] = q]
      BY <1>1, <2>3, <3>4 DEF CallsOK
    <3>6. CallOK(q) /\ q.op = query[c].op /\ q.by = query[c].by /\ q.at = "done"
      BY <1>3, <2>1 DEF CallOK, CallFields
    <3> HIDE DEF q
    <3>7. CallsOK' /\ Heard' /\ StillWaits /\ UnderShrinks
      BY <1>1, <1>2, <2>1, <3>5, <3>6, GoesOn
    <3>8. HistoryOK'
      BY <2>1, <2>3, <3>1, <3>2, <3>7, RowStep
    <3> QED
      BY <3>3, <3>7, <3>8 DEF ApiKeeps
  <2> QED
    BY <1>7, <2>2, <2>3 DEF RoleList!CreateRole
<1>8. CASE RoleList!DeleteRole(c)
  <2>1. query[c].of \in Role /\ UNCHANGED <<meant, mixed>>
    BY <1>3, <1>8 DEF RoleList!DeleteRole, CallOK, RoleList!history
  <2>2. PICK r \in Role : r = query[c].of
    BY <2>1
  <2>3. CASE ~RoleList!There(r)
    BY <1>2, <1>8, <2>1, <2>2, <2>3, FailsQuietly DEF RoleList!DeleteRole
  <2>4. CASE RoleList!There(r)
    <3>1. role' = [role EXCEPT ![r] = Gone] /\ RoleList!Ended(c, "done", RoleList!Empty)
      BY <1>8, <2>2, <2>4 DEF RoleList!DeleteRole
    <3>2. CallsOK' /\ Heard' /\ StillWaits /\ UnderShrinks
      BY <1>1, <1>2, <1>3, <3>1, EndedStep
    <3>3. HistoryOK' /\ role' \in [Role -> RoleList!Rows \cup {None, Gone}]
      BY <2>1, <3>1, <3>2, RowStep
    <3> QED
      BY <3>2, <3>3 DEF ApiKeeps
  <2> QED
    BY <2>3, <2>4
<1>9. CASE RoleList!Breaks(c)
  BY <1>2, <1>9, FailsQuietly DEF RoleList!Breaks, RoleList!history
<1> QED
  BY <1>2, <1>4, <1>5, <1>6, <1>7, <1>8, <1>9, ClearStep, WriteStep DEF RoleList!Serve

LEMMA ApiStep ==
  ASSUME RolesOK, NEW c \in AskId,
         RoleList!Serve(c) \/ RoleList!Breaks(c)
  PROVE  RolesOK'
<1>1. UNCHANGED <<roles, pending, savingId, toggling, adding, expanded>>
  BY DEF RoleList!Serve, RoleList!Breaks, RoleList!page
<1>2. ApiKeeps
  BY Served
<1>3. RoleList!DisabledIsWaiting'
  BY <1>1, <1>2, WaitingStays DEF ApiKeeps, RolesOK
<1> QED
  BY <1>1, <1>2, <1>3 DEF RolesOK, ApiKeeps, PageOK, RoleList!MembersAreOfRole

-----------------------------------------------------------------------------
\* The page hears an answer.
LEMMA AnswerStep ==
  ASSUME RolesOK, NEW c \in AskId, RoleList!Answer(c)
  PROVE  RolesOK'
<1>1. CallsOK /\ Heard /\ PageOK /\ HistoryOK /\ RoleList!DisabledIsWaiting /\ RoleList!MembersAreOfRole
  BY DEF RolesOK
<1>2. UNCHANGED <<role, meant, mixed>>
  BY DEF RoleList!Answer, RoleList!history
<1>3. CallOK(query[c])
  BY <1>1 DEF CallsOK
<1>4. /\ DOMAIN query' = AskId /\ query'[c] = RoleList!Idle
      /\ \A o \in AskId \ {c} : /\ query'[o] \in {query[o], RoleList!Idle}
                              /\ (query[o].op # "members" => query'[o] = query[o])
  BY DEF RoleList!Answer, RoleList!Forgotten
<1>5. expanded' \in {expanded, RoleList!Panel(roles')} \/ expanded' = [expanded EXCEPT !.members = expanded.of]
  BY <1>1 DEF RoleList!Answer, RoleList!SetRoles, RoleList!LoadFailed, RoleList!Saved, RoleList!FlagSet,
     RoleList!Registered, RoleList!Deleted, RoleList!Refused, RoleList!MembersCome, RoleList!Heard, Heard
<1>6. /\ expanded'.of = expanded.of /\ DOMAIN expanded' = {"of", "members", "asked"}
      /\ expanded'.members \in {None, expanded.of}
  BY <1>1, <1>5 DEF PageOK, RoleList!Panel, RoleList!MembersAreOfRole
<1>7. roles' \in Tables /\ pending' \in [Role -> (SUBSET Perm) \cup {None}]
  <2>1. roles \in Tables /\ pending \in [Role -> (SUBSET Perm) \cup {None}] /\ query[c].data \in Tables
    BY <1>1, <1>3 DEF PageOK, CallOK
  <2>2. CASE RoleList!SetRoles(c)
    BY <2>1, <2>2 DEF RoleList!SetRoles
  <2>3. CASE RoleList!LoadFailed(c) \/ RoleList!Refused(c) \/ RoleList!MembersCome(c)
    BY <2>1, <2>3 DEF RoleList!LoadFailed, RoleList!Refused, RoleList!MembersCome
  <2>4. CASE RoleList!Saved(c)
    <3>1. query[c].of \in Role
      BY <1>3, <2>4 DEF RoleList!Saved, RoleList!Heard, CallOK
    <3>2. PICK r \in Role : r = query[c].of
      BY <3>1
    <3>3. roles' \in {roles, [roles EXCEPT ![r] = query[c].data[r]]} /\ pending' = [pending EXCEPT ![r] = None]
      BY <2>4, <3>2 DEF RoleList!Saved
    <3> QED
      BY <2>1, <3>3 DEF Tables
  <2>5. CASE RoleList!FlagSet(c)
    <3>1. query[c].of \in Role
      BY <1>3, <2>5 DEF RoleList!FlagSet, RoleList!Heard, CallOK
    <3>2. PICK r \in Role : r = query[c].of
      BY <3>1
    <3>3. pending' = pending /\ (roles' = roles \/ (r \in RoleList!Listed /\ roles' = [roles EXCEPT ![r].flag = ~@]))
      BY <2>5, <3>2 DEF RoleList!FlagSet
    <3>4. ASSUME r \in RoleList!Listed, roles' = [roles EXCEPT ![r].flag = ~@]  PROVE roles' \in Tables
      <4>1. roles[r] \in RoleList!Rows
        BY <2>1, <3>4 DEF Tables, RoleList!Listed
      <4>2. [roles[r] EXCEPT !.flag = ~@] \in RoleList!Rows
        BY <4>1 DEF RoleList!Rows
      <4>3. roles' = [roles EXCEPT ![r] = [roles[r] EXCEPT !.flag = ~@]]
        BY <2>1, <3>4 DEF Tables
      <4> QED
        BY <2>1, <4>2, <4>3 DEF Tables
    <3> QED
      BY <2>1, <3>3, <3>4
  <2>6. CASE RoleList!Registered(c)
    <3>1. pending' = pending /\ roles' = [roles EXCEPT ![query[c].of] = query[c].data[query[c].of]]
      BY <2>6 DEF RoleList!Registered
    <3> QED
      BY <2>1, <3>1 DEF Tables
  <2>7. CASE RoleList!Deleted(c)
    <3>1. pending' = pending /\ roles' = [roles EXCEPT ![query[c].of] = None]
      BY <2>7 DEF RoleList!Deleted
    <3> QED
      BY <2>1, <3>1 DEF Tables
  <2> QED
    BY <2>2, <2>3, <2>4, <2>5, <2>6, <2>7 DEF RoleList!Answer
<1>8. PageOK' /\ RoleList!MembersAreOfRole'
  BY <1>1, <1>2, <1>6, <1>7 DEF PageOK, RoleList!MembersAreOfRole
<1>9. CallsOK' /\ Heard' /\ UnderShrinks
  BY <1>1, <1>4, <1>6, IdleOK DEF CallsOK, Heard, UnderShrinks
<1>10. HistoryOK'
  BY <1>1, <1>2, <1>9, HistoryStays
<1>11. RoleList!DisabledIsWaiting'
  <2>1. \A op \in {"put", "patch", "post"} : Waits(op) /\ query[c].op # op => Waits(op)'
    BY <1>4 DEF Waits
  <2>2. /\ savingId' \in {savingId, None} /\ (query[c].op = "put" => savingId' = None)
        /\ toggling' \in {toggling, None} /\ (query[c].op = "patch" => toggling' = None)
        /\ (adding' => adding) /\ (query[c].op = "post" => ~adding')
    <3>1. CASE RoleList!SetRoles(c) \/ RoleList!LoadFailed(c) \/ RoleList!Deleted(c) \/ RoleList!MembersCome(c)
      BY <3>1 DEF RoleList!SetRoles, RoleList!LoadFailed, RoleList!Deleted, RoleList!MembersCome, RoleList!Heard
    <3>2. CASE RoleList!Saved(c)
      BY <3>2 DEF RoleList!Saved, RoleList!Heard
    <3>3. CASE RoleList!FlagSet(c)
      BY <3>3 DEF RoleList!FlagSet, RoleList!Heard
    <3>4. CASE RoleList!Registered(c)
      BY <3>4 DEF RoleList!Registered, RoleList!Heard
    <3>5. CASE RoleList!Refused(c)
      BY <3>5 DEF RoleList!Refused
    <3> QED
      BY <3>1, <3>2, <3>3, <3>4, <3>5 DEF RoleList!Answer
  <2> QED
    BY <1>1, <2>1, <2>2 DEF RoleList!DisabledIsWaiting, Waits
<1> QED
  BY <1>8, <1>9, <1>10, <1>11 DEF RolesOK

LEMMA RolesStep ==
  ASSUME RolesOK, [RoleList!Next]_(RoleList!vars)
  PROVE  RolesOK'
<1>1. CASE RoleList!Next
  BY <1>1, ClickStep, RequestStep, RenewedStep, ApiStep, AnswerStep DEF RoleList!Next
<1>2. CASE UNCHANGED RoleList!vars
  <2>1. UNCHANGED <<role, roles, pending, savingId, toggling, adding, expanded, query, meant, mixed>>
    BY <1>2 DEF RoleList!vars, RoleList!page, RoleList!history
  <2>2. /\ CallsOK' = CallsOK /\ Heard' = Heard /\ PageOK' = PageOK
        /\ RoleList!MembersAreOfRole' = RoleList!MembersAreOfRole
    BY <2>1 DEF CallsOK, Heard, PageOK, RoleList!MembersAreOfRole
  <2>3. UnderShrinks /\ StillWaits
    BY <2>1 DEF UnderShrinks, StillWaits, Waits
  <2> QED
    BY <2>1, <2>2, <2>3, HistoryStays, WaitingStays DEF RolesOK
<1> QED
  BY <1>1, <1>2

LEMMA RolesMatch ==
  ASSUME RolesOK
  PROVE  RoleList!RowsAreMeant /\ RoleList!MembersAreOfRole /\ RoleList!DisabledIsWaiting
  BY DEF RolesOK, HistoryOK, HistoryOf, RoleList!RowsAreMeant

(***************************************************************************)
(* The pages that list rows (ListPages).                                    *)
(***************************************************************************)

ReplyFields == {"op", "at", "q", "silent", "alone", "after", "sel", "id", "rows", "total"}
RepliesOK == DOMAIN reply = AskId
             /\ \A c \in AskId : DOMAIN reply[c] = ReplyFields /\ reply[c].alone \in BOOLEAN
ForRows(c) == Lists!Lists(reply[c])

\* A page that numbers its requests has a filter and a pager and nothing else that asks.
GuardOK == /\ page.guarded \in BOOLEAN
           /\ page.guarded => /\ page.acts = {"filter", "turn"} /\ opened = {}
                              /\ \A c \in AskId : reply[c].op # "act"

\* Where requests are not numbered: one that is alone is the only one, and asks for the view;
\* while nothing is suspect, every one is alone; once the last is answered, the rows are its.
PlainOK ==
  /\ \A c, d \in AskId : reply[c].alone /\ ForRows(d) => c = d
  /\ \A c \in AskId : reply[c].alone => ForRows(c) /\ reply[c].q = view
  /\ ~suspect => \A c \in AskId : ForRows(c) => reply[c].alone
  /\ ~suspect /\ Lists!Quiet => shown.of = view

\* Where they are: the last asks for the view, and once it is answered, the rows are its.
NumberedOK ==
  /\ latest \in AskId
  /\ ForRows(latest) => reply[latest].q = view
  /\ ~suspect /\ ~ForRows(latest) => shown.of = view

RowsOK == /\ RepliesOK /\ GuardOK /\ DOMAIN shown = {"rows", "total", "of"}
          /\ IF page.guarded THEN NumberedOK ELSE PlainOK

\* What is fetched for an open row.
Asking == \E c \in AskId : reply[c].op = "detail"
Fetching == page.detail \notin {"none", "row", "kept"}
DetailOK ==
  /\ page.detail # "kept" => \A i \in Line : kept[i] = None
  /\ Asking => page.detail \notin {"none", "row"}
  /\ ~Fetching => detail = None
  /\ page.detail # "row" => open = wanted
  /\ page.detail = "row" /\ ~blurred => open = wanted /\ \A c \in AskId : reply[c].sel \in {None, wanted}
  /\ Fetching /\ ~blurred /\ open # None /\ ~Asking => detail \in {None, open}

\* The inductive invariant.
ListsOK == RowsOK /\ DetailOK

LEMMA BlankReply ==
  /\ DOMAIN Lists!Idle = ReplyFields /\ Lists!Idle.alone = FALSE /\ Lists!Idle.sel = None
  /\ Lists!Idle.op = "idle" /\ ~Lists!Lists(Lists!Idle)
  BY DEF ReplyFields, Lists!Idle, Lists!Lists

\* Of all pages, only Tickets numbers its requests.
Unnumbered(p) == DOMAIN p = DOMAIN Lists!Plain /\ p.guarded = FALSE

LEMMA OfferKeeps ==
  ASSUME NEW p, Unnumbered(p), NEW A  PROVE Unnumbered(Lists!Offering(p, A))
  BY DEF Unnumbered, Lists!Offering, Lists!Plain

LEMMA UnnumberedPages ==
  /\ Unnumbered(Lists!AuditLogs)
  /\ Unnumbered(Lists!Messages)
  /\ Unnumbered(Lists!Logs)
  /\ Unnumbered(Lists!MatchManager)
  /\ Unnumbered(Lists!PublicMatches)
  /\ Unnumbered(Lists!DiscordUsers)
  /\ Unnumbered(Lists!LobbyMonitor)
  /\ Unnumbered(Lists!TimeoutsTab)
  /\ Unnumbered(Lists!CooldownList)
  /\ Unnumbered(Lists!MentorView)
  /\ Unnumbered(Lists!SeedingLeaderboard)
  /\ Unnumbered(Lists!ApiTokens)
  /\ Unnumbered(Lists!GiveawayPage)
  /\ Unnumbered(Lists!TicketsTab)
  /\ Unnumbered(Lists!ApplicationsList)
  /\ Unnumbered(Lists!OverviewTab)
<1>1. Unnumbered(Lists!AuditLogs)
  BY DEF Unnumbered, Lists!Plain, Lists!AuditLogs
<1>2. Unnumbered(Lists!Messages)
  BY DEF Unnumbered, Lists!Plain, Lists!Messages
<1>3. Unnumbered(Lists!Logs)
  BY DEF Unnumbered, Lists!Plain, Lists!Logs
<1>4. Unnumbered(Lists!MatchManager)
  BY DEF Unnumbered, Lists!Plain, Lists!MatchManager
<1>5. Unnumbered(Lists!PublicMatches)
  BY DEF Unnumbered, Lists!Plain, Lists!PublicMatches
<1>6. Unnumbered(Lists!DiscordUsers)
  BY DEF Unnumbered, Lists!Plain, Lists!DiscordUsers
<1>7. Unnumbered(Lists!LobbyMonitor)
  BY DEF Unnumbered, Lists!Plain, Lists!LobbyMonitor
<1>8. Unnumbered(Lists!TimeoutsTab)
  BY DEF Unnumbered, Lists!Plain, Lists!TimeoutsTab
<1>9. Unnumbered(Lists!CooldownList)
  BY DEF Unnumbered, Lists!Plain, Lists!CooldownList
<1>10. Unnumbered(Lists!MentorView)
  BY DEF Unnumbered, Lists!Plain, Lists!MentorView
<1>11. Unnumbered(Lists!SeedingLeaderboard)
  BY DEF Unnumbered, Lists!Plain, Lists!SeedingLeaderboard
<1>12. Unnumbered(Lists!ApiTokens)
  BY DEF Unnumbered, Lists!Plain, Lists!ApiTokens
<1>13. Unnumbered(Lists!GiveawayPage)
  BY DEF Unnumbered, Lists!Plain, Lists!GiveawayPage
<1>14. Unnumbered(Lists!TicketsTab)
  BY DEF Unnumbered, Lists!Plain, Lists!TicketsTab
<1>15. Unnumbered(Lists!ApplicationsList)
  BY DEF Unnumbered, Lists!Plain, Lists!ApplicationsList
<1>16. Unnumbered(Lists!OverviewTab)
  BY DEF Unnumbered, Lists!Plain, Lists!OverviewTab
<1> QED
  BY <1>1, <1>2, <1>3, <1>4, <1>5, <1>6, <1>7, <1>8, <1>9, <1>10, <1>11, <1>12, <1>13, <1>14, <1>15, <1>16

LEMMA GuardedPages ==
  ASSUME NEW p \in Lists!Pages
  PROVE  p.guarded \in BOOLEAN /\ (p.guarded => p.acts = {"filter", "turn"})
<1>1. LET q == Lists!Offering(Lists!Tickets, Lists!TicketsOffers) IN q.guarded = TRUE /\ q.acts = {"filter", "turn"}
  BY DEF Lists!Offering, Lists!Tickets, Lists!TicketsOffers, Lists!Plain
<1>2. p = Lists!Offering(Lists!Tickets, Lists!TicketsOffers) \/ Unnumbered(p)
  BY OfferKeeps, UnnumberedPages DEF Lists!Pages
<1> QED
  BY <1>1, <1>2 DEF Unnumbered

LEMMA ListsMatch == ASSUME ListsOK  PROVE Lists!ListIsOfView /\ Lists!DetailIsOfRow
<1>1. Lists!ListIsOfView
  BY DEF ListsOK, RowsOK, NumberedOK, PlainOK, Lists!ListIsOfView, Lists!Quiet, ForRows
<1>2. Lists!DetailIsOfRow
  BY DEF ListsOK, DetailOK, Lists!DetailIsOfRow, Asking, Fetching
<1> QED
  BY <1>1, <1>2

LEMMA ListsInit == Lists!Init => ListsOK
<1> SUFFICES ASSUME Lists!Init  PROVE ListsOK
  OBVIOUS
<1> DEFINE c == CHOOSE d \in AskId : TRUE  q == [Lists!Idle EXCEPT !.op = "list", !.alone = TRUE]
<1>1. /\ reply = [o \in AskId |-> IF o = c THEN q ELSE Lists!Idle] /\ latest = IF page.guarded THEN c ELSE None
      /\ view = Lists!FirstView /\ shown = Lists!Blank /\ open = None /\ kept = Lists!Nothing /\ detail = None
      /\ opened = {} /\ wanted = None /\ page \in Lists!Pages
  BY DEF Lists!Init
<1>2. /\ DOMAIN q = ReplyFields /\ q.alone = TRUE /\ q.sel = None /\ q.op = "list" /\ q.q = Lists!FirstView
      /\ Lists!Lists(q)
  BY DEF ReplyFields, Lists!Idle, Lists!Lists
<1> HIDE DEF q
<1>3. \A o \in AskId : reply[o] = IF o = c THEN q ELSE Lists!Idle
  BY <1>1
<1>4. RepliesOK
  BY <1>1, <1>2, <1>3, BlankReply DEF RepliesOK
<1>5. GuardOK
  BY <1>1, <1>2, <1>3, BlankReply, GuardedPages DEF GuardOK
<1>6. DOMAIN shown = {"rows", "total", "of"}
  BY <1>1 DEF Lists!Blank
<1>7. c \in AskId
  BY PagesAssumption
<1>8. RowsOK
  BY <1>1, <1>2, <1>3, <1>4, <1>5, <1>6, <1>7, BlankReply DEF RowsOK, NumberedOK, PlainOK, ForRows, Lists!Quiet, GuardOK
<1>9. DetailOK
  BY <1>1, <1>2, <1>3, BlankReply DEF DetailOK, Asking, Fetching, Lists!Nothing
<1> QED
  BY <1>8, <1>9 DEF ListsOK

-----------------------------------------------------------------------------
(* Requests.                                                               *)

\* What Request(reply, c, q) does, field by field.
Asked(c, q) ==
  /\ RepliesOK'
  /\ reply'[c].op = q.op /\ reply'[c].q = q.q /\ reply'[c].sel = q.sel
  /\ reply'[c].alone = (Lists!Lists(q) /\ Lists!Alone(reply, c))
  /\ \A o \in AskId \ {c} :
       /\ reply'[o].op = reply[o].op /\ reply'[o].q = reply[o].q /\ reply'[o].sel = reply[o].sel
       /\ reply'[o].alone = (reply[o].alone /\ (page.guarded \/ ~Lists!Lists(q)))
  /\ latest' = IF page.guarded /\ q.op = "list" THEN c ELSE latest

LEMMA RequestAsks ==
  ASSUME RepliesOK, page.guarded \in BOOLEAN, NEW c \in AskId, NEW q, DOMAIN q = ReplyFields, Lists!Request(reply, c, q)
  PROVE  Asked(c, q)
<1> DEFINE lone == Lists!Lists(q) /\ Lists!Alone(reply, c)
           b == page.guarded \/ ~Lists!Lists(q)
<1>1. lone \in BOOLEAN /\ b \in BOOLEAN
  BY DEF Lists!Lists, Lists!Alone
<1>2. /\ reply' = [o \in AskId |-> IF o = c THEN [q EXCEPT !.alone = lone] ELSE [reply[o] EXCEPT !.alone = @ /\ b]]
      /\ latest' = IF page.guarded /\ q.op = "list" THEN c ELSE latest
  BY DEF Lists!Request
<1> HIDE DEF lone, b
<1>3. DOMAIN reply' = AskId /\ reply'[c] = [q EXCEPT !.alone = lone]
      /\ \A o \in AskId \ {c} : reply'[o] = [reply[o] EXCEPT !.alone = reply[o].alone /\ b]
  BY <1>2
<1>4. /\ DOMAIN reply'[c] = ReplyFields /\ reply'[c].alone = lone
      /\ reply'[c].op = q.op /\ reply'[c].q = q.q /\ reply'[c].sel = q.sel
  BY <1>3 DEF ReplyFields
<1>5. ASSUME NEW o \in AskId \ {c}
      PROVE  /\ DOMAIN reply'[o] = ReplyFields /\ reply'[o].alone = (reply[o].alone /\ b)
             /\ reply'[o].op = reply[o].op /\ reply'[o].q = reply[o].q /\ reply'[o].sel = reply[o].sel
  BY <1>3 DEF ReplyFields, RepliesOK
<1>6. RepliesOK'
  BY <1>1, <1>3, <1>4, <1>5 DEF RepliesOK
<1> QED
  BY <1>2, <1>4, <1>5, <1>6 DEF Asked, lone, b

\* A request for rows.
LEMMA RowsAsked ==
  ASSUME RowsOK, GuardOK', page' = page, DOMAIN shown' = {"rows", "total", "of"},
         NEW c \in AskId, NEW q, Asked(c, q), Lists!Lists(q), page.guarded => q.op = "list",
         q.q = view', ~suspect' => Lists!Alone(reply, c)
  PROVE  RowsOK'
<1>1. ForRows(c)' /\ \A o \in AskId \ {c} : ForRows(o)' = ForRows(o)
  BY DEF Asked, ForRows, Lists!Lists
<1>2. CASE page.guarded
  BY <1>1, <1>2 DEF RowsOK, Asked, NumberedOK
<1>3. CASE ~page.guarded
  <2>1. \A o \in AskId \ {c} : reply'[o].alone = FALSE
    BY <1>3 DEF Asked, RowsOK, RepliesOK
  <2>2. reply'[c].alone => \A o \in AskId \ {c} : ~ForRows(o)
    BY <1>3 DEF Asked, Lists!Alone, ForRows
  <2>3. ~suspect' => reply'[c].alone /\ \A o \in AskId \ {c} : ~ForRows(o)
    BY <1>3 DEF Asked, Lists!Alone, ForRows
  <2>4. ~Lists!Quiet'
    BY <1>1 DEF Lists!Quiet, ForRows
  <2>5. reply'[c].q = view'
    BY DEF Asked
  <2>6. PlainOK'
    BY <1>1, <2>1, <2>2, <2>3, <2>4, <2>5 DEF PlainOK
  <2> QED
    BY <1>3, <2>6 DEF RowsOK, Asked
<1> QED
  BY <1>2, <1>3

\* Another request.
LEMMA OtherAsked ==
  ASSUME RowsOK, GuardOK', UNCHANGED <<page, shown, view>>, ~suspect' => ~suspect,
         NEW c \in AskId, NEW q, Asked(c, q), ~Lists!Lists(q), ~ForRows(c)
  PROVE  RowsOK'
<1>1. \A o \in AskId : /\ ForRows(o)' = ForRows(o)
                       /\ ForRows(o) => reply'[o].alone = reply[o].alone /\ reply'[o].q = reply[o].q
                       /\ reply'[o].alone => reply[o].alone
  BY DEF Asked, ForRows, RowsOK, RepliesOK, Lists!Lists
<1>2. Lists!Quiet' = Lists!Quiet /\ latest' = latest
  BY <1>1 DEF Lists!Quiet, ForRows, Asked, Lists!Lists
<1>3. CASE page.guarded
  <2>1. NumberedOK'
    BY <1>1, <1>2, <1>3 DEF RowsOK, NumberedOK
  <2> QED
    BY <1>3, <2>1 DEF RowsOK, Asked
<1>4. CASE ~page.guarded
  <2>1. PlainOK'
    BY <1>1, <1>2, <1>4 DEF RowsOK, PlainOK
  <2> QED
    BY <1>4, <2>1 DEF RowsOK, Asked
<1> QED
  BY <1>3, <1>4

\* A request that is not for the detail of a row, and what is open.
LEMMA DetailStays ==
  ASSUME DetailOK, UNCHANGED <<page, kept, detail, wanted, blurred>>,
         page.detail # "row" \/ ~blurred => open' = open,
         NEW c \in AskId, NEW q, Asked(c, q), q.op # "detail", reply[c].op # "detail", q.sel \in {None, open}
  PROVE  DetailOK'
<1>1. Asking' = Asking
  BY DEF Asking, Asked
<1> QED
  BY <1>1 DEF DetailOK, Asked, Fetching

\* The effect on the view asks for it.
LEMMA ViewAsked ==
  ASSUME ListsOK, NEW c \in AskId, NEW v, v = view', Lists!AskFor(c, v),
         UNCHANGED <<page, shown, open, kept, detail, opened, wanted, blurred>>
  PROVE  ListsOK'
<1> DEFINE q == [Lists!Idle EXCEPT !.op = "list", !.q = v, !.sel = open]
<1>1. RowsOK /\ DetailOK /\ RepliesOK /\ GuardOK
  BY DEF ListsOK, RowsOK
<1>2. DOMAIN q = ReplyFields /\ q.op = "list" /\ q.q = v /\ q.sel = open /\ Lists!Lists(q)
  BY DEF ReplyFields, Lists!Idle, Lists!Lists
<1>3. reply[c] = Lists!Idle /\ Lists!Request(reply, c, q) /\ suspect' = (suspect \/ ~Lists!Alone(reply, c))
  BY DEF Lists!AskFor
<1> HIDE DEF q
<1>4. Asked(c, q) /\ reply[c].op = "idle"
  BY <1>1, <1>2, <1>3, RequestAsks, BlankReply DEF GuardOK
<1>5. GuardOK'
  BY <1>1, <1>2, <1>4 DEF GuardOK, Asked
<1>6. RowsOK'
  BY <1>1, <1>2, <1>3, <1>4, <1>5, RowsAsked DEF RowsOK
<1>7. DetailOK'
  BY <1>1, <1>2, <1>4, DetailStays
<1> QED
  BY <1>6, <1>7 DEF ListsOK

LEMMA ViewSteps ==
  ASSUME ListsOK, NEW c \in AskId, Lists!ChangeFilter(c) \/ Lists!Turn(c) \/ Lists!Renew(c)
  PROVE  ListsOK'
<1>1. CASE Lists!ChangeFilter(c) \/ Lists!Turn(c)
  BY <1>1, ViewAsked DEF Lists!ChangeFilter, Lists!Turn
<1>2. CASE Lists!Renew(c)
  <2>1. view' = view /\ Lists!AskFor(c, view) /\ UNCHANGED <<page, shown, open, kept, detail, opened, wanted, blurred>>
    BY <1>2 DEF Lists!Renew
  <2>2. PICK v : v = view' /\ Lists!AskFor(c, v)
    BY <2>1
  <2> QED
    BY <2>1, <2>2, ViewAsked
<1> QED
  BY <1>1, <1>2

\* The interval asks again.
LEMMA RefreshStep ==
  ASSUME ListsOK, NEW c \in AskId, Lists!Refresh(c)
  PROVE  ListsOK'
<1> DEFINE q == [Lists!Idle EXCEPT !.op = "list", !.q = view, !.sel = open, !.silent = TRUE]
<1>1. RowsOK /\ DetailOK /\ RepliesOK /\ GuardOK
  BY DEF ListsOK, RowsOK
<1>2. DOMAIN q = ReplyFields /\ q.op = "list" /\ q.q = view /\ q.sel = open /\ Lists!Lists(q)
  BY DEF ReplyFields, Lists!Idle, Lists!Lists
<1>3. /\ reply[c] = Lists!Idle /\ Lists!Request(reply, c, q) /\ suspect' = (suspect \/ ~Lists!Alone(reply, c))
      /\ UNCHANGED <<page, view, shown, open, kept, detail, opened, wanted, blurred>>
  BY DEF Lists!Refresh
<1> HIDE DEF q
<1>4. Asked(c, q) /\ reply[c].op = "idle"
  BY <1>1, <1>2, <1>3, RequestAsks, BlankReply DEF GuardOK
<1>5. GuardOK'
  BY <1>1, <1>2, <1>3, <1>4 DEF GuardOK, Asked
<1>6. RowsOK'
  BY <1>1, <1>2, <1>3, <1>4, <1>5, RowsAsked DEF RowsOK
<1>7. DetailOK'
  BY <1>1, <1>2, <1>3, <1>4, DetailStays
<1> QED
  BY <1>6, <1>7 DEF ListsOK

\* A change that is followed by the list, on a page that does not number its requests.
LEMMA ActAsked ==
  ASSUME ListsOK, ~page.guarded, NEW c \in AskId, reply[c] = Lists!Idle,
         NEW q, DOMAIN q = ReplyFields, q.op = "act", q.q = view, q.sel = open,
         Lists!Request(reply, c, q), suspect' = (suspect \/ ~Lists!Alone(reply, c)),
         UNCHANGED <<page, view, shown, open, kept, detail, wanted, blurred>>
  PROVE  ListsOK'
<1>1. RowsOK /\ DetailOK /\ RepliesOK /\ GuardOK /\ Lists!Lists(q)
  BY DEF ListsOK, RowsOK, Lists!Lists
<1>2. Asked(c, q) /\ reply[c].op = "idle"
  BY <1>1, RequestAsks, BlankReply DEF GuardOK
<1>3. GuardOK'
  BY <1>1 DEF GuardOK
<1>4. RowsOK'
  BY <1>1, <1>2, <1>3, RowsAsked DEF RowsOK
<1>5. DetailOK'
  BY <1>1, <1>2, DetailStays
<1> QED
  BY <1>4, <1>5 DEF ListsOK

\* A change to one row, whose answer is all the page asks for.
LEMMA ChangeAsked ==
  ASSUME ListsOK, NEW c \in AskId, reply[c] = Lists!Idle,
         NEW q, DOMAIN q = ReplyFields, ~Lists!Lists(q), q.op # "detail", q.sel \in {None, open},
         Lists!Request(reply, c, q), page.guarded => opened' = {},
         UNCHANGED <<page, view, shown, open, kept, detail, wanted, blurred, suspect>>
  PROVE  ListsOK'
<1>1. RowsOK /\ DetailOK /\ RepliesOK /\ GuardOK /\ ~ForRows(c) /\ q.op # "act"
  BY BlankReply DEF ListsOK, RowsOK, ForRows, Lists!Lists
<1>2. Asked(c, q) /\ reply[c].op = "idle"
  BY <1>1, RequestAsks, BlankReply DEF GuardOK
<1>3. GuardOK'
  BY <1>1, <1>2 DEF GuardOK, Asked
<1>4. RowsOK'
  BY <1>1, <1>2, <1>3, OtherAsked
<1>5. DetailOK'
  BY <1>1, <1>2, DetailStays
<1> QED
  BY <1>4, <1>5 DEF ListsOK

LEMMA ActStep ==
  ASSUME ListsOK, NEW c \in AskId, Lists!Act(c)
  PROVE  ListsOK'
<1> DEFINE q == [Lists!Idle EXCEPT !.op = "act", !.q = view, !.sel = open]
<1>1. DOMAIN q = ReplyFields /\ q.op = "act" /\ q.q = view /\ q.sel = open
  BY DEF ReplyFields, Lists!Idle
<1>2. ~page.guarded
  BY DEF Lists!Act, ListsOK, RowsOK, GuardOK
<1>3. /\ reply[c] = Lists!Idle /\ Lists!Request(reply, c, q) /\ suspect' = (suspect \/ ~Lists!Alone(reply, c))
      /\ UNCHANGED <<page, view, shown, open, kept, detail, wanted, blurred>>
  BY DEF Lists!Act
<1> HIDE DEF q
<1> QED
  BY <1>1, <1>2, <1>3, ActAsked

LEMMA SaveStep ==
  ASSUME ListsOK, NEW c \in AskId, Lists!Save(c)
  PROVE  ListsOK'
<1>1. PICK e \in opened : Lists!Request(reply, c, [Lists!Idle EXCEPT
                             !.op = IF "edit" \in page.acts THEN "update" ELSE "act",
                             !.id = e, !.q = view, !.sel = open])
  BY DEF Lists!Save
<1> DEFINE op == IF "edit" \in page.acts THEN "update" ELSE "act"
           q == [Lists!Idle EXCEPT !.op = op, !.id = e, !.q = view, !.sel = open]
<1>2. DOMAIN q = ReplyFields /\ q.op = op /\ q.q = view /\ q.sel = open
  BY DEF ReplyFields, Lists!Idle
<1>3. ~page.guarded /\ RepliesOK /\ page.guarded \in BOOLEAN
  BY <1>1 DEF ListsOK, RowsOK, GuardOK
<1>4. /\ reply[c] = Lists!Idle /\ Lists!Request(reply, c, q)
      /\ suspect' = (suspect \/ (Lists!Lists(reply'[c]) /\ ~Lists!Alone(reply, c)))
      /\ UNCHANGED <<page, view, shown, open, kept, detail, opened, wanted, blurred>>
  BY <1>1 DEF Lists!Save
<1> HIDE DEF q
<1>5. reply'[c].op = op
  BY <1>2, <1>3, <1>4, RequestAsks DEF Asked
<1>6. CASE op = "act"
  <2>1. suspect' = (suspect \/ ~Lists!Alone(reply, c))
    BY <1>4, <1>5, <1>6 DEF Lists!Lists
  <2> QED
    BY <1>2, <1>3, <1>4, <1>6, <2>1, ActAsked
<1>7. CASE op = "update"
  <2>1. ~Lists!Lists(q) /\ suspect' = (suspect \/ FALSE)
    BY <1>2, <1>4, <1>5, <1>7 DEF Lists!Lists
  <2>2. ~suspect' <=> ~suspect
    BY <2>1
  <2>3. RowsOK' /\ DetailOK'
    <3>1. RowsOK /\ DetailOK /\ GuardOK /\ ~ForRows(c)
      BY <1>4, BlankReply DEF ListsOK, RowsOK, ForRows
    <3>2. Asked(c, q) /\ reply[c].op = "idle"
      BY <1>2, <1>3, <1>4, RequestAsks, BlankReply
    <3>3. GuardOK'
      BY <1>3, <1>4, <3>1 DEF GuardOK
    <3>4. DetailOK'
      BY <1>2, <1>4, <1>7, <3>1, <3>2, DetailStays
    <3> QED
      BY <1>4, <2>1, <3>1, <3>2, <3>3, <3>4, OtherAsked
  <2> QED
    BY <2>3 DEF ListsOK
<1> QED
  BY <1>6, <1>7

LEMMA ChangeStep ==
  ASSUME ListsOK, NEW c \in AskId, Lists!Change(c)
  PROVE  ListsOK'
<1>1. /\ reply[c] = Lists!Idle /\ UNCHANGED <<page, view, shown, open, kept, detail, opened, wanted, blurred, suspect>>
      /\ page.guarded => opened' = {}
  BY DEF Lists!Change, Lists!history, ListsOK, RowsOK, GuardOK
<1>2. ASSUME NEW o \in {"update", "remove", "delete"}, NEW i \in Line,
             Lists!Request(reply, c, [Lists!Idle EXCEPT !.op = o, !.id = i, !.silent = TRUE])
      PROVE  ListsOK'
  <2> DEFINE q == [Lists!Idle EXCEPT !.op = o, !.id = i, !.silent = TRUE]
  <2>1. DOMAIN q = ReplyFields /\ q.op = o /\ q.sel = None /\ ~Lists!Lists(q)
    BY DEF ReplyFields, Lists!Idle, Lists!Lists
  <2>2. Lists!Request(reply, c, q)
    BY <1>2
  <2> HIDE DEF q
  <2> QED
    BY <1>1, <2>1, <2>2, ChangeAsked
<1>3. CASE Lists!Request(reply, c, [Lists!Idle EXCEPT !.op = "create"])
  <2> DEFINE q == [Lists!Idle EXCEPT !.op = "create"]
  <2>1. DOMAIN q = ReplyFields /\ q.op = "create" /\ q.sel = None /\ ~Lists!Lists(q)
    BY DEF ReplyFields, Lists!Idle, Lists!Lists
  <2>2. Lists!Request(reply, c, q)
    BY <1>3
  <2> HIDE DEF q
  <2> QED
    BY <1>1, <2>1, <2>2, ChangeAsked
<1> QED
  BY <1>2, <1>3 DEF Lists!Change, Lists!Listed

\* Two requests for the first page at once, or one.
LEMMA ApplyStep ==
  ASSUME ListsOK, NEW c \in AskId, NEW d \in AskId, Lists!ApplyFilters(c, d)
  PROVE  ListsOK'
<1> DEFINE lone == c = d /\ Lists!Alone(reply, c)
           q == [Lists!Idle EXCEPT !.op = "list", !.q = view', !.alone = lone]
<1>1. RowsOK /\ DetailOK /\ RepliesOK /\ GuardOK /\ ~page.guarded
  BY DEF ListsOK, RowsOK, GuardOK, Lists!ApplyFilters
<1>2. /\ reply[c] = Lists!Idle /\ reply[d] = Lists!Idle /\ suspect' = (suspect \/ ~lone)
      /\ reply' = [o \in AskId |-> IF o \in {c, d} THEN q ELSE [reply[o] EXCEPT !.alone = FALSE]]
      /\ UNCHANGED <<page, shown, open, kept, detail, opened, wanted, blurred>>
  BY DEF Lists!ApplyFilters
<1>3. DOMAIN q = ReplyFields /\ q.op = "list" /\ q.sel = None /\ q.alone = lone /\ q.q = view' /\ lone \in BOOLEAN
      /\ Lists!Lists(q)
  BY DEF ReplyFields, Lists!Idle, Lists!Lists
<1> HIDE DEF q
<1>4. DOMAIN reply' = AskId /\ reply'[c] = q /\ reply'[d] = q
  BY <1>2
<1>5. ASSUME NEW o \in AskId \ {c, d}
      PROVE  /\ DOMAIN reply'[o] = ReplyFields /\ reply'[o].alone = FALSE
             /\ reply'[o].op = reply[o].op /\ reply'[o].sel = reply[o].sel
  BY <1>1, <1>2 DEF ReplyFields, RepliesOK
<1>6. RepliesOK'
  BY <1>3, <1>4, <1>5 DEF RepliesOK
<1>7. GuardOK'
  BY <1>1, <1>2 DEF GuardOK
<1>8. lone => \A o \in AskId \ {c} : ~ForRows(o)
  BY <1>1 DEF Lists!Alone, ForRows
<1>9. ForRows(c)' /\ ForRows(d)' /\ \A o \in AskId \ {c, d} : ForRows(o)' = ForRows(o)
  BY <1>3, <1>4, <1>5 DEF ForRows, Lists!Lists
<1>10. PlainOK'
  <2>1. ~Lists!Quiet'
    BY <1>9 DEF Lists!Quiet, ForRows
  <2>2. \A o \in AskId : reply'[o].alone => o = c /\ c = d /\ lone
    BY <1>3, <1>4, <1>5
  <2>3. \A a, b \in AskId : reply'[a].alone /\ ForRows(b)' => a = b
    BY <1>8, <1>9, <2>2
  <2>4. \A o \in AskId : reply'[o].alone => ForRows(o)' /\ reply'[o].q = view'
    BY <1>3, <1>4, <1>9, <2>2
  <2>5. ~suspect' => \A o \in AskId : ForRows(o)' => reply'[o].alone
    BY <1>2, <1>3, <1>4, <1>8, <1>9
  <2> QED
    BY <2>1, <2>3, <2>4, <2>5 DEF PlainOK
<1>11. RowsOK'
  BY <1>1, <1>2, <1>6, <1>7, <1>10 DEF RowsOK
<1>12. Asking' = Asking
  BY <1>2, <1>3, <1>4, <1>5, BlankReply DEF Asking
<1>13. DetailOK'
  BY <1>1, <1>2, <1>3, <1>4, <1>5, <1>12 DEF DetailOK, Fetching
<1> QED
  BY <1>11, <1>13 DEF ListsOK

-----------------------------------------------------------------------------
(* Forms and details.                                                      *)

LEMMA EditStep ==
  ASSUME ListsOK, Lists!Edit
  PROVE  ListsOK'
<1>1. UNCHANGED <<page, view, shown, latest, open, kept, detail, reply, suspect, wanted, blurred>>
  BY DEF Lists!Edit, Lists!history
<1>2. page.guarded => opened' = {}
  BY DEF Lists!Edit, ListsOK, RowsOK, GuardOK
<1>3. GuardOK'
  BY <1>1, <1>2 DEF ListsOK, RowsOK, GuardOK
<1> QED
  BY <1>1, <1>3 DEF ListsOK, RowsOK, RepliesOK, NumberedOK, PlainOK, ForRows, Lists!Quiet, DetailOK, Asking, Fetching

LEMMA SelectStep ==
  ASSUME ListsOK, NEW c \in AskId, NEW i \in Line, Lists!Select(c, i)
  PROVE  ListsOK'
<1>1. RowsOK /\ DetailOK /\ RepliesOK /\ GuardOK
  BY DEF ListsOK, RowsOK
<1>2. /\ page.detail # "none" /\ open' = i /\ wanted' = i /\ blurred' = Lists!Underway(i)
      /\ UNCHANGED <<page, view, shown, kept, detail, opened, suspect>>
  BY DEF Lists!Select
<1>3. ~blurred' => ~Asking /\ \A o \in AskId : reply[o].sel \in {None, i}
  BY <1>2 DEF Lists!Underway, Asking
<1>4. CASE page.detail = "row" \/ kept[i] # None
  <2>1. UNCHANGED <<reply, latest>>
    BY <1>4 DEF Lists!Select
  <2>2. RowsOK'
    BY <1>1, <1>2, <2>1 DEF RowsOK, RepliesOK, GuardOK, NumberedOK, PlainOK, ForRows, Lists!Quiet
  <2>3. DetailOK'
    BY <1>1, <1>2, <1>3, <1>4, <2>1 DEF DetailOK, Asking, Fetching
  <2> QED
    BY <2>2, <2>3 DEF ListsOK
<1>5. CASE ~(page.detail = "row" \/ kept[i] # None)
  <2> DEFINE q == [Lists!Idle EXCEPT !.op = "detail", !.id = i]
  <2>1. DOMAIN q = ReplyFields /\ q.op = "detail" /\ q.sel = None /\ ~Lists!Lists(q)
    BY DEF ReplyFields, Lists!Idle, Lists!Lists
  <2>2. reply[c] = Lists!Idle /\ Lists!Request(reply, c, q)
    BY <1>5 DEF Lists!Select
  <2> HIDE DEF q
  <2>3. Asked(c, q) /\ ~ForRows(c) /\ reply[c].op = "idle"
    BY <1>1, <2>1, <2>2, RequestAsks, BlankReply DEF GuardOK, ForRows
  <2>4. GuardOK'
    BY <1>1, <1>2, <2>1, <2>3 DEF GuardOK, Asked
  <2>5. RowsOK'
    BY <1>1, <1>2, <2>1, <2>3, <2>4, OtherAsked
  <2>6. Asking'
    BY <2>1, <2>3 DEF Asking, Asked
  <2>7. DetailOK'
    BY <1>1, <1>2, <1>5, <2>6 DEF DetailOK, Fetching
  <2> QED
    BY <2>5, <2>7 DEF ListsOK
<1> QED
  BY <1>4, <1>5

LEMMA CloseStep ==
  ASSUME ListsOK, Lists!Close
  PROVE  ListsOK'
<1>1. /\ open' = None /\ wanted' = None /\ detail' = None /\ blurred' = Lists!Underway(None)
      /\ UNCHANGED <<page, view, shown, latest, kept, opened, reply, suspect>>
  BY DEF Lists!Close
<1>2. RowsOK'
  BY <1>1 DEF ListsOK, RowsOK, RepliesOK, GuardOK, NumberedOK, PlainOK, ForRows, Lists!Quiet
<1>3. ~blurred' => \A o \in AskId : reply[o].sel = None
  BY <1>1 DEF Lists!Underway
<1>4. DetailOK'
  BY <1>1, <1>3 DEF ListsOK, DetailOK, Asking, Fetching
<1> QED
  BY <1>2, <1>4 DEF ListsOK

-----------------------------------------------------------------------------
(* The api.                                                                *)

\* A request goes on, and is what it was.
Moved(c) ==
  /\ DOMAIN reply' = AskId /\ \A o \in AskId \ {c} : reply'[o] = reply[o]
  /\ DOMAIN reply'[c] = ReplyFields
  /\ reply'[c].op = reply[c].op /\ reply'[c].q = reply[c].q
  /\ reply'[c].alone = reply[c].alone /\ reply'[c].sel = reply[c].sel

LEMMA MovedKeeps ==
  ASSUME ListsOK, NEW c \in AskId, Moved(c),
         UNCHANGED <<page, view, shown, latest, open, kept, detail, opened, suspect, wanted, blurred>>
  PROVE  ListsOK'
<1>1. \A o \in AskId : /\ ForRows(o)' = ForRows(o) /\ reply'[o].op = reply[o].op /\ reply'[o].q = reply[o].q
                       /\ reply'[o].alone = reply[o].alone /\ reply'[o].sel = reply[o].sel
  BY DEF Moved, ForRows, Lists!Lists
<1>2. RepliesOK' /\ GuardOK'
  BY <1>1 DEF ListsOK, RowsOK, RepliesOK, GuardOK, Moved
<1>3. Asking' = Asking /\ Lists!Quiet' = Lists!Quiet
  BY <1>1 DEF Asking, Lists!Quiet, ForRows
<1>4. RowsOK'
  BY <1>1, <1>2, <1>3 DEF ListsOK, RowsOK, NumberedOK, PlainOK
<1>5. DetailOK'
  BY <1>1, <1>3 DEF ListsOK, DetailOK, Fetching
<1> QED
  BY <1>4, <1>5 DEF ListsOK

LEMMA ServeStep ==
  ASSUME ListsOK, NEW c \in AskId, Lists!Serve(c) \/ Lists!Breaks(c)
  PROVE  ListsOK'
<1>1. DOMAIN reply = AskId /\ \A o \in AskId : DOMAIN reply[o] = ReplyFields
  BY DEF ListsOK, RowsOK, RepliesOK
<1>2. ASSUME NEW x, NEW y, \/ reply' = [reply EXCEPT ![c].rows = x, ![c].at = y]
                          \/ reply' = [reply EXCEPT ![c].total = x, ![c].at = y]
                          \/ reply' = [reply EXCEPT ![c].at = y]
      PROVE  Moved(c)
  BY <1>1, <1>2 DEF Moved, ReplyFields
<1>3. Lists!Fails(c) => Moved(c)
  BY <1>1 DEF Moved, ReplyFields, Lists!Fails
<1>4. ASSUME NEW i, Lists!Gives(c, i)  PROVE Moved(c)
  BY <1>1, <1>4 DEF Moved, ReplyFields, Lists!Gives
<1>5. Moved(c)
  <2>1. Lists!List(c) => Moved(c)
    BY <1>2 DEF Lists!List
  <2>2. Lists!Detail(c) => Moved(c)
    BY <1>3, <1>4 DEF Lists!Detail
  <2>3. Lists!Write(c) => Moved(c)
    BY <1>2, <1>3, <1>4 DEF Lists!Write
  <2> QED
    BY <1>3, <2>1, <2>2, <2>3 DEF Lists!Serve, Lists!Breaks
<1>6. UNCHANGED <<page, view, shown, latest, open, kept, detail, opened, suspect, wanted, blurred>>
  BY DEF Lists!Serve, Lists!Breaks, Lists!screen, Lists!history
<1> QED
  BY <1>5, <1>6, MovedKeeps

-----------------------------------------------------------------------------
(* The page hears the answer.                                              *)

\* A request is over.
LEMMA FreedIs ==
  ASSUME RepliesOK, NEW c \in AskId, Lists!Freed(c)
  PROVE  /\ RepliesOK' /\ latest' = latest /\ reply'[c] = Lists!Idle /\ ~ForRows(c)'
         /\ \A o \in AskId \ {c} : reply'[o] = reply[o] /\ ForRows(o)' = ForRows(o)
         /\ reply[c].op # "detail" => Asking' = Asking
<1>1. latest' = latest /\ DOMAIN reply' = AskId /\ reply'[c] = Lists!Idle /\ \A o \in AskId \ {c} : reply'[o] = reply[o]
  BY DEF Lists!Freed, RepliesOK
<1>2. RepliesOK'
  BY <1>1, BlankReply DEF RepliesOK
<1>3. ~ForRows(c)' /\ \A o \in AskId \ {c} : ForRows(o)' = ForRows(o)
  BY <1>1, BlankReply DEF ForRows
<1>4. reply[c].op # "detail" => Asking' = Asking
  BY <1>1, BlankReply DEF Asking
<1> QED
  BY <1>1, <1>2, <1>3, <1>4

\* One that was not for the list: the rows are those of the same view.
LEMMA OtherFreed ==
  ASSUME RowsOK, NEW c \in AskId, ~ForRows(c), Lists!Freed(c), opened' \subseteq opened,
         UNCHANGED <<page, view>>, DOMAIN shown' = {"rows", "total", "of"}, shown'.of = shown.of, ~suspect' => ~suspect
  PROVE  RowsOK'
<1>1. /\ RepliesOK' /\ latest' = latest /\ reply'[c] = Lists!Idle /\ ~ForRows(c)'
      /\ \A o \in AskId \ {c} : reply'[o] = reply[o] /\ ForRows(o)' = ForRows(o)
  BY FreedIs DEF RowsOK
<1>2. GuardOK'
  BY <1>1, BlankReply DEF RowsOK, GuardOK
<1>3. Lists!Quiet' = Lists!Quiet
  BY <1>1 DEF Lists!Quiet, ForRows
<1>4. CASE page.guarded
  BY <1>1, <1>2, <1>4 DEF RowsOK, NumberedOK
<1>5. CASE ~page.guarded
  BY <1>1, <1>2, <1>3, <1>5, BlankReply DEF RowsOK, PlainOK
<1> QED
  BY <1>4, <1>5

\* What is open stays, when the request that is over was not for its detail.
LEMMA DetailFreed ==
  ASSUME DetailOK, RepliesOK, NEW c \in AskId, reply[c].op # "detail", Lists!Freed(c),
         UNCHANGED <<page, kept, detail, wanted>>, ~blurred' => ~blurred,
         page.detail # "row" \/ ~blurred => open' = open
  PROVE  DetailOK'
<1>1. /\ Asking' = Asking /\ reply'[c] = Lists!Idle /\ \A o \in AskId \ {c} : reply'[o] = reply[o]
  BY FreedIs
<1> QED
  BY <1>1, BlankReply DEF DetailOK, Fetching

LEMMA ListCameStep ==
  ASSUME ListsOK, NEW c \in AskId, Lists!ListCame(c), page' = page
  PROVE  ListsOK'
<1>1. RowsOK /\ DetailOK /\ RepliesOK /\ GuardOK
  BY DEF ListsOK, RowsOK
<1>2. /\ reply[c].op = "list" /\ ForRows(c) /\ (page.guarded => latest = c)
      /\ UNCHANGED <<kept, detail, opened, wanted, blurred>>
  BY DEF Lists!ListCame, Lists!Came, ForRows, Lists!Lists
<1>3. DOMAIN shown' = {"rows", "total", "of"} /\ shown'.of = reply[c].q
  BY DEF Lists!ListCame
<1>4. page.detail # "row" \/ ~blurred => open' = open
  BY <1>1 DEF Lists!ListCame, DetailOK
<1>5. CASE page.clamps /\ view.page > Lists!LastPage(reply[c].total)
  <2> DEFINE q == [Lists!Idle EXCEPT !.op = "list", !.q = view', !.sel = open]
  <2>1. DOMAIN q = ReplyFields /\ q.op = "list" /\ q.q = view' /\ q.sel = open /\ Lists!Lists(q)
    BY DEF ReplyFields, Lists!Idle, Lists!Lists
  <2>2. Lists!Request(reply, c, q) /\ (~suspect' => Lists!Alone(reply, c))
    BY <1>5 DEF Lists!ListCame
  <2> HIDE DEF q
  <2>3. Asked(c, q)
    BY <1>1, <2>1, <2>2, RequestAsks DEF GuardOK
  <2>4. GuardOK'
    BY <1>1, <1>2, <2>1, <2>3 DEF GuardOK, Asked
  <2>5. RowsOK'
    BY <1>1, <1>3, <2>1, <2>2, <2>3, <2>4, RowsAsked
  <2>6. DetailOK'
    BY <1>1, <1>2, <1>4, <2>1, <2>3, DetailStays
  <2> QED
    BY <2>5, <2>6 DEF ListsOK
<1>6. CASE ~(page.clamps /\ view.page > Lists!LastPage(reply[c].total))
  <2>1. Lists!Freed(c) /\ view' = view /\ suspect' = (suspect /\ ~reply[c].alone)
    BY <1>6 DEF Lists!ListCame
  <2>2. /\ RepliesOK' /\ latest' = latest /\ reply'[c] = Lists!Idle /\ ~ForRows(c)'
        /\ \A o \in AskId \ {c} : reply'[o] = reply[o] /\ ForRows(o)' = ForRows(o)
    BY <1>1, <2>1, FreedIs
  <2>3. GuardOK'
    BY <1>1, <1>2, <2>2, BlankReply DEF GuardOK
  <2>4. ASSUME page.guarded  PROVE RowsOK'
    BY <1>1, <1>2, <1>3, <2>1, <2>2, <2>3, <2>4 DEF RowsOK, NumberedOK
  <2>5. ASSUME ~page.guarded  PROVE RowsOK'
    <3>1. PlainOK
      BY <1>1, <2>5 DEF RowsOK
    <3>2. ~suspect' => reply[c].alone
      BY <1>2, <2>1, <3>1 DEF PlainOK
    <3>3. ~suspect' => \A o \in AskId : ~ForRows(o)'
      BY <2>2, <3>1, <3>2 DEF PlainOK
    <3>4. ~suspect' => shown'.of = view
      BY <1>3, <3>1, <3>2 DEF PlainOK
    <3>5. PlainOK'
      BY <2>1, <2>2, <3>1, <3>3, <3>4, BlankReply DEF PlainOK
    <3> QED
      BY <1>3, <2>2, <2>3, <2>5, <3>5 DEF RowsOK
  <2>6. DetailOK'
    BY <1>1, <1>2, <1>4, <2>1, DetailFreed
  <2> QED
    BY <1>3, <2>4, <2>5, <2>6 DEF ListsOK
<1> QED
  BY <1>5, <1>6

LEMMA SupersededStep ==
  ASSUME ListsOK, NEW c \in AskId, Lists!Superseded(c), page' = page
  PROVE  ListsOK'
<1>1. RowsOK /\ DetailOK /\ RepliesOK /\ GuardOK /\ NumberedOK
  BY DEF ListsOK, RowsOK, Lists!Superseded
<1>2. /\ Lists!Freed(c) /\ reply[c].op = "list" /\ page.guarded /\ latest # c
      /\ UNCHANGED <<view, shown, open, kept, detail, opened, suspect, wanted, blurred>>
  BY DEF Lists!Superseded, Lists!history
<1>3. /\ RepliesOK' /\ latest' = latest /\ reply'[c] = Lists!Idle
      /\ \A o \in AskId \ {c} : reply'[o] = reply[o] /\ ForRows(o)' = ForRows(o)
  BY <1>1, <1>2, FreedIs
<1>4. GuardOK'
  BY <1>1, <1>2, <1>3, BlankReply DEF GuardOK
<1>5. RowsOK'
  BY <1>1, <1>2, <1>3, <1>4 DEF RowsOK, NumberedOK
<1>6. DetailOK'
  BY <1>1, <1>2, DetailFreed
<1> QED
  BY <1>5, <1>6 DEF ListsOK

LEMMA ActedStep ==
  ASSUME ListsOK, NEW c \in AskId, Lists!Acted(c), page' = page
  PROVE  ListsOK'
<1> DEFINE q == [Lists!Idle EXCEPT !.op = "list", !.q = reply[c].q, !.sel = reply[c].sel,
                                   !.alone = reply[c].alone, !.after = TRUE]
<1>1. RowsOK /\ DetailOK /\ RepliesOK /\ GuardOK
  BY DEF ListsOK, RowsOK
<1>2. /\ reply[c].op = "act" /\ ~page.guarded /\ ForRows(c)
      /\ UNCHANGED <<view, shown, open, kept, detail, suspect, wanted, blurred>>
  BY <1>1 DEF Lists!Acted, Lists!Came, Lists!history, GuardOK, ForRows, Lists!Lists
<1>3. DOMAIN q = ReplyFields /\ q.op = "list" /\ q.q = reply[c].q /\ q.sel = reply[c].sel /\ q.alone = reply[c].alone
      /\ Lists!Lists(q)
  BY DEF ReplyFields, Lists!Idle, Lists!Lists
<1>4. reply' = [reply EXCEPT ![c] = q]
  BY DEF Lists!Acted
<1> HIDE DEF q
<1>5. DOMAIN reply' = AskId /\ reply'[c] = q /\ \A o \in AskId \ {c} : reply'[o] = reply[o]
  BY <1>1, <1>4 DEF RepliesOK
<1>6. /\ RepliesOK' /\ Asking' = Asking
      /\ \A o \in AskId : /\ ForRows(o)' = ForRows(o) /\ reply'[o].q = reply[o].q
                           /\ reply'[o].alone = reply[o].alone /\ reply'[o].sel = reply[o].sel
  <2>1. RepliesOK' /\ Asking' = Asking
    BY <1>1, <1>2, <1>3, <1>5 DEF RepliesOK, Asking
  <2>2. \A o \in AskId : ForRows(o)' = ForRows(o)
    BY <1>2, <1>3, <1>5 DEF ForRows, Lists!Lists
  <2>3. \A o \in AskId : reply'[o].q = reply[o].q /\ reply'[o].alone = reply[o].alone /\ reply'[o].sel = reply[o].sel
    BY <1>3, <1>5
  <2> QED
    BY <2>1, <2>2, <2>3
<1>7. GuardOK' /\ Lists!Quiet' = Lists!Quiet
  BY <1>1, <1>2, <1>6 DEF GuardOK, Lists!Quiet, ForRows
<1>8. RowsOK'
  BY <1>1, <1>2, <1>6, <1>7 DEF RowsOK, PlainOK
<1>9. DetailOK'
  BY <1>1, <1>2, <1>6 DEF DetailOK, Fetching
<1> QED
  BY <1>8, <1>9 DEF ListsOK

LEMMA ChangedStep ==
  ASSUME ListsOK, NEW c \in AskId, Lists!Changed(c), page' = page
  PROVE  ListsOK'
<1>1. RowsOK /\ DetailOK /\ RepliesOK
  BY DEF ListsOK, RowsOK
<1>2. /\ ~ForRows(c) /\ reply[c].op # "detail" /\ Lists!Freed(c) /\ opened' \subseteq opened
      /\ UNCHANGED <<view, open, kept, detail, suspect, wanted, blurred>>
  BY DEF Lists!Changed, Lists!Came, Lists!history, ForRows, Lists!Lists
<1>3. DOMAIN shown' = {"rows", "total", "of"} /\ shown'.of = shown.of
  BY <1>1 DEF RowsOK, Lists!Changed
<1>4. RowsOK'
  BY <1>1, <1>2, <1>3, OtherFreed
<1>5. DetailOK'
  BY <1>1, <1>2, DetailFreed
<1> QED
  BY <1>4, <1>5 DEF ListsOK

LEMMA DetailCameStep ==
  ASSUME ListsOK, NEW c \in AskId, Lists!DetailCame(c), page' = page
  PROVE  ListsOK'
<1>1. RowsOK /\ DetailOK /\ RepliesOK
  BY DEF ListsOK, RowsOK
<1>2. /\ ~ForRows(c) /\ reply[c].op = "detail" /\ Lists!Freed(c)
      /\ UNCHANGED <<view, shown, open, opened, suspect, wanted>>
  BY DEF Lists!DetailCame, Lists!Came, ForRows, Lists!Lists
<1>3. RowsOK'
  BY <1>1, <1>2, OtherFreed DEF RowsOK
<1>4. page.detail \notin {"none", "row"}
  BY <1>1, <1>2 DEF DetailOK, Asking
<1>5. CASE page.detail # "kept"
  <2>1. detail' = reply[c].id /\ kept' = kept /\ blurred' = (reply[c].id # open)
    BY <1>5 DEF Lists!DetailCame
  <2> QED
    BY <1>1, <1>2, <1>3, <1>4, <1>5, <2>1 DEF DetailOK, Fetching, ListsOK
<1>6. CASE page.detail = "kept" /\ UNCHANGED <<detail, blurred>>
  BY <1>1, <1>2, <1>3, <1>4, <1>6 DEF DetailOK, Fetching, ListsOK
<1> QED
  BY <1>5, <1>6 DEF Lists!DetailCame

LEMMA FailedStep ==
  ASSUME ListsOK, NEW c \in AskId, Lists!Failed(c), page' = page
  PROVE  ListsOK'
<1>1. RowsOK /\ DetailOK /\ RepliesOK /\ GuardOK
  BY DEF ListsOK, RowsOK
<1>2. /\ Lists!Freed(c) /\ suspect' = (suspect \/ ForRows(c)) /\ blurred' = (blurred \/ reply[c].op = "detail")
      /\ (reply[c].op = "list" => ~page.guarded \/ latest = c)
      /\ UNCHANGED <<view, shown, open, kept, detail, opened, wanted>>
  BY DEF Lists!Failed, ForRows
<1>3. /\ RepliesOK' /\ latest' = latest /\ reply'[c] = Lists!Idle /\ ~ForRows(c)'
      /\ \A o \in AskId \ {c} : reply'[o] = reply[o] /\ ForRows(o)' = ForRows(o)
  BY <1>1, <1>2, FreedIs
<1>4. RowsOK'
  <2>1. GuardOK'
    BY <1>1, <1>2, <1>3, BlankReply DEF GuardOK
  <2>2. ASSUME ~ForRows(c)  PROVE RowsOK'
    <3>1. ~suspect' => ~suspect
      BY <1>2
    <3> QED
      BY <1>1, <1>2, <2>2, <3>1, OtherFreed DEF RowsOK
  <2>3. ASSUME ForRows(c), page.guarded  PROVE RowsOK'
    <3>1. latest = c /\ suspect'
      BY <1>1, <1>2, <2>3 DEF GuardOK, ForRows, Lists!Lists
    <3> QED
      BY <1>1, <1>2, <1>3, <2>1, <2>3, <3>1 DEF RowsOK, NumberedOK
  <2>4. ASSUME ForRows(c), ~page.guarded  PROVE RowsOK'
    BY <1>1, <1>2, <1>3, <2>1, <2>4, BlankReply DEF RowsOK, PlainOK
  <2> QED
    BY <2>2, <2>3, <2>4
<1>5. DetailOK'
  <2>1. CASE reply[c].op # "detail"
    <3>1. ~blurred' => ~blurred
      BY <1>2
    <3> QED
      BY <1>1, <1>2, <2>1, <3>1, DetailFreed
  <2>2. CASE reply[c].op = "detail"
    <3>1. blurred' /\ page.detail \notin {"none", "row"}
      BY <1>1, <1>2, <2>2 DEF DetailOK, Asking
    <3> QED
      BY <1>1, <1>2, <3>1 DEF DetailOK, Fetching
  <2> QED
    BY <2>1, <2>2
<1> QED
  BY <1>4, <1>5 DEF ListsOK

LEMMA ListsStep ==
  ASSUME ListsOK, [Lists!Next]_(Lists!vars)
  PROVE  ListsOK'
<1>1. ASSUME NEW c \in AskId, Lists!Answer(c)  PROVE ListsOK'
  BY <1>1, ListCameStep, SupersededStep, ActedStep, ChangedStep, DetailCameStep, FailedStep DEF Lists!Answer
<1>2. CASE UNCHANGED <<page, view, shown, latest, open, kept, detail, opened, reply, suspect, wanted, blurred>>
  BY <1>2 DEF ListsOK, RowsOK, RepliesOK, GuardOK, NumberedOK, PlainOK, ForRows, Lists!Quiet, DetailOK, Asking, Fetching
<1>3. CASE Lists!Others \/ UNCHANGED Lists!vars
  BY <1>2, <1>3 DEF Lists!Others, Lists!vars, Lists!screen, Lists!history
<1> QED
  BY <1>1, <1>3, ViewSteps, RefreshStep, ActStep, SaveStep, ChangeStep, ServeStep, ApplyStep, SelectStep,
     EditStep, CloseStep DEF Lists!Next

-----------------------------------------------------------------------------
(* All pages.                                                              *)

\* Every step of the pages is one of each part, or leaves the part as it is.
LEMMA PartSteps ==
  ASSUME [PagesNext]_pagesVars
  PROVE  /\ [Requests!Next]_(Requests!vars) /\ [Tab!Next]_(Tab!vars)
         /\ [RoleList!Next]_(RoleList!vars) /\ [Lists!Next]_(Lists!vars)
<1>1. UNCHANGED requestVars => UNCHANGED Requests!vars
  BY DEF requestVars, Requests!vars, Requests!db, Requests!page, Requests!sidebar
<1>2. UNCHANGED tabVars => UNCHANGED Tab!vars
  BY DEF tabVars, Tab!vars, Tab!modal, Tab!bulk
<1>3. UNCHANGED roleVars => UNCHANGED RoleList!vars
  BY DEF roleVars, RoleList!vars, RoleList!page, RoleList!history
<1>4. UNCHANGED listVars => UNCHANGED Lists!vars
  BY DEF listVars, Lists!vars, Lists!screen, Lists!history
<1> QED
  BY <1>1, <1>2, <1>3, <1>4 DEF PagesNext, pagesVars

\* Approving and dismissing act on the server of the click alone (POST /whitelist and
\* /whitelist/candidates/dismiss): the request is off the list of that server, and the lists of
\* the others stay as they were.
THEOREM RequestsActPerServer == PagesSpec => ActsPerServer
<1>1. PagesInit => RequestsOK
  BY RequestsInit DEF PagesInit
<1>2. RequestsOK /\ [PagesNext]_pagesVars => RequestsOK'
  BY PartSteps, RequestsStep
<1>3. RequestsOK /\ [PagesNext]_pagesVars => [\A f \in Fetch : ActsFor(f)]_(Requests!vars)
  BY PartSteps, RequestsStep
<1> QED
  BY <1>1, <1>2, <1>3, PTL DEF PagesSpec, ActsPerServer, Requests!ActsPerServer, ActsFor

\* The modal of the entries tab acts on the entry it shows; a role's permissions are those of
\* the last request about it, its members its own, and a disabled button waits for an answer;
\* a list shows the view that is chosen, and its detail the row that was opened: whatever is
\* clicked and answered in whatever order, but for what the properties except.
THEOREM PagesShowWhatIsChosen == PagesSpec => []PagesMatch
<1> DEFINE Inv == ModalOK /\ RolesOK /\ ListsOK
<1>1. PagesInit => Inv
  BY TabInit, RolesInit, ListsInit DEF PagesInit
<1>2. Inv /\ [PagesNext]_pagesVars => Inv'
  BY PartSteps, TabStep, RolesStep, ListsStep
<1>3. Inv => PagesMatch
  BY RolesMatch, ListsMatch DEF ModalOK, PagesMatch
<1> QED
  BY <1>1, <1>2, <1>3, PTL DEF PagesSpec
=============================================================================
