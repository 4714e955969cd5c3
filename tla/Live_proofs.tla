----------------------------- MODULE Live_proofs -----------------------------
(***************************************************************************)
(* Proofs about RconDesk and LivePage, as the live run has them.            *)
(*                                                                         *)
(* RconDesk: type correctness, the spacing of repeated commands, and that an *)
(* audit row stands for what was sent.  Both speak of the past, and the code *)
(* only looks at lastRcon, which its clean-up cuts down.  DInv ties the two  *)
(* together: what lastRcon holds is when a command was last sent, and what   *)
(* it no longer holds was sent at least a window ago.                      *)
(*                                                                         *)
(* LivePage: a page that has received everything shows the mirror of the     *)
(* server its socket is subscribed to, and is subscribed to the tab that     *)
(* somebody chose.  What a page shows and what is on its way to it belong    *)
(* together: the last message that speaks of the list, or of the connection, *)
(* decides what the page will show of it, and only without one does what it  *)
(* shows count.  A switch clears the display, but then a request is under    *)
(* way, and its answer is a snapshot.                                      *)
(***************************************************************************)
EXTENDS MCLive, TLAPS

\* A handler under way has a server, a socket, and a command to go on with.
Shape(q) ==
  /\ q.at # "idle" => q.on \in Server /\ q.who \in Admin /\ q.todo # <<>>
  /\ q.at = "issue" => ~q.done

\* Command m has run on server s, or has been sent to it.
Evident(s, m) == <<s, m>> \in ran \/ sent[s][m] # Never

\* What a handler counts as done is evident, and so is what it waits for, where it will count it.
Backed(q) ==
  q.at # "idle" =>
    /\ \A m \in q.did : Evident(q.on, m)
    /\ q.at = "wait" /\ (q.done \/ q.dedupe) => Evident(q.on, Head(q.todo))

CallsOK == \A c \in Call : Shape(call[c]) /\ Backed(call[c])

\* lastRcon holds when a command was last sent ...
Noticed == \A s \in Server : \A m \in DOMAIN lastRcon[s] : sent[s][m] = lastRcon[s][m]

\* ... and has only forgotten what was sent a window ago.
Remembered ==
  \A s \in Server, m \in Command :
    sent[s][m] # Never => m \in DOMAIN lastRcon[s] \/ now - sent[s][m] >= Window

\* The inductive invariant.
DInv == DeskTypeOK /\ CallsOK /\ Noticed /\ Remembered /\ AuditedWasSent

\* What is evident stays so.
Grown == ran \subseteq ran' /\ \A s \in Server, m \in Command : sent[s][m] # Never => sent'[s][m] # Never

-----------------------------------------------------------------------------
(* Lemmas.                                                                 *)

\* The idle slot is a call, with nothing to back.
LEMMA IdleOK == Idle \in CallRec /\ Shape(Idle) /\ Idle.at = "idle"
<1>1. <<>> \in Seq(Command)
  OBVIOUS
<1> QED
  BY <1>1, DeskAssumption DEF Idle, CallRec, Shape

\* What lastRcon holds after a command is noted: the command, now, and of the others
\* all but what is older than Keep, unchanged.
LEMMA NotedHolds ==
  ASSUME DeskTypeOK, NEW s \in Server, NEW m \in Command
  PROVE  LET l == Noted(s, m) IN
         /\ m \in DOMAIN l /\ l[m] = now
         /\ \A x \in DOMAIN l \ {m} : x \in DOMAIN lastRcon[s] /\ l[x] = lastRcon[s][x]
         /\ \A x \in DOMAIN lastRcon[s] \ {m} : x \in DOMAIN l \/ now - lastRcon[s][x] > Keep
<1> DEFINE k == [x \in DOMAIN lastRcon[s] \cup {m} |-> IF x = m THEN now ELSE lastRcon[s][x]]
           l == Noted(s, m)
<1>1. now \in Nat /\ Keep \in Nat /\ \A x \in DOMAIN lastRcon[s] : lastRcon[s][x] \in Nat
  BY DeskAssumption DEF DeskTypeOK
<1>2. /\ DOMAIN k = DOMAIN lastRcon[s] \cup {m} /\ k[m] = now
      /\ \A x \in DOMAIN lastRcon[s] \ {m} : k[x] = lastRcon[s][x]
  OBVIOUS
<1>3. CASE l = k
  BY <1>2, <1>3
<1>4. CASE l = [x \in {y \in DOMAIN k : now - k[y] <= Keep} |-> k[x]]
  <2>1. DOMAIN l = {y \in DOMAIN k : now - k[y] <= Keep} /\ \A x \in DOMAIN l : l[x] = k[x]
    BY <1>4
  <2>2. m \in DOMAIN l
    BY <1>1, <1>2, <2>1
  <2>3. l = Noted(s, m)
    OBVIOUS
  <2> HIDE DEF k, l
  <2> QED
    BY <1>1, <1>2, <2>1, <2>2, <2>3
<1>5. l = k \/ l = [x \in {y \in DOMAIN k : now - k[y] <= Keep} |-> k[x]]
  BY DEF Noted, Cleaned
<1> QED
  BY <1>3, <1>4, <1>5

\* Evidence lasts.
LEMMA BackedKept ==
  ASSUME Grown, NEW q \in CallRec, Shape(q), Backed(q)
  PROVE  Backed(q)'
<1> SUFFICES ASSUME q.at # "idle"  PROVE Backed(q)'
  BY DEF Backed
<1>1. q.on \in Server /\ q.todo # <<>> /\ q.todo \in Seq(Command) /\ q.did \subseteq Command
  BY DEF Shape, CallRec
<1>2. Head(q.todo) \in Command
  BY <1>1
<1>3. \A m \in Command : Evident(q.on, m) => Evident(q.on, m)'
  BY <1>1 DEF Grown, Evident
<1> QED
  BY <1>1, <1>2, <1>3 DEF Backed

\* One handler moves on, or ends.
LEMMA CallMoved ==
  ASSUME DInv, Grown, NEW c \in Call, NEW q \in CallRec, Shape(q), Backed(q)',
         call' = [call EXCEPT ![c] = q]
  PROVE  CallsOK' /\ call' \in [Call -> CallRec]
<1>1. call \in [Call -> CallRec]
  BY DEF DInv, DeskTypeOK
<1>2. call' \in [Call -> CallRec] /\ call'[c] = q /\ \A d \in Call \ {c} : call'[d] = call[d]
  BY <1>1
<1>3. ASSUME NEW d \in Call \ {c}  PROVE Shape(call[d])' /\ Backed(call[d])'
  <2>1. Shape(call[d]) /\ Backed(call[d]) /\ call[d] \in CallRec
    BY <1>1 DEF DInv, CallsOK
  <2> QED
    BY <1>2, <2>1, BackedKept
<1> QED
  BY <1>2, <1>3 DEF CallsOK, Shape, Backed, Evident

\* No command is noted, and time may pass.
LEMMA NotesKept ==
  ASSUME DInv, UNCHANGED <<lastRcon, sent>>, now' = now \/ now' = now + 1
  PROVE  Noticed' /\ Remembered'
<1>1. now \in Nat /\ Window \in Nat /\ \A s \in Server, m \in Command : sent[s][m] \in Nat
  BY DeskAssumption DEF DInv, DeskTypeOK, Never
<1>2. Noticed'
  BY DEF DInv, Noticed
<1>3. Remembered'
  BY <1>1 DEF DInv, Remembered
<1> QED
  BY <1>2, <1>3

\* The rows of the log keep their evidence.
LEMMA LogKept ==
  ASSUME DInv, Grown, UNCHANGED log
  PROVE  AuditedWasSent'
<1>1. log \subseteq Row
  BY DEF DInv, DeskTypeOK
<1>2. ASSUME NEW r \in log, NEW m \in r.did  PROVE Evident(r.on, m)'
  <2>1. r.on \in Server /\ m \in Command
    BY <1>1, <1>2 DEF Row
  <2>2. Evident(r.on, m)
    BY <1>2 DEF DInv, AuditedWasSent, Evident
  <2> QED
    BY <2>1, <2>2 DEF Grown, Evident
<1> QED
  BY <1>2 DEF AuditedWasSent, Evident

\* A step that sends, runs and notes nothing, and moves one handler on.
LEMMA QuietCall ==
  ASSUME DInv, NEW c \in Call, NEW q \in CallRec, Shape(q), Backed(q),
         call' = [call EXCEPT ![c] = q], late' \subseteq Server \X Command,
         UNCHANGED <<now, connected, lastRcon, view, ran, sent, log, requests, drops>>
  PROVE  DInv'
<1>1. Grown /\ Backed(q)'
  BY DEF Grown, Backed, Evident
<1>2. CallsOK' /\ call' \in [Call -> CallRec]
  BY <1>1, CallMoved
<1>3. DeskTypeOK'
  BY <1>2 DEF DInv, DeskTypeOK
<1> QED
  BY <1>1, <1>2, <1>3, NotesKept, LogKept DEF DInv

\* The first command of a sequence, and the rest.
LEMMA RestOf ==
  ASSUME NEW w \in Seq(Command), w # <<>>
  PROVE  /\ Head(w) \in Command /\ Tail(w) \in Seq(Command) /\ Len(w) \in Nat
         /\ Len(w) > 1 => Tail(w) # <<>>
<1>1. Len(w) \in Nat \ {0} /\ Len(Tail(w)) = Len(w) - 1
  OBVIOUS
<1>2. Head(w) \in Command /\ Tail(w) \in Seq(Command)
  OBVIOUS
<1>3. Tail(w) = <<>> => Len(Tail(w)) = 0
  <2>1. Len(<<>>) = 0
    OBVIOUS
  <2> QED
    BY <2>1
<1>4. Len(w) > 1 => Len(Tail(w)) # 0
  <2>1. \A k \in Nat : k > 1 => k - 1 # 0
    OBVIOUS
  <2> QED
    BY <1>1, <2>1
<1> QED
  BY <1>1, <1>2, <1>3, <1>4

\* The current command is through: what the handler goes on with, or writes down, has
\* evidence, if the command has.
LEMMA ProceedStep ==
  ASSUME DInv, NEW c \in Call, call[c].at # "idle", Proceed(c),
         Evident(call[c].on, Head(call[c].todo)),
         UNCHANGED <<now, connected, lastRcon, view, late, ran, sent, requests, drops>>
  PROVE  DInv'
<1>0. PICK q : q = call[c]
  OBVIOUS
<1> DEFINE did == q.did \cup {Head(q.todo)}
<1>1. q \in CallRec /\ Shape(q) /\ Backed(q)
  BY <1>0 DEF DInv, DeskTypeOK, CallsOK
<1>2. /\ q.on \in Server /\ q.who \in Admin /\ q.did \subseteq Command
      /\ q.todo \in Seq(Command) /\ q.todo # <<>>
  BY <1>0, <1>1 DEF Shape, CallRec
<1>3. Head(q.todo) \in Command /\ Tail(q.todo) \in Seq(Command) /\ Len(q.todo) \in Nat
      /\ (Len(q.todo) > 1 => Tail(q.todo) # <<>>)
  BY <1>2, RestOf
<1>4. did \subseteq Command /\ \A m \in did : Evident(q.on, m)
  BY <1>0, <1>1, <1>2, <1>3 DEF Backed
<1>5. Grown /\ (\A m \in did : Evident(q.on, m)')
  BY <1>4 DEF Grown, Evident
<1>6. CASE Len(q.todo) > 1
  <2> DEFINE p == [q EXCEPT !.at = "issue", !.todo = Tail(@), !.did = did,
                            !.since = 0, !.done = FALSE, !.lost = FALSE]
  <2>1. call' = [call EXCEPT ![c] = p] /\ UNCHANGED log
    BY <1>0, <1>6 DEF Proceed
  <2>2. 0 \in 0 .. MaxTime
    BY DeskAssumption
  <2>3. p \in CallRec /\ Shape(p) /\ Backed(p)
    BY <1>0, <1>1, <1>2, <1>3, <1>4, <1>6, <2>2 DEF CallRec, Shape, Backed
  <2> HIDE DEF p
  <2> QED
    BY <2>1, <2>3, QuietCall DEF DInv, DeskTypeOK
<1>7. CASE ~(Len(q.todo) > 1)
  <2> DEFINE r == [names |-> view[q.who], on |-> q.on, did |-> did]
  <2>1. call' = [call EXCEPT ![c] = Idle] /\ log' = log \cup {r}
    BY <1>0, <1>7 DEF Proceed
  <2>2. CallsOK' /\ call' \in [Call -> CallRec]
    BY <1>5, <2>1, IdleOK, CallMoved DEF Backed
  <2>3. r \in Row
    BY <1>2, <1>4 DEF Row, DInv, DeskTypeOK
  <2>4. DeskTypeOK'
    BY <2>1, <2>2, <2>3 DEF DInv, DeskTypeOK
  <2>5. ASSUME NEW x \in log', NEW m \in x.did  PROVE Evident(x.on, m)'
    <3>1. CASE x = r
      BY <1>5, <3>1, <2>5
    <3>2. CASE x \in log
      BY <2>5, <3>2 DEF DInv, AuditedWasSent, Evident
    <3> QED
      BY <2>1, <3>1, <3>2
  <2>6. AuditedWasSent'
    BY <2>5 DEF AuditedWasSent, Evident
  <2> QED
    BY <1>5, <2>2, <2>4, <2>6, NotesKept DEF DInv
<1> QED
  BY <1>6, <1>7

-----------------------------------------------------------------------------
(* Steps.                                                                  *)

LEMMA RequestStep ==
  ASSUME DInv, NEW a \in Admin, NEW c \in Call, Request(a, c)
  PROVE  DInv'
<1>1. PICK todo \in {<<m>> : m \in Command} \cup {Squad}, dedupe \in BOOLEAN :
        call' = [call EXCEPT ![c] = [Idle EXCEPT
          !.at = "issue", !.on = view[a], !.who = a, !.todo = todo, !.dedupe = dedupe]]
  BY DEF Request
<1>2. todo \in Seq(Command) /\ todo # <<>>
  <2>1. CASE todo = Squad
    BY <2>1, DeskAssumption
  <2>2. ASSUME NEW m \in Command, todo = <<m>>  PROVE todo \in Seq(Command) /\ todo # <<>>
    BY <2>2
  <2> QED
    BY <2>1, <2>2
<1>3. PICK q : q = [Idle EXCEPT !.at = "issue", !.on = view[a], !.who = a,
                                !.todo = todo, !.dedupe = dedupe]
  OBVIOUS
<1>4. view[a] \in Server /\ requests' \in Nat
  BY DEF Request, DInv, DeskTypeOK
<1>5. q \in CallRec
  BY <1>2, <1>3, <1>4, IdleOK DEF CallRec, Idle
<1>6. Shape(q) /\ \A x \in q.did : FALSE
  BY <1>2, <1>3, <1>4 DEF Shape, Idle
<1>7. Backed(q)' /\ Grown
  BY <1>3, <1>6 DEF Request, Backed, Grown, Idle
<1>8. CallsOK' /\ call' \in [Call -> CallRec]
  BY <1>1, <1>3, <1>5, <1>6, <1>7, CallMoved
<1>9. DeskTypeOK'
  BY <1>4, <1>8 DEF Request, DInv, DeskTypeOK
<1> QED
  BY <1>7, <1>8, <1>9, NotesKept, LogKept DEF Request, DInv

\* A handler that ends without an audit row.
LEMMA FailStep ==
  ASSUME DInv, NEW c \in Call, Fail(c), late' \subseteq Server \X Command,
         UNCHANGED <<now, connected, lastRcon, view, ran, sent, requests, drops>>
  PROVE  DInv'
<1>1. Backed(Idle)
  BY DEF Backed, Idle
<1> QED
  BY <1>1, IdleOK, QuietCall DEF Fail

\* The command is sent: it is noted if it may not be repeated.
LEMMA SendStep ==
  ASSUME DInv, NEW c \in Call, call[c].at = "issue",
         ~(call[c].dedupe /\ Recent(call[c].on, Head(call[c].todo))),
         call' = [call EXCEPT ![c].at = "wait", ![c].since = now],
         IF call[c].dedupe
           THEN /\ lastRcon' = [lastRcon EXCEPT ![call[c].on] = Noted(call[c].on, Head(call[c].todo))]
                /\ sent' = [sent EXCEPT ![call[c].on][Head(call[c].todo)] = now]
           ELSE UNCHANGED <<lastRcon, sent>>,
         UNCHANGED <<now, connected, view, late, ran, log, requests, drops>>
  PROVE  DInv'
<1>0. PICK q : q = call[c]
  OBVIOUS
<1>1. q \in CallRec /\ Shape(q) /\ Backed(q) /\ q.at = "issue"
  BY <1>0 DEF DInv, DeskTypeOK, CallsOK
<1>2. q.on \in Server /\ q.who \in Admin /\ q.todo \in Seq(Command) /\ q.todo # <<>>
  BY <1>1 DEF Shape, CallRec
<1>3. PICK m \in Command : m = Head(q.todo)
  BY <1>2, RestOf
<1>4. PICK s \in Server : s = q.on
  BY <1>2
<1>5. now \in 0 .. MaxTime /\ now # Never /\ MaxTime \in Nat
  BY DeskAssumption DEF DInv, DeskTypeOK, Never
<1>6. sent \in [Server -> [Command -> 0 .. Never]] /\ lastRcon = [t \in Server |-> lastRcon[t]]
  BY DEF DInv, DeskTypeOK
<1>7. \A t \in Server : \A x \in DOMAIN lastRcon[t] : x \in Command /\ lastRcon[t][x] \in 0 .. now
  BY DEF DInv, DeskTypeOK
<1>8. PICK p : p = [q EXCEPT !.at = "wait", !.since = now]
  OBVIOUS
<1>9. p \in CallRec /\ Shape(p) /\ call' = [call EXCEPT ![c] = p]
  BY <1>0, <1>1, <1>2, <1>5, <1>8 DEF CallRec, Shape
<1>10. CASE ~q.dedupe
  <2>1. UNCHANGED <<lastRcon, sent>>
    BY <1>0, <1>10
  <2>2. Grown
    BY <2>1 DEF Grown
  <2>3. Backed(p)'
    BY <1>1, <1>8, <1>10, <2>1 DEF Backed, Evident, CallRec, Shape
  <2>4. CallsOK' /\ call' \in [Call -> CallRec]
    BY <1>9, <2>2, <2>3, CallMoved
  <2>5. DeskTypeOK'
    BY <2>1, <2>4 DEF DInv, DeskTypeOK
  <2> QED
    BY <2>1, <2>2, <2>4, <2>5, NotesKept, LogKept DEF DInv
<1>11. CASE q.dedupe
  <2> DEFINE l == Noted(s, m)
  <2>1. lastRcon' = [lastRcon EXCEPT ![s] = l] /\ sent' = [sent EXCEPT ![s][m] = now]
    BY <1>0, <1>3, <1>4, <1>11
  <2>2. /\ lastRcon'[s] = l /\ \A t \in Server \ {s} : lastRcon'[t] = lastRcon[t]
        /\ lastRcon' = [t \in Server |-> lastRcon'[t]]
    BY <1>6, <2>1
  <2>3. /\ sent'[s][m] = now /\ sent' \in [Server -> [Command -> 0 .. Never]]
        /\ \A t \in Server, x \in Command : t # s \/ x # m => sent'[t][x] = sent[t][x]
    BY <1>5, <1>6, <2>1 DEF Never
  <2>4. Grown
    BY <1>5, <2>3 DEF Grown
  <2>5. Backed(p)'
    <3>1. Backed(q)' /\ Evident(s, m)'
      BY <1>1, <1>5, <2>3, <2>4, BackedKept DEF Evident
    <3> QED
      BY <1>1, <1>3, <1>4, <1>8, <3>1 DEF Backed, CallRec
  <2>6. CallsOK' /\ call' \in [Call -> CallRec]
    BY <1>9, <2>4, <2>5, CallMoved
  <2>7. /\ m \in DOMAIN l /\ l[m] = now
        /\ \A x \in DOMAIN l \ {m} : x \in DOMAIN lastRcon[s] /\ l[x] = lastRcon[s][x]
        /\ \A x \in DOMAIN lastRcon[s] \ {m} : x \in DOMAIN l \/ now - lastRcon[s][x] > Keep
    BY NotedHolds DEF DInv
  <2> HIDE DEF l
  <2>8. \A t \in Server : \A x \in DOMAIN lastRcon'[t] : x \in Command /\ lastRcon'[t][x] \in 0 .. now
    BY <1>5, <1>7, <2>2, <2>7
  <2>9. DeskTypeOK'
    BY <2>2, <2>3, <2>6, <2>8 DEF DInv, DeskTypeOK
  <2>10. Noticed'
    BY <1>7, <2>2, <2>3, <2>7 DEF DInv, Noticed
  <2>11. Remembered'
    <3> SUFFICES ASSUME NEW t \in Server, NEW x \in Command, sent'[t][x] # Never
                 PROVE  x \in DOMAIN lastRcon'[t] \/ now - sent'[t][x] >= Window
      BY DEF Remembered
    <3>1. CASE t # s
      BY <2>2, <2>3, <3>1 DEF DInv, Remembered
    <3>2. CASE t = s /\ x = m
      BY <2>2, <2>7, <3>2
    <3>3. CASE t = s /\ x # m
      <4>1. sent[s][x] # Never /\ sent'[t][x] = sent[s][x] /\ sent[s][x] \in Nat
        BY <1>5, <1>6, <2>3, <3>3 DEF Never
      <4>2. x \in DOMAIN lastRcon[s] \/ now - sent[s][x] >= Window
        BY <4>1 DEF DInv, Remembered
      <4>3. x \in DOMAIN lastRcon[s] => sent[s][x] = lastRcon[s][x]
        BY DEF DInv, Noticed
      <4>4. x \in DOMAIN lastRcon[s] => x \in DOMAIN l \/ now - sent[s][x] > Keep
        BY <2>7, <3>3, <4>3
      <4>5. Window \in Nat /\ Keep \in Nat /\ Window <= Keep /\ now \in Nat
        BY <1>5, DeskAssumption
      <4> QED
        BY <2>2, <3>3, <4>1, <4>2, <4>4, <4>5
    <3> QED
      BY <3>1, <3>2, <3>3
  <2> QED
    BY <2>4, <2>6, <2>9, <2>10, <2>11, LogKept DEF DInv
<1> QED
  BY <1>10, <1>11

\* executeRcon: not connected, a duplicate, or sent.
LEMMA IssueStep ==
  ASSUME DInv, NEW c \in Call, Issue(c)
  PROVE  DInv'
<1> DEFINE s == call[c].on
           m == Head(call[c].todo)
<1>1. call[c] \in CallRec /\ Shape(call[c]) /\ call[c].at = "issue"
  BY DEF Issue, DInv, DeskTypeOK, CallsOK
<1>2. s \in Server /\ m \in Command
  BY <1>1, RestOf DEF Shape, CallRec
<1>3. UNCHANGED <<now, connected, view, late, ran, requests, drops>>
  BY DEF Issue
<1>4. CASE Fail(c) /\ UNCHANGED <<lastRcon, sent>>
  BY <1>3, <1>4, FailStep DEF DInv, DeskTypeOK
<1>5. CASE Recent(s, m) /\ Proceed(c) /\ UNCHANGED <<lastRcon, sent>>
  <2>1. m \in DOMAIN lastRcon[s] /\ sent[s][m] = lastRcon[s][m]
    BY <1>2, <1>5 DEF Recent, DInv, Noticed
  <2>2. lastRcon[s][m] \in 0 .. now /\ now \in 0 .. MaxTime /\ MaxTime \in Nat
    BY <1>2, <2>1, DeskAssumption DEF DInv, DeskTypeOK
  <2>3. sent[s][m] # Never
    BY <2>1, <2>2 DEF Never
  <2> QED
    BY <1>1, <1>3, <1>5, <2>3, ProceedStep DEF Evident
<1>6. CASE /\ ~(call[c].dedupe /\ Recent(s, m))
           /\ call' = [call EXCEPT ![c].at = "wait", ![c].since = now]
           /\ IF call[c].dedupe
                THEN /\ lastRcon' = [lastRcon EXCEPT ![s] = Noted(s, m)]
                     /\ sent' = [sent EXCEPT ![s][m] = now]
                ELSE UNCHANGED <<lastRcon, sent>>
           /\ UNCHANGED log
  BY <1>1, <1>3, <1>6, SendStep
<1> QED
  BY <1>4, <1>5, <1>6 DEF Issue

LEMMA RunStep ==
  ASSUME DInv, NEW c \in Call, Run(c)
  PROVE  DInv'
<1>0. PICK q : q = call[c]
  OBVIOUS
<1>1. q \in CallRec /\ Shape(q) /\ Backed(q) /\ q.at = "wait"
  BY <1>0 DEF Run, DInv, DeskTypeOK, CallsOK
<1>2. q.on \in Server /\ q.todo # <<>> /\ Head(q.todo) \in Command
  BY <1>1, RestOf DEF Shape, CallRec
<1>3. ran' = ran \cup {<<q.on, Head(q.todo)>>}
  BY <1>0 DEF Run
<1>4. PICK p : p = [q EXCEPT !.done = TRUE]
  OBVIOUS
<1>5. p \in CallRec /\ Shape(p) /\ call' = [call EXCEPT ![c] = p]
  BY <1>0, <1>1, <1>4 DEF Run, CallRec, Shape
<1>6. Grown
  BY <1>3 DEF Run, Grown
<1>7. Backed(p)'
  <2>1. Backed(q)'
    BY <1>1, <1>6, BackedKept
  <2>2. Evident(q.on, Head(q.todo))'
    BY <1>3 DEF Evident
  <2> QED
    BY <1>1, <1>4, <2>1, <2>2 DEF Backed, CallRec
<1>8. CallsOK' /\ call' \in [Call -> CallRec]
  BY <1>5, <1>6, <1>7, CallMoved
<1>9. ran' \subseteq Server \X Command
  BY <1>2, <1>3 DEF DInv, DeskTypeOK
<1>10. DeskTypeOK'
  BY <1>8, <1>9 DEF Run, DInv, DeskTypeOK
<1> QED
  BY <1>6, <1>8, <1>10, NotesKept, LogKept DEF Run, DInv

LEMMA AnswerStep ==
  ASSUME DInv, NEW c \in Call, Resolve(c) \/ Refuse(c) \/ GiveUp(c)
  PROVE  DInv'
<1>1. call[c] \in CallRec /\ Shape(call[c]) /\ Backed(call[c]) /\ call[c].at = "wait"
  BY DEF Resolve, Refuse, GiveUp, DInv, DeskTypeOK, CallsOK
<1>2. CASE Resolve(c)
  <2>1. Evident(call[c].on, Head(call[c].todo))
    BY <1>1, <1>2 DEF Resolve, Backed
  <2> QED
    BY <1>1, <1>2, <2>1, ProceedStep DEF Resolve
<1>3. CASE Refuse(c)
  BY <1>3, FailStep DEF Refuse, DInv, DeskTypeOK
<1>4. CASE GiveUp(c)
  <2>1. call[c].on \in Server /\ Head(call[c].todo) \in Command
    BY <1>1, RestOf DEF Shape, CallRec
  <2>2. late' \subseteq Server \X Command
    BY <1>4, <2>1 DEF GiveUp, DInv, DeskTypeOK
  <2> QED
    BY <1>4, <2>2, FailStep DEF GiveUp
<1> QED
  BY <1>2, <1>3, <1>4

LEMMA RunLateStep == ASSUME DInv, RunLate PROVE DInv'
<1>1. PICK x \in late : late' = late \ {x} /\ ran' = ran \cup {x}
  BY DEF RunLate
<1>2. UNCHANGED <<now, connected, lastRcon, view, call, sent, log, requests, drops>>
  BY DEF RunLate
<1>3. Grown
  BY <1>1, <1>2 DEF Grown
<1>4. DeskTypeOK'
  BY <1>1, <1>2 DEF DInv, DeskTypeOK
<1>5. CallsOK'
  <2>1. ASSUME NEW c \in Call  PROVE Shape(call[c]) /\ Backed(call[c])'
    <3>1. call[c] \in CallRec /\ Shape(call[c]) /\ Backed(call[c])
      BY DEF DInv, CallsOK, DeskTypeOK
    <3> QED
      BY <1>2, <1>3, <3>1, BackedKept
  <2> QED
    BY <1>2, <2>1 DEF CallsOK
<1> QED
  BY <1>2, <1>3, <1>4, <1>5, NotesKept, LogKept DEF DInv

\* The link fails: handlers that wait for it will get no answer.
LEMMA LinkDownStep == ASSUME DInv, NEW s \in Server, LinkDown(s) PROVE DInv'
<1>1. /\ call' = [c \in Call |-> IF call[c].at = "wait" /\ call[c].on = s
                                THEN [call[c] EXCEPT !.lost = TRUE] ELSE call[c]]
      /\ connected' = [connected EXCEPT ![s] = FALSE] /\ drops' = [drops EXCEPT ![s] = @ + 1]
      /\ UNCHANGED <<now, lastRcon, view, late, ran, sent, log, requests>>
  BY DEF LinkDown
<1>2. ASSUME NEW c \in Call  PROVE call'[c] \in CallRec /\ Shape(call'[c]) /\ Backed(call[c])'
  <2>0. PICK q : q = call[c]
    OBVIOUS
  <2>1. q \in CallRec /\ Shape(q) /\ Backed(q)
    BY <2>0 DEF DInv, CallsOK, DeskTypeOK
  <2>2. PICK p : p = call'[c]
    OBVIOUS
  <2>3. p = q \/ p = [q EXCEPT !.lost = TRUE]
    BY <1>1, <2>0, <2>2
  <2>4. p \in CallRec /\ Shape(p) /\ Backed(p)'
    BY <1>1, <2>1, <2>3 DEF CallRec, Shape, Backed, Evident
  <2> QED
    BY <2>2, <2>4
<1>3. call' \in [Call -> CallRec] /\ CallsOK'
  BY <1>1, <1>2 DEF CallsOK
<1>4. DeskTypeOK'
  BY <1>1, <1>3 DEF DInv, DeskTypeOK
<1>5. Grown
  BY <1>1 DEF Grown
<1> QED
  BY <1>1, <1>3, <1>4, <1>5, NotesKept, LogKept DEF DInv

\* The steps that only touch the clock, the links and the sockets' servers.
LEMMA OtherStep ==
  ASSUME DInv, \/ Tick \/ UNCHANGED vars
               \/ \E s \in Server : LinkUp(s)
               \/ \E a \in Admin, s \in Server : SwitchServer(a, s)
  PROVE  DInv'
<1>1. UNCHANGED <<lastRcon, call, late, ran, sent, log, requests, drops>> /\ (now' = now \/ now' = now + 1)
  BY DEF Tick, LinkUp, SwitchServer, vars
<1>2. now' \in 0 .. MaxTime /\ (now' = now \/ now' = now + 1)
  BY DeskAssumption DEF Tick, LinkUp, SwitchServer, vars, DInv, DeskTypeOK
<1>3. connected' \in [Server -> BOOLEAN] /\ view' \in [Admin -> Server]
  BY DEF Tick, LinkUp, SwitchServer, vars, DInv, DeskTypeOK
<1>4. \A s \in Server : \A m \in DOMAIN lastRcon[s] : lastRcon[s][m] \in 0 .. now'
  <2>1. now \in Nat /\ \A s \in Server : \A m \in DOMAIN lastRcon[s] : lastRcon[s][m] \in 0 .. now
    BY DeskAssumption DEF DInv, DeskTypeOK
  <2> QED
    BY <1>2, <2>1
<1>5. DeskTypeOK'
  BY <1>1, <1>2, <1>3, <1>4 DEF DInv, DeskTypeOK
<1>6. Grown /\ CallsOK'
  BY <1>1 DEF Grown, DInv, CallsOK, Shape, Backed, Evident
<1> QED
  BY <1>1, <1>5, <1>6, NotesKept, LogKept DEF DInv

LEMMA DInvInit == Init => DInv
<1> SUFFICES ASSUME Init PROVE DInv
  OBVIOUS
<1>1. DOMAIN <<>> = {}
  OBVIOUS
<1>2. \A s \in Server : DOMAIN lastRcon[s] = {}
  BY <1>1 DEF Init
<1>3. 0 \in 0 .. MaxTime /\ Never \in 0 .. Never
  BY DeskAssumption DEF Never
<1>4. DeskTypeOK
  BY <1>2, <1>3, IdleOK DEF Init, DeskTypeOK
<1>5. CallsOK
  BY IdleOK DEF Init, CallsOK, Backed
<1>6. Noticed /\ Remembered /\ AuditedWasSent
  BY <1>2 DEF Init, Noticed, Remembered, AuditedWasSent
<1> QED
  BY <1>4, <1>5, <1>6 DEF DInv

LEMMA DInvStep == DInv /\ [Next]_vars => DInv'
<1> SUFFICES ASSUME DInv, [Next]_vars PROVE DInv'
  OBVIOUS
<1>1. ASSUME NEW c \in Call, Handler(c) \/ Run(c)  PROVE DInv'
  BY <1>1, IssueStep, AnswerStep, RunStep DEF Handler
<1>2. ASSUME NEW s \in Server, LinkDown(s)  PROVE DInv'
  BY <1>2, LinkDownStep
<1>3. ASSUME NEW a \in Admin, NEW c \in Call, Request(a, c)  PROVE DInv'
  BY <1>3, RequestStep
<1> QED
  BY <1>1, <1>2, <1>3, RunLateStep, OtherStep DEF Next

-----------------------------------------------------------------------------
(* The theorems.                                                           *)

\* What lastRcon holds, what handlers have in their hands and the history stay tied
\* together, whoever asks and whatever fails.
THEOREM DeskInvariant == Safety => []DInv
  BY DInvInit, DInvStep, PTL DEF Safety

\* The desk's state stays well formed: lastRcon never holds a time yet to come, and a
\* handler under way always has a server and a command to go on with.
THEOREM DeskTypeCorrect == Safety => []DeskTypeOK
<1>1. DInv => DeskTypeOK
  BY DEF DInv
<1> QED
  BY DeskInvariant, <1>1, PTL

\* An audit row stands for commands sent to the server its handler started with, for any
\* number of admins, of handlers in flight and of link failures.
THEOREM AuditRowsWereSent == Safety => []AuditedWasSent
<1>1. DInv => AuditedWasSent
  BY DEF DInv
<1> QED
  BY DeskInvariant, <1>1, PTL

\* Only executeRcon sends, and what it does not take for a duplicate.
LEMMA OnlyIssueSends ==
  ASSUME DInv, Next, NEW c \in Call, call[c].at = "issue", call'[c].at = "wait"
  PROVE  ~(call[c].dedupe /\ Recent(call[c].on, Head(call[c].todo)))
<1>0. call \in [Call -> CallRec]
  BY DEF DInv, DeskTypeOK
<1> DEFINE Moves(d) == \E q : call' = [call EXCEPT ![d] = q]
<1>1. ASSUME NEW d \in Call, Moves(d)  PROVE d = c
  BY <1>0, <1>1
<1>2. ASSUME UNCHANGED call  PROVE FALSE
  BY <1>2
<1>3. ASSUME NEW s \in Server, LinkDown(s)  PROVE FALSE
  <2>1. call'[c] = call[c]
    BY <1>3 DEF LinkDown
  <2> QED
    BY <2>1
<1>4. ASSUME NEW a \in Admin, NEW d \in Call, Request(a, d)  PROVE FALSE
  <2>1. Moves(d) /\ call[d].at = "idle"
    BY <1>4 DEF Request, Idle
  <2> QED
    BY <1>1, <2>1
<1>5. ASSUME NEW d \in Call, Resolve(d) \/ Refuse(d) \/ GiveUp(d) \/ Run(d)  PROVE FALSE
  <2>1. call[d].at = "wait"
    BY <1>5 DEF Resolve, Refuse, GiveUp, Run
  <2>2. Moves(d)
    <3>1. Proceed(d) => Moves(d)
      BY DEF Proceed
    <3>2. Fail(d) => Moves(d)
      BY DEF Fail
    <3>3. Run(d) => Moves(d)
      BY DEF Run
    <3> QED
      BY <1>5, <3>1, <3>2, <3>3 DEF Resolve, Refuse, GiveUp
  <2> QED
    BY <1>1, <2>1, <2>2
<1>6. ASSUME NEW d \in Call, Issue(d)  PROVE ~(call[c].dedupe /\ Recent(call[c].on, Head(call[c].todo)))
  <2>1. Moves(d)
    BY <1>6 DEF Issue, Fail, Proceed
  <2>2. d = c
    BY <1>1, <2>1
  <2>3. CASE Fail(c)
    BY <1>0, <2>3 DEF Fail, Idle
  <2>4. CASE Proceed(c)
    <3> DEFINE p == [call[c] EXCEPT !.at = "issue", !.todo = Tail(@),
                                    !.did = call[c].did \cup {Head(call[c].todo)},
                                    !.since = 0, !.done = FALSE, !.lost = FALSE]
    <3>1. p.at = "issue" /\ Idle.at = "idle"
      BY <1>0 DEF CallRec, Idle
    <3>2. call' = [call EXCEPT ![c] = p] \/ call' = [call EXCEPT ![c] = Idle]
      BY <2>4 DEF Proceed
    <3> HIDE DEF p
    <3>3. call'[c] = p \/ call'[c] = Idle
      BY <1>0, <3>2
    <3> QED
      BY <3>1, <3>3
  <2> QED
    BY <1>6, <2>2, <2>3, <2>4 DEF Issue
<1> QED
  BY <1>2, <1>3, <1>4, <1>5, <1>6 DEF Next, Handler, Tick, RunLate, LinkUp, SwitchServer

\* A deduplicated command is sent to a server once a window, whenever the clean-up of
\* lastRcon runs in between.
THEOREM CommandsAreSpaced == Safety => SpacedOut
<1>1. ASSUME DInv, Next, NEW c \in Call, call[c].at = "issue", call[c].dedupe, call'[c].at = "wait"
      PROVE  LET last == sent[call[c].on][Head(call[c].todo)] IN
             last = Never \/ now - last >= Window
  <2> DEFINE s == call[c].on
             m == Head(call[c].todo)
  <2>1. ~Recent(s, m)
    BY <1>1, OnlyIssueSends
  <2>2. call[c] \in CallRec /\ Shape(call[c])
    BY <1>1 DEF DInv, DeskTypeOK, CallsOK
  <2>3. s \in Server /\ m \in Command
    BY <1>1, <2>2, RestOf DEF Shape, CallRec
  <2>4. sent[s][m] # Never => m \in DOMAIN lastRcon[s] \/ now - sent[s][m] >= Window
    BY <1>1, <2>3 DEF DInv, Remembered
  <2>5. m \in DOMAIN lastRcon[s] => sent[s][m] = lastRcon[s][m] /\ lastRcon[s][m] \in Nat
    BY <1>1, <2>3, DeskAssumption DEF DInv, Noticed, DeskTypeOK
  <2>6. now \in Nat /\ Window \in Nat
    BY <1>1, DeskAssumption DEF DInv, DeskTypeOK
  <2> QED
    BY <2>1, <2>4, <2>5, <2>6 DEF Recent
<1> DEFINE Spaced == \A c \in Call : LET q == call[c]
                                        last == sent[q.on][Head(q.todo)] IN
                       q.at = "issue" /\ q.dedupe /\ call'[c].at = "wait"
                         => last = Never \/ now - last >= Window
<1>2. DInv /\ [Next]_vars => [Spaced]_vars
  BY <1>1
<1> QED
  BY DeskInvariant, <1>2, PTL DEF Safety, SpacedOut

(***************************************************************************)
(* The page (LivePage, the instance Pages of MCLive).                       *)
(***************************************************************************)

Message ==
  [kind : {"servers"}] \cup [kind : {"snapshot"}, body : Pages!Mirror]
    \cup [kind : {"connection"}, up : BOOLEAN] \cup [kind : {"players"}, v : Nat]
    \cup [kind : {"queue"}, on : BOOLEAN]

\* Every variable has the type its declaration states; an open socket is subscribed.
PageTypeOK ==
  /\ roster \in [Server -> Nat] /\ mirror \in [Server -> Pages!Mirror] /\ news \in Nat
  /\ sock \in [Page -> BOOLEAN]
  /\ sub \in [Page -> Server \cup {None}] /\ \A p \in Page : sock[p] => sub[p] \in Server
  /\ inbox \in [Page -> Seq(Message)] /\ outbox \in [Page -> Seq(Server)]
  /\ tab \in [Page -> Server \cup {None}] /\ shown \in [Page -> Pages!Mirror]
  /\ switches \in [Page -> Nat] /\ pageDrops \in [Page -> Nat]

-----------------------------------------------------------------------------
(* The two things a page shows of a mirror that must be right, and the      *)
(* messages that tell of them.                                             *)

Matter == {"players", "connection"}
Of(d, x) == IF x = "players" THEN d.players ELSE d.connected

Tells(m, x) == m.kind = "snapshot" \/ m.kind = x
Telling(m, x) == IF m.kind = "snapshot" THEN Of(m.body, x)
                 ELSE IF x = "players" THEN m.v ELSE m.up

\* A page that shows d, when it has received w, will show v of matter x.
Silent(w, x) == \A i \in 1 .. Len(w) : ~Tells(w[i], x)
LastTells(w, x, v) ==
  \E i \in 1 .. Len(w) :
    /\ Tells(w[i], x) /\ Telling(w[i], x) = v
    /\ \A j \in 1 .. Len(w) : i < j => ~Tells(w[j], x)
WillShow(w, d, x, v) == LastTells(w, x, v) \/ (Silent(w, x) /\ Of(d, x) = v)

-----------------------------------------------------------------------------
(* The inductive invariant.                                                *)

\* Messages are only under way on an open socket, and the last request is for the tab.
OutboxOK(p) ==
  /\ inbox[p] # <<>> => sock[p]
  /\ outbox[p] # <<>> => sock[p] /\ outbox[p][Len(outbox[p])] = tab[p]
  /\ switches[p] > 0 => tab[p] # None

\* A page without a request under way will show its server's mirror.
ShownOK(p) ==
  sock[p] /\ outbox[p] = <<>> =>
    \A x \in Matter : WillShow(inbox[p], shown[p], x, Of(mirror[sub[p]], x))

\* Such a page is subscribed to the tab that was chosen, or is going to ask for it.
SwitchOK(p) ==
  sock[p] /\ outbox[p] = <<>> /\ switches[p] > 0 =>
    sub[p] = tab[p] \/ \E i \in 1 .. Len(inbox[p]) : inbox[p][i].kind = "servers"

PInv == PageTypeOK /\ \A p \in Page : OutboxOK(p) /\ ShownOK(p) /\ SwitchOK(p)

-----------------------------------------------------------------------------
(* Lemmas on what is on its way.                                           *)

\* A message that tells of x decides.
LEMMA AppendTelling ==
  ASSUME NEW w \in Seq(Message), NEW m \in Message, NEW x \in Matter, Tells(m, x), NEW d
  PROVE  WillShow(Append(w, m), d, x, Telling(m, x))
<1> DEFINE y == Append(w, m)
<1>1. Len(w) \in Nat /\ Len(y) = Len(w) + 1 /\ y[Len(w) + 1] = m
  OBVIOUS
<1>2. Len(w) + 1 \in 1 .. Len(y) /\ \A j \in 1 .. Len(y) : ~(Len(w) + 1 < j)
  BY <1>1
<1> QED
  BY <1>1, <1>2 DEF WillShow, LastTells

\* Any other changes nothing.
LEMMA AppendSilent ==
  ASSUME NEW w \in Seq(Message), NEW m \in Message, NEW x \in Matter, ~Tells(m, x),
         NEW d, NEW v, WillShow(w, d, x, v)
  PROVE  WillShow(Append(w, m), d, x, v)
<1> DEFINE y == Append(w, m)
<1>1. /\ Len(w) \in Nat /\ Len(y) = Len(w) + 1 /\ y[Len(w) + 1] = m
      /\ \A i \in 1 .. Len(w) : y[i] = w[i]
  OBVIOUS
<1>2. \A i \in 1 .. Len(y) : i \in 1 .. Len(w) \/ i = Len(w) + 1
  BY <1>1
<1>3. Silent(w, x) => Silent(y, x)
  BY <1>1, <1>2 DEF Silent
<1>4. ASSUME LastTells(w, x, v)  PROVE LastTells(y, x, v)
  <2>1. PICK i \in 1 .. Len(w) : /\ Tells(w[i], x) /\ Telling(w[i], x) = v
                                 /\ \A j \in 1 .. Len(w) : i < j => ~Tells(w[j], x)
    BY <1>4 DEF LastTells
  <2>2. i \in 1 .. Len(y) /\ Tells(y[i], x) /\ Telling(y[i], x) = v
    BY <1>1, <2>1
  <2>3. \A j \in 1 .. Len(y) : i < j => ~Tells(y[j], x)
    BY <1>1, <1>2, <2>1
  <2> QED
    BY <2>2, <2>3 DEF LastTells
<1> QED
  BY <1>3, <1>4 DEF WillShow

\* The page receives the first message: it shows what the message tells, and the rest is
\* as it was.
LEMMA TailShows ==
  ASSUME NEW w \in Seq(Message), w # <<>>, NEW x \in Matter, NEW d, NEW e, NEW v,
         WillShow(w, d, x, v),
         Of(e, x) = IF Tells(Head(w), x) THEN Telling(Head(w), x) ELSE Of(d, x)
  PROVE  WillShow(Tail(w), e, x, v)
<1> DEFINE y == Tail(w)
<1>1. Len(w) \in Nat \ {0} /\ Head(w) = w[1] /\ 1 \in 1 .. Len(w)
  OBVIOUS
<1>2. Len(y) = Len(w) - 1 /\ \A i \in 1 .. Len(y) : y[i] = w[i + 1] /\ i + 1 \in 1 .. Len(w)
  OBVIOUS
<1>3. CASE Silent(w, x) /\ Of(d, x) = v
  BY <1>1, <1>2, <1>3 DEF Silent, WillShow
<1>4. CASE LastTells(w, x, v)
  <2>1. PICK i \in 1 .. Len(w) : /\ Tells(w[i], x) /\ Telling(w[i], x) = v
                                 /\ \A j \in 1 .. Len(w) : i < j => ~Tells(w[j], x)
    BY <1>4 DEF LastTells
  <2>2. CASE i = 1
    <3>1. \A j \in 1 .. Len(y) : 1 < j + 1
      BY <1>1, <1>2
    <3> QED
      BY <1>1, <1>2, <2>1, <2>2, <3>1 DEF Silent, WillShow
  <2>3. CASE i # 1
    <3>1. i - 1 \in 1 .. Len(y) /\ (i - 1) + 1 = i
      BY <1>1, <1>2, <2>3
    <3>2. Tells(y[i - 1], x) /\ Telling(y[i - 1], x) = v
      BY <1>2, <2>1, <3>1
    <3>3. \A j \in 1 .. Len(y) : i - 1 < j => ~Tells(y[j], x)
      BY <1>2, <2>1, <3>1
    <3> QED
      BY <3>1, <3>2, <3>3 DEF LastTells, WillShow
  <2> QED
    BY <2>2, <2>3
<1> QED
  BY <1>3, <1>4 DEF WillShow

-----------------------------------------------------------------------------
(* Steps.                                                                  *)

\* A step of one page leaves the others as they are.
LEMMA OnePage ==
  ASSUME PInv, PageTypeOK', UNCHANGED mirror, NEW p \in Page,
         OutboxOK(p)', ShownOK(p)', SwitchOK(p)',
         \A q \in Page \ {p} :
           /\ sock'[q] = sock[q] /\ sub'[q] = sub[q] /\ inbox'[q] = inbox[q]
           /\ outbox'[q] = outbox[q] /\ tab'[q] = tab[q] /\ shown'[q] = shown[q]
           /\ switches'[q] = switches[q]
  PROVE  PInv'
<1>1. ASSUME NEW q \in Page, q # p  PROVE OutboxOK(q)' /\ ShownOK(q)' /\ SwitchOK(q)'
  <2>1. OutboxOK(q) /\ ShownOK(q) /\ SwitchOK(q)
    BY DEF PInv
  <2> QED
    BY <1>1, <2>1 DEF OutboxOK, ShownOK, SwitchOK
<1> QED
  BY <1>1 DEF PInv

\* A change of s's mirror is sent to every page that is subscribed to s.
LEMMA RelayStep ==
  ASSUME PInv, PageTypeOK', NEW s \in Server, NEW m \in Message, Pages!Relay(s, m),
         m.kind \notin {"servers", "snapshot"},
         \A t \in Server \ {s} : mirror'[t] = mirror[t],
         \A x \in Matter : Of(mirror'[s], x) = IF Tells(m, x) THEN Telling(m, x)
                                                              ELSE Of(mirror[s], x)
  PROVE  PInv'
<1>0. PageTypeOK
  BY DEF PInv
<1>1. /\ inbox' = [p \in Page |-> IF sock[p] /\ sub[p] = s THEN Append(inbox[p], m) ELSE inbox[p]]
      /\ UNCHANGED <<sock, sub, outbox, tab, shown, switches, pageDrops>>
  BY DEF Pages!Relay
<1>2. ASSUME NEW p \in Page  PROVE OutboxOK(p)' /\ ShownOK(p)' /\ SwitchOK(p)'
  <2>0. inbox[p] \in Seq(Message) /\ OutboxOK(p) /\ ShownOK(p) /\ SwitchOK(p)
    BY <1>0 DEF PInv, PageTypeOK
  <2>1. OutboxOK(p)'
    BY <1>1, <2>0 DEF OutboxOK
  <2>2. CASE sock[p] /\ sub[p] = s
    <3>1. inbox'[p] = Append(inbox[p], m)
      BY <1>1, <2>2
    <3>2. ShownOK(p)'
      <4> SUFFICES ASSUME outbox[p] = <<>>, NEW x \in Matter
                   PROVE  WillShow(inbox'[p], shown[p], x, Of(mirror'[s], x))
        BY <1>1, <2>2 DEF ShownOK
      <4>1. WillShow(inbox[p], shown[p], x, Of(mirror[s], x))
        BY <2>0, <2>2 DEF ShownOK
      <4>2. CASE Tells(m, x)
        BY <2>0, <3>1, <4>2, AppendTelling
      <4>3. CASE ~Tells(m, x)
        BY <2>0, <3>1, <4>1, <4>3, AppendSilent
      <4> QED
        BY <4>2, <4>3
    <3>3. SwitchOK(p)'
      <4>1. \A i \in 1 .. Len(inbox[p]) : i \in 1 .. Len(inbox'[p]) /\ inbox'[p][i] = inbox[p][i]
        BY <2>0, <3>1
      <4> QED
        BY <1>1, <2>0, <4>1 DEF SwitchOK
    <3> QED
      BY <2>1, <3>2, <3>3
  <2>3. CASE sock[p] /\ sub[p] # s
    <3>1. inbox'[p] = inbox[p] /\ sub[p] \in Server /\ mirror'[sub[p]] = mirror[sub[p]]
      BY <1>0, <1>1, <2>3 DEF PageTypeOK
    <3> QED
      BY <1>1, <2>0, <2>1, <2>3, <3>1 DEF ShownOK, SwitchOK
  <2>4. CASE ~sock[p]
    BY <1>1, <2>1, <2>4 DEF ShownOK, SwitchOK
  <2> QED
    BY <2>2, <2>3, <2>4
<1> QED
  BY <1>2 DEF PInv

\* A step that the pages do not see, of a mirror that stays the same in what matters.
LEMMA UnseenStep ==
  ASSUME PInv, PageTypeOK', UNCHANGED Pages!pvars,
         \A s \in Server, x \in Matter : Of(mirror'[s], x) = Of(mirror[s], x)
  PROVE  PInv'
<1>1. ASSUME NEW p \in Page  PROVE OutboxOK(p)' /\ ShownOK(p)' /\ SwitchOK(p)'
  <2>1. OutboxOK(p) /\ ShownOK(p) /\ SwitchOK(p) /\ (sock[p] => sub[p] \in Server)
    BY DEF PInv, PageTypeOK
  <2> QED
    BY <2>1 DEF Pages!pvars, OutboxOK, ShownOK, SwitchOK
<1> QED
  BY <1>1 DEF PInv

LEMMA MirrorTypes ==
  ASSUME PageTypeOK, NEW s \in Server, Pages!MirrorStep(s)
  PROVE  roster' \in [Server -> Nat] /\ mirror' \in [Server -> Pages!Mirror] /\ news' \in Nat
<1>0. /\ roster \in [Server -> Nat] /\ mirror \in [Server -> Pages!Mirror] /\ news \in Nat
      /\ mirror[s] \in Pages!Mirror
  BY DEF PageTypeOK
<1>1. CASE Pages!Advance(s) /\ UNCHANGED news
  BY <1>0, <1>1 DEF Pages!Advance
<1>2. CASE news' = news + 1 /\ Pages!SetPlayers(s)
  <2>1. PICK v \in mirror[s].players .. roster[s] : mirror' = [mirror EXCEPT ![s].players = v]
    BY <1>2 DEF Pages!SetPlayers
  <2>2. v \in Nat
    BY <1>0 DEF Pages!Mirror
  <2>3. [mirror[s] EXCEPT !.players = v] \in Pages!Mirror
    BY <1>0, <2>2 DEF Pages!Mirror
  <2> QED
    BY <1>0, <1>2, <2>1, <2>3 DEF Pages!SetPlayers
<1>3. CASE /\ news' = news + 1
           /\ \E b \in BOOLEAN : \/ Pages!SetConnected(s, b) \/ Pages!QueueEvent(s, b)
                                \/ Pages!StatusAnswer(s, b)
  <2>1. PICK b \in BOOLEAN : Pages!SetConnected(s, b) \/ Pages!QueueEvent(s, b) \/ Pages!StatusAnswer(s, b)
    BY <1>3
  <2>2. /\ [mirror[s] EXCEPT !.connected = b] \in Pages!Mirror
        /\ [mirror[s] EXCEPT !.queue = IF b THEN "pending" ELSE "null"] \in Pages!Mirror
        /\ [mirror[s] EXCEPT !.queue = IF b THEN "pending" ELSE "idle"] \in Pages!Mirror
    BY <1>0 DEF Pages!Mirror, Pages!Status
  <2> QED
    BY <1>0, <1>3, <2>1, <2>2 DEF Pages!SetConnected, Pages!QueueEvent, Pages!StatusAnswer
<1> QED
  BY <1>1, <1>2, <1>3 DEF Pages!MirrorStep

\* What is relayed is a message, and goes to sockets only.
LEMMA RelayTypes ==
  ASSUME PageTypeOK, NEW s \in Server, NEW m \in Message, Pages!Relay(s, m),
         roster' \in [Server -> Nat], mirror' \in [Server -> Pages!Mirror], news' \in Nat
  PROVE  PageTypeOK'
<1>1. inbox' \in [Page -> Seq(Message)]
  BY DEF Pages!Relay, PageTypeOK
<1> QED
  BY <1>1 DEF Pages!Relay, PageTypeOK

LEMMA MirrorStepKeeps ==
  ASSUME PInv, NEW s \in Server, Pages!MirrorStep(s)
  PROVE  PInv'
<1>0. PageTypeOK /\ mirror \in [Server -> Pages!Mirror] /\ mirror[s] \in Pages!Mirror
  BY DEF PInv, PageTypeOK
<1>1. roster' \in [Server -> Nat] /\ mirror' \in [Server -> Pages!Mirror] /\ news' \in Nat
  BY <1>0, MirrorTypes
<1>2. CASE Pages!Advance(s) /\ UNCHANGED Pages!pvars
  <2>1. PageTypeOK' /\ UNCHANGED mirror
    BY <1>0, <1>1, <1>2 DEF PageTypeOK, Pages!pvars, Pages!Advance
  <2> QED
    BY <1>2, <2>1, UnseenStep
<1>3. CASE Pages!SetPlayers(s) /\ Pages!Relay(s, Pages!List(mirror'[s].players))
  <2> DEFINE m == Pages!List(mirror'[s].players)
  <2>1. PICK v \in mirror[s].players .. roster[s] : mirror' = [mirror EXCEPT ![s].players = v]
    BY <1>3 DEF Pages!SetPlayers
  <2>2. /\ \A t \in Server \ {s} : mirror'[t] = mirror[t]
        /\ mirror'[s].players = v /\ mirror'[s].connected = mirror[s].connected
        /\ mirror'[s].players \in Nat
    BY <1>0, <1>1, <2>1 DEF Pages!Mirror
  <2>3. m \in Message /\ m.kind = "players" /\ m.v = v
    BY <2>2 DEF Message, Pages!List
  <2>4. \A x \in Matter : Of(mirror'[s], x) = IF Tells(m, x) THEN Telling(m, x)
                                                             ELSE Of(mirror[s], x)
    BY <2>2, <2>3 DEF Matter, Of, Tells, Telling
  <2>5. PageTypeOK'
    BY <1>0, <1>1, <1>3, <2>3, RelayTypes
  <2> HIDE DEF m
  <2> QED
    BY <1>3, <2>2, <2>3, <2>4, <2>5, RelayStep DEF m
<1>4. ASSUME NEW b \in BOOLEAN, Pages!SetConnected(s, b), Pages!Relay(s, Pages!Connection(b))  PROVE PInv'
  <2> DEFINE m == Pages!Connection(b)
  <2>1. mirror' = [mirror EXCEPT ![s].connected = b]
    BY <1>4 DEF Pages!SetConnected
  <2>2. /\ \A t \in Server \ {s} : mirror'[t] = mirror[t]
        /\ mirror'[s].connected = b /\ mirror'[s].players = mirror[s].players
    BY <1>0, <2>1 DEF Pages!Mirror
  <2>3. m \in Message /\ m.kind = "connection" /\ m.up = b
    BY DEF Message, Pages!Connection
  <2>4. \A x \in Matter : Of(mirror'[s], x) = IF Tells(m, x) THEN Telling(m, x)
                                                             ELSE Of(mirror[s], x)
    BY <2>2, <2>3 DEF Matter, Of, Tells, Telling
  <2>5. PageTypeOK'
    BY <1>0, <1>1, <1>4, <2>3, RelayTypes
  <2> HIDE DEF m
  <2> QED
    BY <1>4, <2>2, <2>3, <2>4, <2>5, RelayStep DEF m
<1>5. ASSUME NEW b \in BOOLEAN, NEW q \in Pages!Status, mirror' = [mirror EXCEPT ![s].queue = q]
      PROVE  /\ \A t \in Server \ {s} : mirror'[t] = mirror[t]
             /\ mirror'[s].connected = mirror[s].connected /\ mirror'[s].players = mirror[s].players
  BY <1>0, <1>5 DEF Pages!Mirror
<1>6. ASSUME NEW b \in BOOLEAN, Pages!QueueEvent(s, b), Pages!Relay(s, Pages!Pending(b))  PROVE PInv'
  <2> DEFINE m == Pages!Pending(b)
             q == IF b THEN "pending" ELSE "null"
  <2>1. mirror' = [mirror EXCEPT ![s].queue = q] /\ q \in Pages!Status
    BY <1>6 DEF Pages!QueueEvent, Pages!Status
  <2>2. /\ \A t \in Server \ {s} : mirror'[t] = mirror[t]
        /\ mirror'[s].connected = mirror[s].connected /\ mirror'[s].players = mirror[s].players
    BY <1>5, <2>1
  <2>3. m \in Message /\ m.kind = "queue"
    BY DEF Message, Pages!Pending
  <2>4. \A x \in Matter : Of(mirror'[s], x) = IF Tells(m, x) THEN Telling(m, x)
                                                             ELSE Of(mirror[s], x)
    BY <2>2, <2>3 DEF Matter, Of, Tells
  <2>5. PageTypeOK'
    BY <1>0, <1>1, <1>6, <2>3, RelayTypes
  <2> HIDE DEF m
  <2> QED
    BY <1>6, <2>2, <2>3, <2>4, <2>5, RelayStep DEF m
<1>7. ASSUME NEW b \in BOOLEAN, Pages!StatusAnswer(s, b), UNCHANGED Pages!pvars  PROVE PInv'
  <2> DEFINE q == IF b THEN "pending" ELSE "idle"
  <2>1. mirror' = [mirror EXCEPT ![s].queue = q] /\ q \in Pages!Status
    BY <1>7 DEF Pages!StatusAnswer, Pages!Status
  <2>2. /\ \A t \in Server \ {s} : mirror'[t] = mirror[t]
        /\ mirror'[s].connected = mirror[s].connected /\ mirror'[s].players = mirror[s].players
    BY <1>5, <2>1
  <2>3. \A t \in Server, x \in Matter : Of(mirror'[t], x) = Of(mirror[t], x)
    BY <2>2 DEF Matter, Of
  <2>4. PageTypeOK'
    BY <1>0, <1>1, <1>7 DEF PageTypeOK, Pages!pvars
  <2> QED
    BY <1>7, <2>3, <2>4, UnseenStep
<1> QED
  BY <1>2, <1>3, <1>4, <1>6, <1>7 DEF Pages!MirrorStep

-----------------------------------------------------------------------------
(* The page's own steps.                                                   *)

\* A new connection: what was on its way is lost, a snapshot comes, and before it the list of
\* servers, which makes the page ask for its tab.
LEMMA PageConnectKeeps ==
  ASSUME PInv, First \in Server, NEW p \in Page, Pages!PageConnect(p)
  PROVE  PInv'
<1>0. PageTypeOK /\ ~sock[p] /\ mirror[First] \in Pages!Mirror
  BY DEF PInv, PageTypeOK, Pages!PageConnect
<1> DEFINE m == Pages!Snapshot(First)
           w == <<Pages!Servers, m>>
<1>1. m \in Message /\ m.kind = "snapshot" /\ m.body = mirror[First]
  BY <1>0 DEF Message, Pages!Snapshot
<1>2. Pages!Servers \in Message /\ Pages!Servers.kind = "servers"
  BY DEF Message, Pages!Servers
<1>3. /\ sock' = [sock EXCEPT ![p] = TRUE] /\ sub' = [sub EXCEPT ![p] = First]
      /\ inbox' = [inbox EXCEPT ![p] = w]
      /\ UNCHANGED <<Pages!mvars, news, outbox, tab, shown, switches, pageDrops>>
  BY DEF Pages!PageConnect
<1> HIDE DEF m
<1>4. w \in Seq(Message) /\ Len(w) = 2 /\ w[1] = Pages!Servers /\ w[2] = m
  BY <1>1, <1>2
<1> HIDE DEF w
<1>5. /\ sock'[p] /\ sub'[p] = First /\ inbox'[p] = w
      /\ \A q \in Page \ {p} : sock'[q] = sock[q] /\ sub'[q] = sub[q] /\ inbox'[q] = inbox[q]
  BY <1>0, <1>3 DEF PageTypeOK
<1>6. PageTypeOK'
  <2>1. sock' \in [Page -> BOOLEAN] /\ sub' \in [Page -> Server \cup {None}]
    BY <1>0, <1>3 DEF PageTypeOK
  <2>2. inbox' \in [Page -> Seq(Message)]
    BY <1>0, <1>3, <1>4 DEF PageTypeOK
  <2>3. \A q \in Page : sock'[q] => sub'[q] \in Server
    BY <1>0, <1>5 DEF PageTypeOK
  <2> QED
    BY <1>0, <1>3, <2>1, <2>2, <2>3 DEF PageTypeOK, Pages!mvars
<1>7. OutboxOK(p)'
  BY <1>0, <1>3, <1>5 DEF OutboxOK, PInv
<1>8. ShownOK(p)'
  <2> SUFFICES ASSUME NEW x \in Matter
               PROVE  WillShow(w, shown[p], x, Of(mirror[First], x))
    BY <1>3, <1>5 DEF ShownOK, Pages!mvars
  <2>1. Tells(w[2], x) /\ Telling(w[2], x) = Of(mirror[First], x)
    BY <1>1, <1>4 DEF Tells, Telling
  <2>2. 2 \in 1 .. Len(w) /\ \A j \in 1 .. Len(w) : ~(2 < j)
    BY <1>4
  <2> QED
    BY <2>1, <2>2 DEF WillShow, LastTells
<1>9. SwitchOK(p)'
  <2>1. 1 \in 1 .. Len(inbox'[p]) /\ inbox'[p][1].kind = "servers"
    BY <1>2, <1>4, <1>5
  <2> QED
    BY <2>1 DEF SwitchOK
<1> QED
  BY <1>3, <1>5, <1>6, <1>7, <1>8, <1>9, OnePage DEF Pages!mvars

\* The api serves a request: it subscribes the socket and sends a snapshot.
LEMMA SwitchServerKeeps ==
  ASSUME PInv, NEW p \in Page, Pages!SwitchServer(p)
  PROVE  PInv'
<1> DEFINE o == outbox[p]
           s == Head(o)
           m == Pages!Snapshot(s)
<1>0. /\ PageTypeOK /\ OutboxOK(p) /\ SwitchOK(p) /\ o \in Seq(Server) /\ o # <<>>
      /\ inbox[p] \in Seq(Message)
  BY DEF PInv, PageTypeOK, Pages!SwitchServer
<1>1. /\ s \in Server /\ Tail(o) \in Seq(Server) /\ Len(o) \in Nat \ {0} /\ Len(Tail(o)) = Len(o) - 1
      /\ s = o[1] /\ \A i \in 1 .. Len(Tail(o)) : Tail(o)[i] = o[i + 1]
  BY <1>0
<1>2. m \in Message /\ m.kind = "snapshot" /\ m.body = mirror[s]
  BY <1>0, <1>1 DEF Message, Pages!Snapshot, PageTypeOK
<1>3. /\ sub' = [sub EXCEPT ![p] = s] /\ inbox' = [inbox EXCEPT ![p] = Append(inbox[p], m)]
      /\ outbox' = [outbox EXCEPT ![p] = Tail(o)]
      /\ UNCHANGED <<Pages!mvars, news, sock, tab, shown, switches, pageDrops>>
  BY DEF Pages!SwitchServer
<1> HIDE DEF m
<1>4. /\ sub'[p] = s /\ inbox'[p] = Append(inbox[p], m) /\ outbox'[p] = Tail(o)
      /\ \A q \in Page \ {p} : sub'[q] = sub[q] /\ inbox'[q] = inbox[q] /\ outbox'[q] = outbox[q]
  BY <1>0, <1>3 DEF PageTypeOK
<1>5. PageTypeOK'
  BY <1>0, <1>1, <1>2, <1>3, <1>4 DEF PageTypeOK, Pages!mvars
<1>6. OutboxOK(p)'
  <2>1. ASSUME Tail(o) # <<>>  PROVE Tail(o)[Len(Tail(o))] = o[Len(o)]
    <3>1. Len(Tail(o)) \in 1 .. Len(Tail(o))
      BY <1>1, <2>1
    <3> QED
      BY <1>1, <3>1
  <2> QED
    BY <1>0, <1>3, <1>4, <2>1 DEF OutboxOK
<1>7. ShownOK(p)'
  <2>1. ASSUME NEW x \in Matter  PROVE Tells(m, x) /\ Telling(m, x) = Of(mirror[s], x)
    BY <1>2 DEF Tells, Telling
  <2> QED
    BY <1>0, <1>2, <1>3, <1>4, <2>1, AppendTelling DEF ShownOK, Pages!mvars
<1>8. SwitchOK(p)'
  <2>1. ASSUME Tail(o) = <<>>  PROVE s = tab[p]
    <3>0. Len(<<>>) = 0
      OBVIOUS
    <3>1. Len(Tail(o)) = 0
      BY <2>1, <3>0
    <3>2. Len(o) = 1
      BY <1>1, <3>1
    <3> QED
      BY <1>0, <1>1, <3>2 DEF OutboxOK
  <2> QED
    BY <1>3, <1>4, <2>1 DEF SwitchOK
<1> QED
  BY <1>3, <1>4, <1>5, <1>6, <1>7, <1>8, OnePage DEF Pages!mvars

\* The page receives: the list of servers makes it ask for its tab, or take one; the
\* rest changes what it shows.
LEMMA ReceiveKeeps ==
  ASSUME PInv, None \notin Server, NEW p \in Page, Pages!PageReceive(p)
  PROVE  PInv'
<1> DEFINE w == inbox[p]
           m == Head(w)
           o == outbox[p]
<1>0. /\ PageTypeOK /\ OutboxOK(p) /\ ShownOK(p) /\ SwitchOK(p)
      /\ w \in Seq(Message) /\ w # <<>> /\ o \in Seq(Server) /\ shown[p] \in Pages!Mirror
  BY DEF PInv, PageTypeOK, Pages!PageReceive
<1>1. /\ m \in Message /\ Tail(w) \in Seq(Message) /\ Len(w) \in Nat \ {0} /\ m = w[1]
      /\ Len(Tail(w)) = Len(w) - 1 /\ \A i \in 1 .. Len(Tail(w)) : Tail(w)[i] = w[i + 1]
  BY <1>0
<1>2. sock[p] /\ sub[p] \in Server
  BY <1>0 DEF OutboxOK, PageTypeOK
<1>3. inbox' = [inbox EXCEPT ![p] = Tail(w)] /\ UNCHANGED <<Pages!mvars, news, sock, sub, switches, pageDrops>>
  BY DEF Pages!PageReceive
<1>4. /\ inbox'[p] = Tail(w) /\ inbox' \in [Page -> Seq(Message)]
      /\ \A q \in Page \ {p} : inbox'[q] = inbox[q]
  BY <1>0, <1>1, <1>3 DEF PageTypeOK
<1>5. m.kind \in {"servers", "snapshot", "connection", "players", "queue"}
  BY <1>1 DEF Message
<1> HIDE DEF m
<1>6. ASSUME NEW x \in Matter, o = <<>>,
             Of(shown'[p], x) = IF Tells(m, x) THEN Telling(m, x) ELSE Of(shown[p], x)
      PROVE  WillShow(Tail(w), shown'[p], x, Of(mirror[sub[p]], x))
  <2>1. WillShow(w, shown[p], x, Of(mirror[sub[p]], x))
    BY <1>0, <1>2, <1>6 DEF ShownOK
  <2> QED
    BY <1>0, <1>6, <2>1, TailShows DEF m
<1>7. ASSUME m.kind # "servers", UNCHANGED <<outbox, tab>>, shown' \in [Page -> Pages!Mirror],
             \A q \in Page \ {p} : shown'[q] = shown[q],
             \A x \in Matter : Of(shown'[p], x) = IF Tells(m, x) THEN Telling(m, x) ELSE Of(shown[p], x)
      PROVE  PInv'
  <2>1. PageTypeOK'
    BY <1>0, <1>3, <1>4, <1>7 DEF PageTypeOK, Pages!mvars
  <2>2. OutboxOK(p)'
    BY <1>0, <1>2, <1>3, <1>7 DEF OutboxOK
  <2>3. ShownOK(p)'
    BY <1>3, <1>4, <1>6, <1>7 DEF ShownOK, Pages!mvars
  <2>4. SwitchOK(p)'
    <3>1. ASSUME NEW i \in 1 .. Len(w), w[i].kind = "servers"
          PROVE  i - 1 \in 1 .. Len(Tail(w)) /\ Tail(w)[i - 1].kind = "servers"
      <4>1. i # 1
        BY <1>1, <1>7, <3>1
      <4>2. i - 1 \in 1 .. Len(Tail(w)) /\ (i - 1) + 1 = i
        BY <1>1, <4>1
      <4> QED
        BY <1>1, <3>1, <4>2
    <3> QED
      BY <1>0, <1>3, <1>4, <1>7, <3>1 DEF SwitchOK
  <2> QED
    BY <1>3, <1>4, <1>7, <2>1, <2>2, <2>3, <2>4, OnePage DEF Pages!mvars
<1>8. CASE m.kind = "servers"
  <2>1. Pages!ReceiveServers(p)
    BY <1>8 DEF Pages!PageReceive, m
  <2>2. ~Tells(m, "players") /\ ~Tells(m, "connection") /\ shown' = shown
    BY <1>8, <2>1 DEF Tells, Pages!ReceiveServers
  <2>3. CASE tab[p] # None
    <3>1. outbox' = [outbox EXCEPT ![p] = Append(o, tab[p])] /\ tab' = tab /\ tab[p] \in Server
      BY <1>0, <2>1, <2>3 DEF Pages!ReceiveServers, PageTypeOK
    <3>2. /\ outbox'[p] = Append(o, tab[p]) /\ outbox' \in [Page -> Seq(Server)]
          /\ \A q \in Page \ {p} : outbox'[q] = outbox[q]
      BY <1>0, <3>1 DEF PageTypeOK
    <3>3. outbox'[p] # <<>> /\ outbox'[p][Len(outbox'[p])] = tab[p]
      BY <1>0, <3>1, <3>2
    <3>4. PageTypeOK'
      BY <1>0, <1>3, <1>4, <2>2, <3>1, <3>2 DEF PageTypeOK, Pages!mvars
    <3>5. OutboxOK(p)' /\ ShownOK(p)' /\ SwitchOK(p)'
      BY <1>0, <1>2, <1>3, <2>3, <3>1, <3>3 DEF OutboxOK, ShownOK, SwitchOK
    <3> QED
      BY <1>3, <1>4, <2>2, <3>1, <3>2, <3>4, <3>5, OnePage DEF Pages!mvars
  <2>4. CASE tab[p] = None
    <3>1. PICK s \in Server : tab' = [tab EXCEPT ![p] = s]
      BY <2>1, <2>4 DEF Pages!ReceiveServers
    <3>2. outbox' = outbox
      BY <2>1, <2>4 DEF Pages!ReceiveServers
    <3>3. o = <<>>
      <4>1. ASSUME o # <<>>  PROVE o[Len(o)] \in Server
        <5>1. Len(o) \in 1 .. Len(o)
          BY <1>0, <4>1
        <5> QED
          BY <1>0, <5>1
      <4> QED
        BY <1>0, <2>4, <4>1 DEF OutboxOK
    <3>4. ~(switches[p] > 0)
      BY <1>0, <2>4 DEF OutboxOK
    <3>5. tab'[p] = s /\ \A q \in Page \ {p} : tab'[q] = tab[q]
      BY <1>0, <3>1 DEF PageTypeOK
    <3>6. PageTypeOK'
      BY <1>0, <1>3, <1>4, <2>2, <3>1, <3>2 DEF PageTypeOK, Pages!mvars
    <3>7. OutboxOK(p)' /\ SwitchOK(p)'
      BY <1>2, <1>3, <3>2, <3>3, <3>4 DEF OutboxOK, SwitchOK
    <3>8. ShownOK(p)'
      BY <1>3, <1>4, <1>6, <2>2, <3>3 DEF ShownOK, Pages!mvars, Matter
    <3> QED
      BY <1>3, <1>4, <2>2, <3>2, <3>5, <3>6, <3>7, <3>8, OnePage DEF Pages!mvars
  <2> QED
    BY <2>3, <2>4
<1>9. CASE m.kind = "snapshot"
  <2> DEFINE d == [m.body EXCEPT !.queue = IF @ = "null" THEN shown[p].queue ELSE @]
  <2>1. m.body \in Pages!Mirror
    BY <1>1, <1>9 DEF Message
  <2>2. d \in Pages!Mirror /\ d.players = m.body.players /\ d.connected = m.body.connected
    BY <1>0, <2>1 DEF Pages!Mirror
  <2>3. shown' = [shown EXCEPT ![p] = d] /\ UNCHANGED <<outbox, tab>>
    BY <1>9 DEF Pages!PageReceive, Pages!ReceiveSnapshot, m
  <2> HIDE DEF d
  <2>4. /\ shown'[p] = d /\ shown' \in [Page -> Pages!Mirror]
        /\ \A q \in Page \ {p} : shown'[q] = shown[q]
    BY <1>0, <2>2, <2>3 DEF PageTypeOK
  <2>5. \A x \in Matter : Of(shown'[p], x) = IF Tells(m, x) THEN Telling(m, x) ELSE Of(shown[p], x)
    BY <1>9, <2>2, <2>4 DEF Matter, Of, Tells, Telling
  <2> QED
    BY <1>7, <1>9, <2>3, <2>4, <2>5
<1>10. CASE m.kind \in {"connection", "players", "queue"}
  <2>1. Pages!ReceiveEvent(p, m)
    BY <1>10 DEF Pages!PageReceive, m
  <2> DEFINE d == shown'[p]
  <2>2. /\ UNCHANGED <<outbox, tab>> /\ \A q \in Page \ {p} : shown'[q] = shown[q]
        /\ m.kind = "connection" => shown' = [shown EXCEPT ![p].connected = m.up]
        /\ m.kind = "players" => shown' = [shown EXCEPT ![p].players = m.v]
        /\ m.kind = "queue" => shown' = [shown EXCEPT ![p].queue = IF m.on THEN "pending" ELSE "null"]
    BY <1>0, <1>10, <2>1 DEF Pages!ReceiveEvent, PageTypeOK
  <2>3. /\ m.kind = "connection" => m.up \in BOOLEAN
        /\ m.kind = "players" => m.v \in Nat
    BY <1>1 DEF Message
  <2>4. shown' \in [Page -> Pages!Mirror]
    <3>1. /\ m.kind = "connection" => [shown[p] EXCEPT !.connected = m.up] \in Pages!Mirror
          /\ m.kind = "players" => [shown[p] EXCEPT !.players = m.v] \in Pages!Mirror
          /\ [shown[p] EXCEPT !.queue = IF m.on THEN "pending" ELSE "null"] \in Pages!Mirror
      BY <1>0, <2>3 DEF Pages!Mirror, Pages!Status
    <3>2. shown \in [Page -> Pages!Mirror]
      BY <1>0 DEF PageTypeOK
    <3> QED
      BY <1>10, <2>2, <3>1, <3>2
  <2>5. \A x \in Matter : Of(shown'[p], x) = IF Tells(m, x) THEN Telling(m, x) ELSE Of(shown[p], x)
    BY <1>0, <1>10, <2>2, <2>3 DEF PageTypeOK, Matter, Of, Tells, Telling, Pages!Mirror
  <2> QED
    BY <1>7, <1>10, <2>2, <2>4, <2>5
<1> QED
  BY <1>5, <1>8, <1>9, <1>10

\* Somebody chooses a tab: the display is cleared, and a request is under way, or will be
\* when the socket is open again.
LEMMA SwitchTabKeeps ==
  ASSUME PInv, None \notin Server, NEW p \in Page, NEW s \in Server, Pages!SwitchTab(p, s)
  PROVE  PInv'
<1> DEFINE o == outbox[p]
           d == [Pages!Unknown EXCEPT !.queue = shown[p].queue]
<1>0. /\ PageTypeOK /\ OutboxOK(p) /\ o \in Seq(Server) /\ shown[p] \in Pages!Mirror
      /\ sock[p] \in BOOLEAN
  BY DEF PInv, PageTypeOK
<1>1. d \in Pages!Mirror
  BY <1>0 DEF Pages!Mirror, Pages!Unknown
<1>2. /\ tab' = [tab EXCEPT ![p] = s] /\ shown' = [shown EXCEPT ![p] = d]
      /\ switches' = [switches EXCEPT ![p] = @ + 1]
      /\ outbox' = [outbox EXCEPT ![p] = IF sock[p] THEN Append(o, s) ELSE o]
      /\ UNCHANGED <<Pages!mvars, news, sock, sub, inbox, pageDrops>>
  BY DEF Pages!SwitchTab
<1> HIDE DEF d
<1>3. /\ tab'[p] = s /\ outbox'[p] = IF sock[p] THEN Append(o, s) ELSE o
      /\ \A q \in Page \ {p} : /\ tab'[q] = tab[q] /\ shown'[q] = shown[q]
                               /\ outbox'[q] = outbox[q] /\ switches'[q] = switches[q]
  BY <1>0, <1>2 DEF PageTypeOK
<1>4. PageTypeOK'
  <2>1. tab' \in [Page -> Server \cup {None}] /\ shown' \in [Page -> Pages!Mirror]
    BY <1>0, <1>1, <1>2 DEF PageTypeOK
  <2>2. switches' \in [Page -> Nat]
    BY <1>0, <1>2 DEF PageTypeOK
  <2>3. outbox' \in [Page -> Seq(Server)]
    BY <1>0, <1>2 DEF PageTypeOK
  <2> QED
    BY <1>0, <1>2, <2>1, <2>2, <2>3 DEF PageTypeOK, Pages!mvars
<1>5. sock[p] => outbox'[p] # <<>> /\ outbox'[p][Len(outbox'[p])] = s
  BY <1>0, <1>3
<1>6. ~sock[p] => outbox'[p] = <<>>
  BY <1>0, <1>3 DEF OutboxOK
<1>7. OutboxOK(p)' /\ ShownOK(p)' /\ SwitchOK(p)'
  BY <1>0, <1>2, <1>3, <1>5, <1>6 DEF OutboxOK, ShownOK, SwitchOK
<1> QED
  BY <1>2, <1>3, <1>4, <1>7, OnePage DEF Pages!mvars

\* The socket closes: nothing is under way, and nothing is asked of a closed one.
LEMMA PageDropKeeps ==
  ASSUME PInv, NEW p \in Page, Pages!PageDrop(p)
  PROVE  PInv'
<1>0. PageTypeOK /\ OutboxOK(p)
  BY DEF PInv
<1>1. /\ sock' = [sock EXCEPT ![p] = FALSE] /\ inbox' = [inbox EXCEPT ![p] = <<>>]
      /\ outbox' = [outbox EXCEPT ![p] = <<>>] /\ pageDrops' = [pageDrops EXCEPT ![p] = @ + 1]
      /\ UNCHANGED <<Pages!mvars, news, sub, tab, shown, switches>>
  BY DEF Pages!PageDrop
<1>2. /\ ~sock'[p] /\ inbox'[p] = <<>> /\ outbox'[p] = <<>>
      /\ \A q \in Page \ {p} : sock'[q] = sock[q] /\ inbox'[q] = inbox[q] /\ outbox'[q] = outbox[q]
  BY <1>0, <1>1 DEF PageTypeOK
<1>3. PageTypeOK'
  <2>1. pageDrops' \in [Page -> Nat]
    BY <1>0, <1>1 DEF PageTypeOK
  <2>2. inbox' \in [Page -> Seq(Message)] /\ outbox' \in [Page -> Seq(Server)]
    BY <1>0, <1>1 DEF PageTypeOK
  <2>3. sock' \in [Page -> BOOLEAN] /\ \A q \in Page : sock'[q] => sub[q] \in Server
    BY <1>0, <1>1, <1>2 DEF PageTypeOK
  <2> QED
    BY <1>0, <1>1, <2>1, <2>2, <2>3 DEF PageTypeOK, Pages!mvars
<1>4. OutboxOK(p)' /\ ShownOK(p)' /\ SwitchOK(p)'
  BY <1>0, <1>1, <1>2 DEF OutboxOK, ShownOK, SwitchOK
<1> QED
  BY <1>1, <1>2, <1>3, <1>4, OnePage DEF Pages!mvars

-----------------------------------------------------------------------------
(* The invariant and what follows from it.                                 *)

LEMMA PInvInit ==
  ASSUME Pages!Init
  PROVE  PInv
<1>1. Pages!Unknown \in Pages!Mirror
  BY DEF Pages!Unknown, Pages!Mirror, Pages!Status
<1>2. PageTypeOK
  BY <1>1 DEF Pages!Init, Pages!MInit, PageTypeOK
<1>3. ASSUME NEW p \in Page  PROVE OutboxOK(p) /\ ShownOK(p) /\ SwitchOK(p)
  BY DEF Pages!Init, OutboxOK, ShownOK, SwitchOK
<1> QED
  BY <1>2, <1>3 DEF PInv

LEMMA PInvStep ==
  ASSUME PInv, First \in Server, None \notin Server, [Pages!Next]_(Pages!vars)
  PROVE  PInv'
<1>1. CASE UNCHANGED Pages!vars
  BY <1>1 DEF Pages!vars, Pages!mvars, Pages!pvars, PInv, PageTypeOK, OutboxOK, ShownOK, SwitchOK
<1>2. ASSUME NEW s \in Server, Pages!MirrorStep(s)  PROVE PInv'
  BY <1>2, MirrorStepKeeps
<1>3. ASSUME NEW p \in Page, Pages!PageConnect(p)  PROVE PInv'
  BY <1>3, PageConnectKeeps
<1>4. ASSUME NEW p \in Page, Pages!SwitchServer(p)  PROVE PInv'
  BY <1>4, SwitchServerKeeps
<1>5. ASSUME NEW p \in Page, Pages!PageReceive(p)  PROVE PInv'
  BY <1>5, ReceiveKeeps
<1>6. ASSUME NEW p \in Page, Pages!PageDrop(p)  PROVE PInv'
  BY <1>6, PageDropKeeps
<1>7. ASSUME NEW p \in Page, NEW s \in Server, Pages!SwitchTab(p, s)  PROVE PInv'
  BY <1>7, SwitchTabKeeps
<1> QED
  BY <1>1, <1>2, <1>3, <1>4, <1>5, <1>6, <1>7 DEF Pages!Next

\* A page that has received everything sees no message coming, so what it shows counts.
LEMMA SettledShows ==
  ASSUME PInv, NEW p \in Page, Pages!Settled(p)
  PROVE  /\ shown[p].connected = mirror[sub[p]].connected
         /\ shown[p].players = mirror[sub[p]].players
         /\ switches[p] > 0 => sub[p] = tab[p]
<1>1. Len(inbox[p]) = 0 /\ ~\E i \in 1 .. Len(inbox[p]) : TRUE
  BY DEF Pages!Settled
<1>2. \A x \in Matter : Of(shown[p], x) = Of(mirror[sub[p]], x)
  BY <1>1 DEF PInv, Pages!Settled, ShownOK, WillShow, LastTells
<1>3. switches[p] > 0 => sub[p] = tab[p]
  BY <1>1 DEF PInv, Pages!Settled, SwitchOK
<1> QED
  BY <1>2, <1>3 DEF Matter, Of

LEMMA PInvAlways ==
  ASSUME First \in Server, None \notin Server
  PROVE  Pages!Safety => []PInv
<1>1. Pages!Init => PInv
  BY PInvInit
<1>2. PInv /\ [Pages!Next]_(Pages!vars) => PInv'
  BY PInvStep
<1> QED
  BY <1>1, <1>2, PTL DEF Pages!Safety

\* A page that has received what was sent to it shows the list and the connection of the
\* server its socket is subscribed to (handleLiveServerMessage, broadcast, handleMessage),
\* for any number of pages and servers and of messages under way.  First is one of the
\* configured servers: without any there is no mirror to show.
THEOREM PagesShowTheirServer ==
  ASSUME First \in Server, None \notin Server
  PROVE  Pages!Safety => []PageMirrors
<1>1. PInv => PageMirrors
  BY SettledShows DEF PageMirrors, Pages!PageMirrors
<1> QED
  BY <1>1, PInvAlways, PTL

\* A page that has received everything is subscribed to the tab somebody chose, whichever
\* requests were lost with a socket (switchServer, the page's answer to "servers").
THEOREM ChosenTabsArrive ==
  ASSUME First \in Server, None \notin Server
  PROVE  Pages!Safety => []SwitchesArrive
<1>1. PInv => SwitchesArrive
  BY SettledShows DEF SwitchesArrive, Pages!SwitchesArrive
<1> QED
  BY <1>1, PInvAlways, PTL
=============================================================================
