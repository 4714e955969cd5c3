----------------------------- MODULE SquadInfo ------------------------------
(***************************************************************************)
(* How the api learns a server's serverInfo: the information part of       *)
(* requestInitialState in lib/squadjs-socket.ts.  Each connection asks for  *)
(* every field and collects the answers in an object of its own; the object *)
(* is published when all are in, or by a timer that a disconnect does not   *)
(* clear.  Publishing also starts the sampling of metrics, which a          *)
(* disconnect stops.                                                       *)
(*                                                                         *)
(* One game server: they share nothing here.                               *)
(***************************************************************************)
EXTENDS Naturals

CONSTANTS
  Fields,   \* how many fields are asked for (9)
  MaxConn   \* bound on the connections

VARIABLES
  connected,
  conn,      \* the number of the current, or last, connection
  answers,   \* answers[i]: how many answers connection i's object holds
  published, \* published[i]: infoPublished of connection i
  timer,     \* timer[i]: is its 10 second timer running?
  info,      \* whose object is serverInfo? 0: none, it is null
  sampling   \* is the metric interval running?

vars == <<connected, conn, answers, published, timer, info, sampling>>

Conn == 1 .. MaxConn

Init ==
  /\ connected = FALSE /\ conn = 0 /\ info = 0 /\ sampling = FALSE
  /\ answers = [i \in Conn |-> 0]
  /\ published = [i \in Conn |-> FALSE]
  /\ timer = [i \in Conn |-> FALSE]

-----------------------------------------------------------------------------
Connect ==
  /\ ~connected /\ conn < MaxConn
  /\ connected' = TRUE
  /\ conn' = conn + 1
  /\ timer' = [timer EXCEPT ![conn + 1] = TRUE]
  /\ UNCHANGED <<answers, published, info, sampling>>

\* "disconnect": the answers still to come never will; the timer goes on.  The last
\* connection within the bound stays up.
Disconnect ==
  /\ connected /\ conn < MaxConn
  /\ connected' = FALSE
  /\ sampling' = FALSE
  /\ UNCHANGED <<conn, answers, published, timer, info>>

PublishInfo_OnceForAll(i) ==  \* fault: infoPublished is kept with the server
  /\ published' = [published EXCEPT ![i] = TRUE]
  /\ IF \E k \in Conn : published[k]
       THEN UNCHANGED <<info, sampling>>
       ELSE info' = i /\ sampling' = TRUE

\* publishInfo.
PublishInfo(i) ==
  /\ published' = [published EXCEPT ![i] = TRUE]
  /\ IF published[i]
       THEN UNCHANGED <<info, sampling>>
       ELSE info' = i /\ sampling' = TRUE

\* An answer; the last one clears the timer and publishes.  A published object keeps
\* collecting, so an answer after the timer completes serverInfo in place.
AnswerField ==
  /\ connected /\ answers[conn] < Fields
  /\ answers' = [answers EXCEPT ![conn] = @ + 1]
  /\ IF answers[conn] + 1 = Fields
       THEN timer' = [timer EXCEPT ![conn] = FALSE] /\ PublishInfo(conn)
       ELSE UNCHANGED <<published, timer, info, sampling>>
  /\ UNCHANGED <<connected, conn>>

\* The 10 seconds are over.
Fallback(i) ==
  /\ timer[i]
  /\ timer' = [timer EXCEPT ![i] = FALSE]
  /\ PublishInfo(i)
  /\ UNCHANGED <<connected, conn, answers>>

Next == Connect \/ Disconnect \/ AnswerField \/ \E i \in Conn : Fallback(i)

\* Connections are retried for ever, answers and timers come.
Spec == Init /\ [][Next]_vars /\ WF_vars(Connect) /\ WF_vars(AnswerField)
          /\ \A i \in Conn : WF_vars(Fallback(i))

-----------------------------------------------------------------------------
\* Types; in particular a connection collects each field once, and serverInfo comes
\* from a connection that was made.
InfoTypeOK ==
  /\ connected \in BOOLEAN /\ sampling \in BOOLEAN
  /\ conn \in 0 .. MaxConn /\ info \in 0 .. conn
  /\ answers \in [Conn -> 0 .. Fields]
  /\ published \in [Conn -> BOOLEAN]
  /\ timer \in [Conn -> BOOLEAN]

\* Metrics are sampled again after every reconnect: once the link stays up, the
\* interval that the last disconnect cleared runs again, and serverInfo is there.
SamplesAgain == <>[](connected /\ sampling /\ info # 0)

\* serverInfo is never older than the last complete one of this connection: "publish
\* partial info after 10s if not all acks arrive", and they have arrived.
Complete == connected /\ answers[conn] = Fields
CompleteInfoStays == Complete => info = conn
=============================================================================
