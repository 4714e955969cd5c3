-------------------------- MODULE SftpDeploy_proofs --------------------------
(***************************************************************************)
(* Proofs about SftpDeploy: type correctness, and its three safety         *)
(* invariants.                                                             *)
(*                                                                         *)
(* StaleIsAccounted is not inductive: a deploy that was redirected to the  *)
(* environment's target reads a server's entries without refreshing its    *)
(* file.  The invariant SInv asks for a deploy that does refresh it, and   *)
(* ties what a job has in its hands to the versions.                       *)
(***************************************************************************)
EXTENDS SftpDeploy, TLAPS

\* Where a job is, it has what it needs to go on.
JobShape(q) ==
  /\ q.at = "begin" => q.scope \in Server \cup {All}
  /\ q.at = "config" => q.cur \in Server
  /\ q.at \in {"snapshot", "put"} =>
       q.cur \in Server \cup {All} /\ (q.target = Env \/ (q.target = q.cur /\ q.cur \in Server))

\* What a job was asked to carry is not to come, and what it has read is at least that,
\* and the live list if it is current.
JobTrue(q) ==
  /\ \A s \in Server : q.asked[s] <= ver[s]
  /\ q.at = "put" /\ q.cur \in Server =>
       /\ q.seen <= ver[q.cur] /\ q.asked[q.cur] <= q.seen
       /\ q.seen = ver[q.cur] => q.items = live[q.cur]

\* The job will put a current file to server s, unless something fails.
Refreshes(q, s) ==
  \/ q.at = "begin" /\ q.scope \in {s, All}
  \/ s \in q.todo
  \/ q.at = "config" /\ q.cur = s
  \/ q.at = "snapshot" /\ q.cur = s /\ q.target = s
  \/ q.at = "put" /\ q.cur = s /\ q.target = s /\ q.seen = ver[s]

Jobs == \A j \in Job : JobShape(job[j]) /\ JobTrue(job[j])
PutNotAhead == \A s \in Server : put[s] <= ver[s]
Accounted ==
  \A s \in Server : config[s] = "on" /\ put[s] # ver[s]
    => excused[s] \/ \E j \in Job : Refreshes(job[j], s)

\* The inductive invariant.
SInv == DeployTypeOK /\ Jobs /\ PutNotAhead /\ Accounted /\ FileIsLive

-----------------------------------------------------------------------------
(* Lemmas.                                                                 *)

\* The empty slot is a job, with nothing to do.
LEMMA NoJobOK ==
  /\ NoJob \in DeployJob /\ JobShape(NoJob) /\ \A s : ~Refreshes(NoJob, s)
  /\ NoJob.at = "idle" /\ NoJob.asked = [s \in Server |-> 0]
  BY DEF NoJob, DeployJob, Stage, JobShape, Refreshes, Target

\* Nothing is ahead of the versions in the empty slot.
LEMMA NoJobTrue == ASSUME DeployTypeOK PROVE JobTrue(NoJob)
<1>1. \A s \in Server : NoJob.asked[s] = 0 /\ ver[s] \in Nat
  BY NoJobOK DEF DeployTypeOK
<1> QED
  BY <1>1, NoJobOK DEF JobTrue

\* One job moves on, and goes on refreshing the servers it was to refresh.
LEMMA JobMoved ==
  ASSUME SInv, NEW j \in Job, NEW q \in DeployJob, JobShape(q), JobTrue(q),
         \A s \in Server : config[s] = "on" /\ Refreshes(job[j], s) => Refreshes(q, s),
         job' = [job EXCEPT ![j] = q], UNCHANGED <<live, config, file, ver, put, excused, fails>>
  PROVE  SInv'
<1>1. job' \in [Job -> DeployJob] /\ job'[j] = q /\ \A i \in Job \ {j} : job'[i] = job[i]
  BY DEF SInv, DeployTypeOK
<1>2. DeployTypeOK'
  BY <1>1 DEF SInv, DeployTypeOK
<1>3. ASSUME NEW i \in Job  PROVE JobShape(job'[i]) /\ JobTrue(job'[i])
  BY <1>1 DEF SInv, Jobs
<1>4. Jobs'
  BY <1>3 DEF Jobs, JobShape, JobTrue
<1>5. ASSUME NEW s \in Server, config[s] = "on", NEW i \in Job, Refreshes(job[i], s)
      PROVE  Refreshes(job'[i], s)
  BY <1>1, <1>5
<1>6. Accounted'
  BY <1>5 DEF SInv, Accounted, Refreshes
<1>7. PutNotAhead' /\ FileIsLive'
  BY DEF SInv, PutNotAhead, FileIsLive
<1> QED
  BY <1>2, <1>4, <1>6, <1>7 DEF SInv

\* The loop's next turn, or the end of the job.
LEMMA AfterOK ==
  ASSUME SInv, NEW j \in Job
  PROVE  /\ After(j) \in DeployJob /\ JobShape(After(j)) /\ JobTrue(After(j))
         /\ After(j).todo = job[j].todo
<1>1. job[j] \in DeployJob /\ JobTrue(job[j])
  BY DEF SInv, DeployTypeOK, Jobs
<1>2. CASE job[j].todo = {}
  BY <1>2, NoJobOK, NoJobTrue DEF After, SInv, NoJob
<1>3. CASE job[j].todo # {}
  <2>1. PICK q : q = [job[j] EXCEPT !.at = "next", !.cur = None, !.target = None, !.items = {}, !.seen = 0]
    OBVIOUS
  <2>2. After(j) = q
    BY <1>3, <2>1 DEF After
  <2>3. q \in DeployJob /\ q.at = "next" /\ q.todo = job[j].todo /\ q.asked = job[j].asked
    BY <1>1, <2>1 DEF DeployJob, Stage
  <2>4. JobShape(q) /\ JobTrue(q)
    BY <1>1, <2>3 DEF JobShape, JobTrue
  <2> QED
    BY <2>2, <2>3, <2>4
<1> QED
  BY <1>2, <1>3

-----------------------------------------------------------------------------
(* Steps of a job.                                                         *)

LEMMA TriggerStep ==
  ASSUME SInv, NEW j \in Job, TriggerSftpDeploy(j)
  PROVE  SInv'
<1> DEFINE enabled == {s \in Server : Enabled(s)}
<1>0. PICK q : q = job[j]
  OBVIOUS
<1>1. q \in DeployJob /\ JobShape(q) /\ JobTrue(q) /\ q.at = "begin" /\ q.scope \in Server \cup {All}
  BY <1>0 DEF SInv, DeployTypeOK, Jobs, TriggerSftpDeploy, JobShape
<1>2. UNCHANGED <<live, config, file, ver, put, excused, fails>>
  BY DEF TriggerSftpDeploy
<1>3. CASE q.scope # All
  <2>1. PICK p : p = [q EXCEPT !.at = "config", !.cur = q.scope]
    OBVIOUS
  <2>2. job' = [job EXCEPT ![j] = p]
    BY <1>0, <1>3, <2>1 DEF TriggerSftpDeploy
  <2>3. /\ p \in DeployJob /\ p.at = "config" /\ p.cur = q.scope /\ p.cur \in Server
        /\ p.todo = q.todo /\ p.asked = q.asked
    BY <1>1, <1>3, <2>1 DEF DeployJob, Stage
  <2>4. JobShape(p) /\ JobTrue(p)
    BY <1>1, <2>3 DEF JobShape, JobTrue
  <2>5. \A s \in Server : Refreshes(q, s) => Refreshes(p, s)
    BY <1>1, <1>3, <2>3 DEF Refreshes
  <2> QED
    BY <1>0, <1>2, <2>2, <2>3, <2>4, <2>5, JobMoved
<1>4. CASE q.scope = All /\ enabled # {}
  <2>1. PICK p : p = [q EXCEPT !.at = "next", !.todo = enabled]
    OBVIOUS
  <2>2. job' = [job EXCEPT ![j] = p]
    BY <1>0, <1>4, <2>1 DEF TriggerSftpDeploy
  <2>3. p \in DeployJob /\ p.at = "next" /\ p.todo = enabled /\ p.asked = q.asked
    BY <1>1, <2>1 DEF DeployJob, Stage
  <2>4. JobShape(p) /\ JobTrue(p)
    BY <1>1, <2>3 DEF JobShape, JobTrue
  <2>5. \A s \in Server : config[s] = "on" => Refreshes(p, s)
    BY <2>3 DEF Refreshes, Enabled
  <2> QED
    BY <1>0, <1>2, <2>2, <2>3, <2>4, <2>5, JobMoved
<1>5. CASE q.scope = All /\ enabled = {}
  <2>1. \A s \in Server : config[s] # "on"
    BY <1>5 DEF Enabled
  <2>2. CASE EnvSync /\ EnvCreds
    <3>1. PICK p : p = [q EXCEPT !.at = "snapshot", !.cur = All, !.target = Env]
      OBVIOUS
    <3>2. job' = [job EXCEPT ![j] = p]
      BY <1>0, <1>5, <2>2, <3>1 DEF TriggerSftpDeploy
    <3>3. /\ p \in DeployJob /\ p.at = "snapshot" /\ p.cur = All /\ p.target = Env
          /\ p.asked = q.asked
      BY <1>1, <3>1 DEF DeployJob, Stage, Target
    <3>4. JobShape(p) /\ JobTrue(p)
      BY <1>1, <3>3 DEF JobShape, JobTrue
    <3> QED
      BY <1>2, <2>1, <3>2, <3>3, <3>4, JobMoved
  <2>3. CASE ~(EnvSync /\ EnvCreds)
    <3>1. job' = [job EXCEPT ![j] = NoJob]
      BY <1>0, <1>5, <2>3 DEF TriggerSftpDeploy
    <3> QED
      BY <1>2, <2>1, <3>1, NoJobOK, NoJobTrue, JobMoved DEF SInv
  <2> QED
    BY <2>2, <2>3
<1> QED
  BY <1>1, <1>3, <1>4, <1>5

LEMMA NextServerStep ==
  ASSUME SInv, NEW j \in Job, NEW v \in Server, NextServer(j, v)
  PROVE  SInv'
<1>0. PICK q : q = job[j]
  OBVIOUS
<1>1. q \in DeployJob /\ JobTrue(q) /\ q.at = "next" /\ v \in q.todo
  BY <1>0 DEF SInv, DeployTypeOK, Jobs, NextServer
<1>2. PICK p : p = [q EXCEPT !.at = "config", !.cur = v, !.todo = @ \ {v}]
  OBVIOUS
<1>3. job' = [job EXCEPT ![j] = p] /\ UNCHANGED <<live, config, file, ver, put, excused, fails>>
  BY <1>0, <1>2 DEF NextServer
<1>4. p \in DeployJob /\ p.at = "config" /\ p.cur = v /\ p.todo = q.todo \ {v} /\ p.asked = q.asked
  BY <1>1, <1>2 DEF DeployJob, Stage
<1>5. JobShape(p) /\ JobTrue(p)
  BY <1>1, <1>4 DEF JobShape, JobTrue
<1>6. \A s \in Server : Refreshes(q, s) => Refreshes(p, s)
  BY <1>1, <1>4 DEF Refreshes
<1> QED
  BY <1>0, <1>3, <1>4, <1>5, <1>6, JobMoved

LEMMA ReadConfigStep ==
  ASSUME SInv, NEW j \in Job, ReadConfig(j)
  PROVE  SInv'
<1>0. PICK q : q = job[j]
  OBVIOUS
<1>1. q \in DeployJob /\ JobTrue(q) /\ q.at = "config" /\ q.cur \in Server
  BY <1>0 DEF SInv, DeployTypeOK, Jobs, ReadConfig, JobShape
<1>2. UNCHANGED <<live, config, file, ver, put, excused, fails>>
  BY DEF ReadConfig
<1>3. ASSUME NEW t \in {q.cur, Env}, job' = [job EXCEPT ![j] = [q EXCEPT !.at = "snapshot", !.target = t]],
             config[q.cur] = "on" => t = q.cur
      PROVE  SInv'
  <2>1. PICK p : p = [q EXCEPT !.at = "snapshot", !.target = t]
    OBVIOUS
  <2>2. /\ p \in DeployJob /\ p.at = "snapshot" /\ p.cur = q.cur /\ p.target = t
        /\ p.todo = q.todo /\ p.asked = q.asked
    BY <1>1, <2>1 DEF DeployJob, Stage, Target
  <2>3. JobShape(p) /\ JobTrue(p)
    BY <1>1, <2>2 DEF JobShape, JobTrue
  <2>4. \A s \in Server : config[s] = "on" /\ Refreshes(q, s) => Refreshes(p, s)
    BY <1>1, <1>3, <2>2 DEF Refreshes
  <2> QED
    BY <1>0, <1>2, <1>3, <2>1, <2>2, <2>3, <2>4, JobMoved
<1>4. ASSUME job' = [job EXCEPT ![j] = After(j)], config[q.cur] # "on"
      PROVE  SInv'
  <2>1. \A s \in Server : config[s] = "on" /\ Refreshes(q, s) => Refreshes(After(j), s)
    BY <1>0, <1>1, <1>4, AfterOK DEF Refreshes
  <2> QED
    BY <1>0, <1>2, <1>4, <2>1, AfterOK, JobMoved
<1>5. CASE config[q.cur] = "on"
  BY <1>0, <1>3, <1>5 DEF ReadConfig
<1>6. CASE config[q.cur] = "off"
  BY <1>0, <1>4, <1>6 DEF ReadConfig
<1>7. CASE config[q.cur] \notin {"on", "off"}
  <2>1. CASE EnvCreds
    BY <1>0, <1>3, <1>7, <2>1 DEF ReadConfig
  <2>2. CASE ~EnvCreds
    BY <1>0, <1>4, <1>7, <2>2 DEF ReadConfig
  <2> QED
    BY <2>1, <2>2
<1> QED
  BY <1>5, <1>6, <1>7

LEMMA SnapshotStep ==
  ASSUME SInv, NEW j \in Job, Snapshot(j)
  PROVE  SInv'
<1>0. PICK q : q = job[j]
  OBVIOUS
<1>1. q \in DeployJob /\ JobShape(q) /\ JobTrue(q) /\ q.at = "snapshot"
  BY <1>0 DEF SInv, DeployTypeOK, Jobs, Snapshot
<1>2. q.cur \in Server \cup {All} /\ (q.target = Env \/ (q.target = q.cur /\ q.cur \in Server))
  BY <1>1 DEF JobShape
<1>3. PICK p : p = [q EXCEPT !.at = "put", !.items = Generate(q.cur),
                             !.seen = IF q.cur = All THEN 0 ELSE ver[q.cur]]
  OBVIOUS
<1>4. job' = [job EXCEPT ![j] = p] /\ UNCHANGED <<live, config, file, ver, put, excused, fails>>
  BY <1>0, <1>3 DEF Snapshot
<1>5. Generate(q.cur) \subseteq Item
  BY <1>2 DEF Generate, SInv, DeployTypeOK
<1>6. q.cur \in Server => q.cur # All /\ ver[q.cur] \in Nat
  BY DeployAssumption DEF SInv, DeployTypeOK
<1>7. /\ p \in DeployJob /\ p.at = "put" /\ p.cur = q.cur /\ p.target = q.target /\ p.todo = q.todo
      /\ p.asked = q.asked /\ (q.cur \in Server => p.seen = ver[q.cur] /\ p.items = live[q.cur])
  BY <1>1, <1>2, <1>3, <1>5, <1>6 DEF DeployJob, Stage, Generate
<1>8. JobShape(p) /\ JobTrue(p)
  BY <1>1, <1>2, <1>6, <1>7 DEF JobShape, JobTrue
<1>9. \A s \in Server : Refreshes(q, s) => Refreshes(p, s)
  BY <1>1, <1>7 DEF Refreshes
<1> QED
  BY <1>0, <1>4, <1>7, <1>8, <1>9, JobMoved

\* The job that puts a file goes on with its loop; the others are as they were.
LEMMA PutOthers ==
  ASSUME SInv, NEW j \in Job, NEW p \in DeployJob, JobShape(p), JobTrue(p),
         job' = [job EXCEPT ![j] = p], UNCHANGED <<live, ver>>
  PROVE  /\ job' \in [Job -> DeployJob] /\ Jobs' /\ job'[j] = p
         /\ \A i \in Job \ {j} : job'[i] = job[i]
         /\ \A i \in Job, s \in Server : Refreshes(job[i], s)' <=> Refreshes(job'[i], s)
<1>1. job' \in [Job -> DeployJob] /\ job'[j] = p /\ \A i \in Job \ {j} : job'[i] = job[i]
  BY DEF SInv, DeployTypeOK
<1>2. ASSUME NEW i \in Job  PROVE JobShape(job'[i]) /\ JobTrue(job'[i])
  BY <1>1 DEF SInv, Jobs
<1>3. Jobs'
  BY <1>2 DEF Jobs, JobShape, JobTrue
<1>4. \A i \in Job, s \in Server : Refreshes(job[i], s)' <=> Refreshes(job'[i], s)
  BY DEF Refreshes
<1> QED
  BY <1>1, <1>3, <1>4

LEMMA PutFileStep ==
  ASSUME SInv, NEW j \in Job, PutFile(j)
  PROVE  SInv'
<1>0. PICK q : q = job[j]
  OBVIOUS
<1>1. q \in DeployJob /\ JobShape(q) /\ JobTrue(q) /\ q.at = "put"
  BY <1>0 DEF SInv, DeployTypeOK, Jobs, PutFile
<1>2. q.cur \in Server \cup {All} /\ (q.target = Env \/ (q.target = q.cur /\ q.cur \in Server))
  BY <1>1 DEF JobShape
<1>3. q.target = q.cur => q.cur \in Server
  BY <1>2, DeployAssumption
<1>4. PICK n : n = [of |-> q.cur, items |-> q.items, whole |-> TRUE]
  OBVIOUS
<1>5. file' = [file EXCEPT ![q.target] = n] /\ n \in File /\ q.target \in Target
  BY <1>0, <1>1, <1>2, <1>4 DEF PutFile, Write, File, DeployJob, Target
<1>6. PICK p : p = After(j)
  OBVIOUS
<1>7. p \in DeployJob /\ JobShape(p) /\ JobTrue(p) /\ p.todo = q.todo
  BY <1>0, <1>6, AfterOK
<1>8. job' = [job EXCEPT ![j] = p] /\ UNCHANGED <<live, config, ver, fails>>
  BY <1>6 DEF PutFile
<1>9. /\ job' \in [Job -> DeployJob] /\ Jobs' /\ job'[j] = p
      /\ \A i \in Job \ {j} : job'[i] = job[i]
      /\ \A i \in Job, s \in Server : Refreshes(job[i], s)' <=> Refreshes(job'[i], s)
  BY <1>7, <1>8, PutOthers
<1>10. ASSUME NEW s \in Server, NEW i \in Job, Refreshes(job[i], s),
              ~(q.cur = s /\ q.target = s /\ q.seen = ver[s])
       PROVE  Refreshes(job[i], s)'
  <2>1. CASE i = j
    <3>1. s \in q.todo
      BY <1>0, <1>1, <1>10, <2>1 DEF Refreshes
    <3> QED
      BY <1>7, <1>9, <2>1, <3>1 DEF Refreshes
  <2>2. CASE i # j
    BY <1>9, <1>10, <2>2
  <2> QED
    BY <2>1, <2>2
<1>11. \A s \in Server : ver[s] \in Nat /\ put[s] \in Nat /\ put[s] <= ver[s] /\ excused[s] \in BOOLEAN
  BY DEF SInv, DeployTypeOK, PutNotAhead
<1>12. q.seen \in Nat /\ (q.cur \in Server => q.seen <= ver[q.cur])
  BY <1>1 DEF DeployJob, JobTrue
<1>13. file' \in [Target -> File] /\ file'[q.target] = n
       /\ \A t \in Target \ {q.target} : file'[t] = file[t]
  BY <1>5 DEF SInv, DeployTypeOK
<1>14. CASE q.target = q.cur
  <2> DEFINE c == q.cur
  <2>1. /\ c \in Server /\ put' = [put EXCEPT ![c] = q.seen]
        /\ excused' = [excused EXCEPT ![c] = IF q.seen = ver[c] THEN FALSE ELSE excused[c] \/ q.seen < put[c]]
    BY <1>0, <1>3, <1>14 DEF PutFile
  <2>2. put' \in [Server -> Nat] /\ put'[c] = q.seen /\ \A s \in Server \ {c} : put'[s] = put[s]
    BY <1>12, <2>1 DEF SInv, DeployTypeOK
  <2>3. excused' \in [Server -> BOOLEAN] /\ \A s \in Server \ {c} : excused'[s] = excused[s]
    BY <1>11, <2>1 DEF SInv, DeployTypeOK
  <2>4. excused'[c] = IF q.seen = ver[c] THEN FALSE ELSE excused[c] \/ q.seen < put[c]
    BY <2>1 DEF SInv, DeployTypeOK
  <2>5. DeployTypeOK'
    BY <1>8, <1>9, <1>13, <2>2, <2>3 DEF SInv, DeployTypeOK
  <2>6. PutNotAhead'
    BY <1>8, <1>11, <1>12, <2>1, <2>2 DEF PutNotAhead
  <2>7. FileIsLive'
    <3>1. ASSUME NEW s \in Server, s # c, file'[s].whole, file'[s].of # None, put'[s] = ver[s]
          PROVE  file'[s].items = live[s]
      BY <1>13, <1>14, <2>2, <3>1 DEF SInv, FileIsLive, Target
    <3>2. q.seen = ver[c] => file'[c].items = live[c]
      BY <1>1, <1>4, <1>13, <1>14, <2>1 DEF JobTrue
    <3> QED
      BY <1>8, <2>2, <3>1, <3>2 DEF FileIsLive
  <2>8. ASSUME NEW s \in Server, config[s] = "on", put'[s] # ver[s], ~excused'[s]
        PROVE  \E i \in Job : Refreshes(job[i], s)'
    <3>1. ~excused[s] /\ put[s] # ver[s]
      <4>1. CASE s = c
        <5>1. q.seen # ver[c] /\ ~excused'[c]
          BY <2>2, <2>8, <4>1
        <5>2. ~excused[c] /\ ~(q.seen < put[c])
          BY <2>4, <5>1
        <5>3. put[c] # ver[c]
          BY <1>11, <1>12, <2>1, <5>1, <5>2
        <5> QED
          BY <4>1, <5>2, <5>3
      <4>2. CASE s # c
        BY <2>2, <2>3, <2>8, <4>2
      <4> QED
        BY <4>1, <4>2
    <3>2. PICK i \in Job : Refreshes(job[i], s)
      BY <2>8, <3>1 DEF SInv, Accounted
    <3>3. ~(q.cur = s /\ q.target = s /\ q.seen = ver[s])
      BY <2>2, <2>8
    <3> QED
      BY <1>10, <3>2, <3>3
  <2>9. Accounted'
    BY <1>8, <2>8 DEF Accounted
  <2> QED
    BY <1>9, <2>5, <2>6, <2>7, <2>9 DEF SInv
<1>15. CASE q.target # q.cur
  <2>1. UNCHANGED <<put, excused>> /\ q.target = Env
    BY <1>0, <1>2, <1>15 DEF PutFile
  <2>2. DeployTypeOK' /\ PutNotAhead'
    BY <1>8, <1>9, <1>13, <2>1 DEF SInv, DeployTypeOK, PutNotAhead
  <2>3. \A s \in Server : file'[s] = file[s] /\ s # q.target
    BY <1>13, <2>1, DeployAssumption DEF Target
  <2>4. FileIsLive'
    BY <1>8, <2>1, <2>3 DEF SInv, FileIsLive
  <2>5. ASSUME NEW s \in Server, config[s] = "on", put[s] # ver[s], ~excused[s]
        PROVE  \E i \in Job : Refreshes(job[i], s)'
    <3>1. PICK i \in Job : Refreshes(job[i], s)
      BY <2>5 DEF SInv, Accounted
    <3> QED
      BY <1>10, <2>3, <3>1
  <2>6. Accounted'
    BY <1>8, <2>1, <2>5 DEF Accounted
  <2> QED
    BY <1>9, <2>2, <2>4, <2>6 DEF SInv
<1> QED
  BY <1>14, <1>15

\* An upload fails: the servers the job was to refresh are excused.
LEMMA FailPutStep ==
  ASSUME SInv, NEW j \in Job, FailPut(j)
  PROVE  SInv'
<1>0. PICK q : q = job[j]
  OBVIOUS
<1>1. q \in DeployJob /\ JobShape(q) /\ q.at = "put"
  BY <1>0 DEF SInv, DeployTypeOK, Jobs, FailPut
<1>2. q.cur \in Server \cup {All} /\ q.target \in Target
  BY <1>1 DEF JobShape, Target
<1>3. /\ job' = [job EXCEPT ![j] = NoJob] /\ UNCHANGED <<live, config, ver, put>>
      /\ fails' = fails + 1
      /\ excused' = [s \in Server |-> excused[s] \/ s \in q.todo \/ s \in {q.cur, q.target}]
  BY <1>0 DEF FailPut
<1>4. /\ job' \in [Job -> DeployJob] /\ Jobs' /\ job'[j] = NoJob
      /\ \A i \in Job \ {j} : job'[i] = job[i]
      /\ \A i \in Job, s \in Server : Refreshes(job[i], s)' <=> Refreshes(job'[i], s)
  BY <1>3, NoJobOK, NoJobTrue, PutOthers DEF SInv
<1>5. PICK n : n = [of |-> q.cur, items |-> {}, whole |-> FALSE]
  OBVIOUS
<1>6. n \in File /\ (file' = file \/ file' = [file EXCEPT ![q.target] = n])
  BY <1>0, <1>2, <1>5 DEF FailPut, Write, File
<1>7. file' \in [Target -> File] /\ \A t \in Target : file'[t] = file[t] \/ ~file'[t].whole
  BY <1>2, <1>5, <1>6 DEF SInv, DeployTypeOK
<1>8. excused' \in [Server -> BOOLEAN]
  BY <1>3
<1>9. DeployTypeOK' /\ PutNotAhead'
  BY <1>3, <1>4, <1>7, <1>8 DEF SInv, DeployTypeOK, PutNotAhead
<1>10. FileIsLive'
  BY <1>3, <1>7 DEF SInv, FileIsLive, Target
<1>11. ASSUME NEW s \in Server, config[s] = "on", put[s] # ver[s], ~excused'[s]
       PROVE  \E i \in Job : Refreshes(job[i], s)'
  <2>1. ~excused[s] /\ s \notin q.todo /\ s # q.cur
    BY <1>3, <1>11
  <2>2. PICK i \in Job : Refreshes(job[i], s)
    BY <1>11, <2>1 DEF SInv, Accounted
  <2>3. i # j
    BY <1>0, <1>1, <2>1, <2>2 DEF Refreshes
  <2> QED
    BY <1>4, <2>2, <2>3
<1>12. Accounted'
  BY <1>3, <1>11 DEF Accounted
<1> QED
  BY <1>4, <1>9, <1>10, <1>12 DEF SInv

\* A read fails: the servers the job had still to refresh are excused.
LEMMA FailReadStep ==
  ASSUME SInv, NEW j \in Job, FailRead(j)
  PROVE  SInv'
<1>0. PICK q : q = job[j]
  OBVIOUS
<1>1. q \in DeployJob /\ (q.at \in {"config", "snapshot"} \/ q.at = "begin")
  BY <1>0 DEF SInv, DeployTypeOK, FailRead
<1>2. /\ job' = [job EXCEPT ![j] = NoJob] /\ UNCHANGED <<live, config, file, ver, put>>
      /\ fails' = fails + 1
      /\ excused' = [s \in Server |-> excused[s] \/ q.at = "begin" \/ s \in q.todo \/ s = q.cur]
  BY <1>0 DEF FailRead
<1>3. /\ job' \in [Job -> DeployJob] /\ Jobs'
      /\ \A i \in Job \ {j} : job'[i] = job[i]
      /\ \A i \in Job, s \in Server : Refreshes(job[i], s)' <=> Refreshes(job'[i], s)
  BY <1>2, NoJobOK, NoJobTrue, PutOthers DEF SInv
<1>4. excused' \in [Server -> BOOLEAN]
  BY <1>2 DEF SInv, DeployTypeOK
<1>5. DeployTypeOK' /\ PutNotAhead' /\ FileIsLive'
  BY <1>2, <1>3, <1>4 DEF SInv, DeployTypeOK, PutNotAhead, FileIsLive
<1>6. ASSUME NEW s \in Server, config[s] = "on", put[s] # ver[s], ~excused'[s]
      PROVE  \E i \in Job : Refreshes(job[i], s)'
  <2>1. ~excused[s] /\ q.at # "begin" /\ s \notin q.todo /\ s # q.cur
    BY <1>2, <1>6
  <2>2. PICK i \in Job : Refreshes(job[i], s)
    BY <1>6, <2>1 DEF SInv, Accounted
  <2>3. i # j
    BY <1>0, <1>1, <2>1, <2>2 DEF Refreshes
  <2> QED
    BY <1>3, <2>2, <2>3
<1>7. Accounted'
  BY <1>2, <1>6 DEF Accounted
<1> QED
  BY <1>3, <1>5, <1>7 DEF SInv

-----------------------------------------------------------------------------
(* Changes of the whitelist and of the configurations.                     *)

\* Each scope in F gets a job of its own, in a slot that was free.
LEMMA FireStarts ==
  ASSUME SInv, NEW F \in SUBSET (Server \cup {All}), Fire(F), ver' \in [Server -> Nat]
  PROVE  /\ job' \in [Job -> DeployJob]
         /\ \A i \in Job : \/ job'[i] = job[i]
                           \/ /\ job[i] = NoJob /\ job'[i].at = "begin" /\ job'[i].asked = ver'
                              /\ job'[i].scope \in F /\ JobShape(job'[i])
         /\ \A f \in F : \E i \in Job : job'[i].at = "begin" /\ job'[i].scope = f
<1>1. PICK slot \in [F -> {i \in Job : job[i] = NoJob}] :
        /\ \A f, g \in F : slot[f] = slot[g] => f = g
        /\ job' = [i \in Job |->
             IF \E f \in F : slot[f] = i
             THEN [NoJob EXCEPT !.at = "begin", !.scope = CHOOSE f \in F : slot[f] = i, !.asked = ver']
             ELSE job[i]]
  BY DEF Fire
<1>2. ASSUME NEW f \in F
      PROVE  /\ slot[f] \in Job /\ job[slot[f]] = NoJob
             /\ job'[slot[f]] = [NoJob EXCEPT !.at = "begin", !.scope = f, !.asked = ver']
  <2>1. slot[f] \in Job /\ job[slot[f]] = NoJob
    BY <1>1
  <2>2. (CHOOSE g \in F : slot[g] = slot[f]) = f
    BY <1>1
  <2> QED
    BY <1>1, <2>1, <2>2
<1>3. ASSUME NEW f \in F
      PROVE  LET p == [NoJob EXCEPT !.at = "begin", !.scope = f, !.asked = ver'] IN
             p \in DeployJob /\ p.at = "begin" /\ p.scope = f /\ p.asked = ver' /\ JobShape(p)
  <2>1. PICK p : p = [NoJob EXCEPT !.at = "begin", !.scope = f, !.asked = ver']
    OBVIOUS
  <2>2. p \in DeployJob /\ p.at = "begin" /\ p.scope = f /\ p.asked = ver'
    BY <2>1, NoJobOK DEF DeployJob, Stage, NoJob
  <2>3. JobShape(p)
    BY <2>2 DEF JobShape
  <2> QED
    BY <2>1, <2>2, <2>3
<1>4. ASSUME NEW i \in Job, ~\E f \in F : slot[f] = i  PROVE job'[i] = job[i]
  BY <1>1, <1>4
<1>5. ASSUME NEW i \in Job
      PROVE  /\ job'[i] \in DeployJob
             /\ \/ job'[i] = job[i]
                \/ /\ job[i] = NoJob /\ job'[i].at = "begin" /\ job'[i].asked = ver'
                   /\ job'[i].scope \in F /\ JobShape(job'[i])
  <2>1. CASE \E f \in F : slot[f] = i
    <3>1. PICK f \in F : slot[f] = i
      BY <2>1
    <3> QED
      BY <1>2, <1>3, <3>1
  <2>2. CASE ~\E f \in F : slot[f] = i
    BY <1>4, <2>2 DEF SInv, DeployTypeOK
  <2> QED
    BY <2>1, <2>2
<1>6. job' \in [Job -> DeployJob]
  BY <1>1, <1>5
<1>7. \A f \in F : \E i \in Job : job'[i].at = "begin" /\ job'[i].scope = f
  BY <1>2, <1>3
<1> QED
  BY <1>5, <1>6, <1>7

\* The lists change and the jobs for F start: a change without a job of its server is
\* excused, and the others have the job that reads it.
LEMMA ChangeStep ==
  ASSUME SInv, NEW F \in SUBSET (Server \cup {All}), live' \in [Server -> SUBSET Item], Change(F)
  PROVE  SInv'
<1>1. /\ ver' = [s \in Server |-> IF live'[s] # live[s] THEN ver[s] + 1 ELSE ver[s]]
      /\ excused' = [s \in Server |-> excused[s] \/ (live'[s] # live[s] /\ F \cap {s, All} = {})]
      /\ Fire(F) /\ UNCHANGED <<config, file, put, fails>>
  BY DEF Change, Track
<1>2. \A s \in Server : ver[s] \in Nat /\ put[s] \in Nat /\ put[s] <= ver[s]
  BY DEF SInv, DeployTypeOK, PutNotAhead
<1>3. ver' \in [Server -> Nat] /\ excused' \in [Server -> BOOLEAN]
  BY <1>1, <1>2
<1>4. \A s \in Server : /\ ver[s] <= ver'[s] /\ (ver'[s] = ver[s] => live'[s] = live[s])
                       /\ (ver'[s] # ver[s] => live'[s] # live[s])
  BY <1>1, <1>2
<1>5. /\ job' \in [Job -> DeployJob]
      /\ \A i \in Job : \/ job'[i] = job[i]
                        \/ /\ job[i] = NoJob /\ job'[i].at = "begin" /\ job'[i].asked = ver'
                           /\ job'[i].scope \in F /\ JobShape(job'[i])
      /\ \A f \in F : \E i \in Job : job'[i].at = "begin" /\ job'[i].scope = f
  BY <1>1, <1>3, FireStarts
<1>6. DeployTypeOK'
  BY <1>1, <1>3, <1>5 DEF SInv, DeployTypeOK
<1>7. ASSUME NEW i \in Job  PROVE JobShape(job[i])' /\ JobTrue(job[i])'
  <2>0. PICK p : p = job'[i]
    OBVIOUS
  <2>1. CASE p = job[i]
    <3>1. JobShape(p) /\ JobTrue(p) /\ p \in DeployJob
      BY <2>1 DEF SInv, Jobs, DeployTypeOK
    <3>2. \A s \in Server : p.asked[s] <= ver'[s]
      BY <1>2, <1>3, <1>4, <3>1 DEF JobTrue, DeployJob
    <3>3. ASSUME p.at = "put", p.cur \in Server
          PROVE  /\ p.seen <= ver'[p.cur] /\ p.asked[p.cur] <= p.seen
                 /\ p.seen = ver'[p.cur] => p.items = live'[p.cur]
      <4>1. /\ p.seen \in Nat /\ p.seen <= ver[p.cur] /\ p.asked[p.cur] <= p.seen
            /\ p.seen = ver[p.cur] => p.items = live[p.cur]
        BY <3>1, <3>3 DEF JobTrue, DeployJob
      <4>2. ver[p.cur] \in Nat /\ ver'[p.cur] \in Nat /\ ver[p.cur] <= ver'[p.cur]
            /\ (ver'[p.cur] = ver[p.cur] => live'[p.cur] = live[p.cur])
        BY <1>2, <1>3, <1>4, <3>3
      <4>3. p.seen <= ver'[p.cur]
        BY <4>1, <4>2
      <4>4. p.seen = ver'[p.cur] => p.seen = ver[p.cur] /\ ver'[p.cur] = ver[p.cur]
        BY <4>1, <4>2
      <4> QED
        BY <4>1, <4>2, <4>3, <4>4
    <3> QED
      BY <2>0, <3>1, <3>2, <3>3 DEF JobShape, JobTrue
  <2>2. CASE p.at = "begin" /\ p.asked = ver' /\ JobShape(p)
    BY <1>3, <2>0, <2>2 DEF JobShape, JobTrue
  <2> QED
    BY <1>5, <2>0, <2>1, <2>2
<1>8. Jobs'
  BY <1>7 DEF Jobs
<1>9. PutNotAhead'
  BY <1>1, <1>2, <1>3, <1>4 DEF PutNotAhead
<1>10. FileIsLive'
  <2>1. ASSUME NEW s \in Server, put[s] = ver'[s]  PROVE put[s] = ver[s] /\ live'[s] = live[s]
    BY <1>2, <1>3, <1>4, <2>1
  <2> QED
    BY <1>1, <2>1 DEF SInv, FileIsLive
<1>11. ASSUME NEW s \in Server, config[s] = "on", put[s] # ver'[s], ~excused'[s]
       PROVE  \E i \in Job : Refreshes(job[i], s)'
  <2>1. CASE ver'[s] # ver[s]
    <3>1. PICK f \in F : f \in {s, All}
      BY <1>1, <1>4, <1>11, <2>1
    <3>2. PICK i \in Job : job'[i].at = "begin" /\ job'[i].scope = f
      BY <1>5
    <3> QED
      BY <3>1, <3>2 DEF Refreshes
  <2>2. CASE ver'[s] = ver[s]
    <3>1. ~excused[s]
      BY <1>1, <1>11
    <3>2. PICK i \in Job : Refreshes(job[i], s)
      BY <1>11, <2>2, <3>1 DEF SInv, Accounted
    <3>3. job'[i] = job[i]
      BY <1>5, <3>2, NoJobOK
    <3> QED
      BY <2>2, <3>2, <3>3 DEF Refreshes
  <2> QED
    BY <2>1, <2>2
<1>12. Accounted'
  BY <1>1, <1>11 DEF Accounted
<1> QED
  BY <1>6, <1>8, <1>9, <1>10, <1>12 DEF SInv

\* A configuration is written: its server is excused.
LEMMA ConfigureStep ==
  ASSUME SInv, Configure
  PROVE  SInv'
<1>1. PICK s \in Server, k \in ConfigKind : SetConfig(s, k)
  <2>1. \A s \in Server, enabled, hasCreds \in BOOLEAN :
          SetSync(s, enabled, hasCreds) => \E k \in ConfigKind : SetConfig(s, k)
    BY DEF SetSync, ConfigKind
  <2> QED
    BY <2>1 DEF Configure, UpsertConfig, DeleteConfig, ConfigKind
<1>2. /\ config' = [config EXCEPT ![s] = k] /\ excused' = [excused EXCEPT ![s] = TRUE]
      /\ UNCHANGED <<live, job, file, ver, put, fails>>
  BY <1>1 DEF SetConfig
<1>3. DeployTypeOK'
  BY <1>2 DEF SInv, DeployTypeOK
<1>4. Jobs' /\ PutNotAhead' /\ FileIsLive'
  BY <1>2 DEF SInv, Jobs, JobShape, JobTrue, PutNotAhead, FileIsLive
<1>5. ASSUME NEW t \in Server, config'[t] = "on", put[t] # ver[t], ~excused'[t]
      PROVE  \E i \in Job : Refreshes(job[i], t)
  <2>1. t # s /\ config[t] = "on" /\ ~excused[t]
    BY <1>2, <1>5 DEF SInv, DeployTypeOK
  <2> QED
    BY <1>5, <2>1 DEF SInv, Accounted
<1>6. Accounted'
  BY <1>2, <1>5 DEF Accounted, Refreshes
<1> QED
  BY <1>3, <1>4, <1>6 DEF SInv

-----------------------------------------------------------------------------
(* The theorems.                                                           *)

LEMMA SInvInit == DInit => SInv
<1> SUFFICES ASSUME DInit PROVE SInv
  OBVIOUS
<1>1. live \in [Server -> SUBSET Item] /\ config \in [Server -> ConfigKind]
  BY DeployAssumption DEF DInit, ConfigKind
<1>2. DeployTypeOK
  BY <1>1, NoJobOK DEF DInit, DeployTypeOK, File
<1>3. Jobs
  BY <1>2, NoJobOK, NoJobTrue DEF DInit, Jobs
<1>4. PutNotAhead /\ Accounted /\ FileIsLive
  BY DEF DInit, PutNotAhead, Accounted, FileIsLive, Target
<1> QED
  BY <1>2, <1>3, <1>4 DEF SInv

LEMMA SInvStep == SInv /\ [DNext]_dvars => SInv'
<1> SUFFICES ASSUME SInv, [DNext]_dvars PROVE SInv'
  OBVIOUS
<1>1. CASE UNCHANGED dvars
  BY <1>1 DEF dvars, SInv, DeployTypeOK, Jobs, JobShape, JobTrue, PutNotAhead, Accounted, Refreshes, FileIsLive
<1>2. CASE Edit
  BY <1>2, ChangeStep DEF Edit
<1>3. CASE JobNext
  BY <1>3, TriggerStep, ReadConfigStep, SnapshotStep, PutFileStep, FailPutStep, FailReadStep,
     NextServerStep
     DEF JobNext, JobStep
<1>4. CASE Configure
  BY <1>4, ConfigureStep
<1> QED
  BY <1>1, <1>2, <1>3, <1>4 DEF DNext

\* Whatever jobs overlap, fail or are redirected, what they have in their hands stays tied
\* to the versions, and a stale file has a cause or a job that will refresh it.
THEOREM DeployInvariant == DeploySafety => []SInv
  BY SInvInit, SInvStep, PTL DEF DeploySafety

\* Every job in flight always has a configuration, a target and a scope that the next
\* statement can use, with configurations that come and go between its statements.
THEOREM DeployTypeCorrect == DeploySafety => []DeployTypeOK
<1>1. SInv => DeployTypeOK
  BY DEF SInv
<1> QED
  BY DeployInvariant, <1>1, PTL

\* Staleness is accounted for, with any number of servers, of deploys at once and of
\* failures: triggerSftpDeploy loses no server and no change but for a known cause.
THEOREM StalenessIsAccounted == DeploySafety => []StaleIsAccounted
<1>1. SInv => StaleIsAccounted
  BY DEF SInv, Accounted, Refreshes, StaleIsAccounted, WillRead, Carries
<1> QED
  BY DeployInvariant, <1>1, PTL

\* A deploy carries at least the change that asked for it, whichever deploys run with it.
THEOREM DeploysCarryTheirChange == DeploySafety => []CarriesItsChange
<1>1. SInv => CarriesItsChange
  <2> SUFFICES ASSUME SInv, NEW j \in Job, job[j].at = "put", job[j].cur \in Server
               PROVE  job[j].seen >= job[j].asked[job[j].cur]
    BY DEF CarriesItsChange
  <2>1. JobTrue(job[j]) /\ job[j] \in DeployJob
    BY DEF SInv, Jobs, DeployTypeOK
  <2> QED
    BY <2>1 DEF JobTrue, DeployJob
<1> QED
  BY DeployInvariant, <1>1, PTL

\* A complete file whose version is current lists what the database holds now.
THEOREM FilesAreLive == DeploySafety => []FileIsLive
<1>1. SInv => FileIsLive
  BY DEF SInv
<1> QED
  BY DeployInvariant, <1>1, PTL

\* A file that was never written, or was cut short, lists nobody.
BlankFiles == \A t \in Target : file[t].of = None \/ ~file[t].whole => file[t].items = {}

\* Every upload names its server, and a torn one leaves nothing listed.
LEMMA BlankStep ==
  ASSUME SInv, BlankFiles, [DNext]_dvars
  PROVE  BlankFiles'
<1>1. CASE UNCHANGED file
  BY <1>1 DEF BlankFiles
<1>2. ASSUME NEW j \in Job, NEW whole \in BOOLEAN, job[j].at = "put", Write(j, whole)
      PROVE  BlankFiles'
  <2>1. job[j].cur # None /\ file \in [Target -> File]
    BY <1>2, DeployAssumption DEF SInv, Jobs, JobShape, DeployTypeOK
  <2>2. \A t \in Target : file'[t] = IF t = job[j].target
          THEN [of |-> job[j].cur, items |-> IF whole THEN job[j].items ELSE {}, whole |-> whole]
          ELSE file[t]
    BY <1>2, <2>1 DEF Write
  <2> QED
    BY <1>2, <2>1, <2>2 DEF BlankFiles
<1>3. CASE Edit \/ Configure
  BY <1>1, <1>3 DEF Edit, Change, Configure, UpsertConfig, SetSync, DeleteConfig, SetConfig
<1>4. ASSUME NEW j \in Job, JobStep(j) PROVE BlankFiles'
  <2>1. CASE PutFile(j) \/ FailPut(j)
    BY <1>1, <1>2, <2>1 DEF PutFile, FailPut
  <2> QED
    BY <1>1, <1>4, <2>1 DEF JobStep, TriggerSftpDeploy, ReadConfig, Snapshot, FailRead, NextServer
<1> QED
  BY <1>1, <1>3, <1>4 DEF DNext, JobNext, dvars

LEMMA BlankInit == DInit => BlankFiles
  BY DEF DInit, BlankFiles

\* An upload that fails leaves a file that puts nobody in the game.
THEOREM BlankFilesListNobody == DeploySafety => []BlankFiles
<1>1. SInv /\ BlankFiles /\ [DNext]_dvars => BlankFiles'
  BY BlankStep
<1> QED
  BY DeployInvariant, BlankInit, <1>1, PTL DEF DeploySafety
=============================================================================
